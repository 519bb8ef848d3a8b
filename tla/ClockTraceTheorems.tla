-------------------------- MODULE ClockTraceTheorems --------------------------
(***************************************************************************)
(* Proofs about the clock-domain tracer, for every network with one clock  *)
(* leg at a transparent cell and every depth.                              *)
(*                                                                         *)
(* _trace is followed level by level: what a walk of d + 1 cells yields is *)
(* Visit of what the walks of d cells yield, so a fact about all walks is  *)
(* proved for the least depth that could refute it.                        *)
(***************************************************************************)
EXTENDS ClockTrace, Induction, FiniteSetTheorems

Outcome == [root : Root \cup {NoRoot}, declines : SUBSET (Bit \X SUBSET Clock)]
Level == [Wire -> [SUBSET Bit -> Outcome]]
Bottom == [b \in Wire |-> [path \in SUBSET Bit |-> Nothing]]
Deeper(n) ==
    [below \in Level |-> [b \in Wire |-> [path \in SUBSET Bit |-> Visit(n, below, b, path)]]]

(* What the legs of b yield, as Visit names it.                            *)
Legs(n, below, b, path) ==
    [i \in DOMAIN n.node[b].legs |-> below[n.node[b].legs[i]][path \cup {b}]]

(* A leg that is chosen is one of those to choose from.                    *)
LEMMA FirstIsOne ==
    ASSUME NEW results, DOMAIN results \in SUBSET Nat, NEW legs \in SUBSET DOMAIN results, legs # {}
    PROVE  \E i \in legs : FirstRoot(results, legs) = results[i].root
<1>1. legs \in SUBSET Nat  OBVIOUS
<1>2. \E i \in legs : \A j \in legs : i <= j  BY <1>1, LeastNat
<1> QED  BY <1>2 DEF FirstRoot

LEMMA LegFacts ==
    ASSUME NEW n, IsNetwork(n), NEW below \in Level, NEW b \in Bit, NEW path \in SUBSET Bit
    PROVE  /\ DOMAIN Legs(n, below, b, path) = 1..Len(n.node[b].legs)
           /\ Len(n.node[b].legs) \in Nat
           /\ \A i \in DOMAIN Legs(n, below, b, path) :
                 /\ n.node[b].legs[i] \in Wire
                 /\ Legs(n, below, b, path)[i] = below[n.node[b].legs[i]][path \cup {b}]
                 /\ Legs(n, below, b, path)[i] \in Outcome
<1>1. n.node[b] \in Node  BY DEF IsNetwork
<1>2. n.node[b].legs \in Seq(Wire)  BY <1>1 DEF Node
<1>3. path \cup {b} \in SUBSET Bit  OBVIOUS
<1> DEFINE legs == n.node[b].legs
<1> HIDE DEF legs
<1>4. /\ DOMAIN legs = 1..Len(legs) /\ Len(legs) \in Nat
      /\ \A i \in DOMAIN legs : legs[i] \in Wire
  BY <1>2 DEF legs
<1>5. \A i \in DOMAIN legs : below[legs[i]][path \cup {b}] \in Outcome
  BY <1>3, <1>4 DEF Level
<1> QED  BY <1>4, <1>5 DEF Legs, legs

(* Two clocks that met are two clocks.                                     *)
LEMMA MetClocks ==
    ASSUME NEW n, IsNetwork(n), NEW results, NEW k \in Nat, DOMAIN results = 1..k,
           \A i \in DOMAIN results : results[i] \in Outcome
    PROVE  /\ IsFiniteSet(Met(n, results)) /\ Met(n, results) \in SUBSET Clock
           /\ Cardinality(Met(n, results)) \in Nat
           /\ Cardinality(Met(n, results)) < 2 =>
                 \A x, y \in Met(n, results) : x = y
           /\ Met(n, results) # {} => Cardinality(Met(n, results)) >= 1
<1>1. DeclaredLegs(n, results) \in SUBSET (1..k)  BY DEF DeclaredLegs, Resolved
<1>2. IsFiniteSet(1..k)  BY FS_Interval
<1>3. IsFiniteSet(DeclaredLegs(n, results))  BY <1>1, <1>2, FS_Subset
<1> DEFINE f == [i \in DeclaredLegs(n, results) |-> n.identity[results[i].root]]
<1>4. Met(n, results) = {f[i] : i \in DeclaredLegs(n, results)}  BY DEF Met
<1>5. f \in Surjection(DeclaredLegs(n, results), Met(n, results))
  BY <1>4 DEF Surjection
<1>6. IsFiniteSet(Met(n, results))  BY <1>3, <1>5, FS_Surjection
<1>7. Met(n, results) \in SUBSET Clock
  BY DEF Met, DeclaredLegs, Resolved, IsNetwork, Outcome
<1>8. Cardinality(Met(n, results)) \in Nat  BY <1>6, FS_CardinalityType
<1>9. ASSUME NEW x \in Met(n, results), NEW y \in Met(n, results), x # y
      PROVE  Cardinality(Met(n, results)) >= 2
  <2>1. {x, y} \subseteq Met(n, results)  OBVIOUS
  <2>2. IsFiniteSet({x}) /\ Cardinality({x}) = 1  BY FS_Singleton
  <2>3. Cardinality({x} \cup {y}) = 2
    <3>1. y \notin {x}  BY <1>9
    <3>2. Cardinality({x} \cup {y}) = Cardinality({x}) + 1  BY <2>2, <3>1, FS_AddElement
    <3> QED  BY <2>2, <3>2
  <2>4. {x} \cup {y} = {x, y}  OBVIOUS
  <2> QED  BY <1>6, <2>1, <2>3, <2>4, FS_Subset
<1>10. Met(n, results) # {} => Cardinality(Met(n, results)) >= 1
  <2>1. Cardinality(Met(n, results)) = 0 <=> Met(n, results) = {}  BY <1>6, FS_EmptySet
  <2> QED  BY <1>8, <2>1
<1> QED  BY <1>6, <1>7, <1>8, <1>9, <1>10
------------------------------------------------------------------------------
(* One visit.                                                              *)

LEMMA PickFrom ==
    ASSUME NEW n, IsNetwork(n), NEW results, NEW k \in Nat, DOMAIN results = 1..k,
           \A i \in DOMAIN results : results[i] \in Outcome
    PROVE  /\ Pick(n, results) # NoRoot =>
                 \E i \in Resolved(results) : Pick(n, results) = results[i].root
           /\ Cardinality(Met(n, results)) < 2 =>
                 /\ Resolved(results) # {} => Pick(n, results) # NoRoot
                 /\ \A i \in DeclaredLegs(n, results) :
                       n.identity[Pick(n, results)] = n.identity[results[i].root]
<1> DEFINE met == Met(n, results)
           hits == Resolved(results)
           declared == DeclaredLegs(n, results)
<1>1. /\ hits \in SUBSET DOMAIN results /\ declared \in SUBSET hits
      /\ DOMAIN results \in SUBSET Nat
  BY DEF Resolved, DeclaredLegs
<1>2. /\ Cardinality(met) \in Nat
      /\ Cardinality(met) < 2 => \A x, y \in met : x = y
      /\ met # {} => Cardinality(met) >= 1
  BY MetClocks
<1>3. \A i \in declared : n.identity[results[i].root] \in met  BY DEF Met
<1>4. hits # {} => \E i \in hits : FirstRoot(results, hits) = results[i].root
  BY <1>1, FirstIsOne
<1>5. declared # {} => \E i \in declared : FirstRoot(results, declared) = results[i].root
  BY <1>1, FirstIsOne
<1>6. \A i \in hits : results[i].root # NoRoot  BY DEF Resolved
<1>7. Cardinality(met) = 1 => declared # {}
  <2>1. SUFFICES ASSUME declared = {}, Cardinality(met) = 1 PROVE FALSE
    OBVIOUS
  <2>2. met = {}  BY <2>1 DEF Met
  <2> QED  BY <2>1, <2>2, FS_EmptySet
<1> HIDE DEF met, hits, declared
<1>8. Pick(n, results) = CASE hits = {} \/ Cardinality(met) >= 2 -> NoRoot
                           [] Cardinality(met) = 1 -> FirstRoot(results, declared)
                           [] OTHER -> FirstRoot(results, hits)
  BY Zenon DEF Pick, met, hits, declared
<1>9. CASE hits = {} \/ Cardinality(met) >= 2
  <2>1. Pick(n, results) = NoRoot  BY <1>1, <1>2, <1>7, <1>8, <1>9
  <2>2. ~(Cardinality(met) < 2) \/ hits = {}  BY <1>2, <1>9
  <2>3. hits = {} => declared = {}  BY <1>1
  <2> QED  BY <2>1, <2>2, <2>3 DEF met, hits, declared
<1>10. CASE hits # {} /\ Cardinality(met) = 1
  <2>1. Pick(n, results) = FirstRoot(results, declared)  BY <1>8, <1>10
  <2>2. PICK i \in declared : Pick(n, results) = results[i].root
    BY <1>5, <1>7, <1>10, <2>1
  <2>3. i \in hits  BY <1>1
  <2>4. \A j \in declared : n.identity[results[i].root] = n.identity[results[j].root]
    BY <1>2, <1>3, <1>10
  <2> QED  BY <1>6, <2>2, <2>3, <2>4 DEF met, hits, declared
<1>11. CASE hits # {} /\ Cardinality(met) # 1 /\ ~(Cardinality(met) >= 2)
  <2>1. Pick(n, results) = FirstRoot(results, hits)  BY <1>8, <1>11
  <2>2. met = {}  BY <1>2, <1>11
  <2>3. declared = {}  BY <1>3, <2>2
  <2> QED  BY <1>4, <1>6, <1>11, <2>1, <2>3 DEF met, hits, declared
<1> QED  BY <1>9, <1>10, <1>11

(* A root or a decline comes from a leg, unless b is a source or declines  *)
(* itself.                                                                 *)
LEMMA VisitFrom ==
    ASSUME NEW n, IsNetwork(n), NEW below \in Level, NEW b \in Bit, NEW path \in SUBSET Bit,
           b \notin path
    PROVE  LET o == Visit(n, below, b, path)
               results == Legs(n, below, b, path)
               kind == n.node[b].kind
           IN  /\ kind \in {"pin", "port"} => o = [root |-> n.node[b].name, declines |-> {}]
               /\ kind \notin WalkedKinds \cup {"pin", "port"} => o = Nothing
               /\ kind \in WalkedKinds =>
                     /\ o.root # NoRoot => \E i \in DOMAIN results : o.root = results[i].root
                     /\ \A c \in o.declines :
                           \/ \E i \in DOMAIN results : c \in results[i].declines
                           \/ /\ c = <<b, Met(n, results)>>
                              /\ Cardinality(Met(n, results)) >= 2
<1> DEFINE o == Visit(n, below, b, path)
           results == Legs(n, below, b, path)
           kind == n.node[b].kind
<1>0. /\ DOMAIN results = 1..Len(n.node[b].legs)
      /\ Len(n.node[b].legs) \in Nat
      /\ \A i \in DOMAIN results : results[i] \in Outcome
  <2>0. n.node[b].legs \in Seq(Wire)  BY DEF IsNetwork, Node
  <2>1. DOMAIN results = 1..Len(n.node[b].legs)  BY <2>0 DEF Legs
  <2>2. Len(n.node[b].legs) \in Nat  BY LegFacts
  <2>3. \A i \in DOMAIN results : results[i] \in Outcome  BY LegFacts
  <2> QED  BY <2>1, <2>2, <2>3
<1>1. b # Const  BY TraceAssumption
<1>2. o = CASE kind \in {"pin", "port"} -> [root |-> n.node[b].name, declines |-> {}]
            [] kind \in {"buffer", "divider"} /\ n.node[b].legs # <<>> -> results[1]
            [] kind \in {"gate", "latch"} -> Combine(n, b, results)
            [] kind = "mux" -> Select(results)
            [] OTHER -> Nothing
  BY <1>1, Zenon DEF Visit, Legs
<1> HIDE DEF o, results, kind
<1>3. CASE kind \in {"pin", "port"}
  <2>1. o = [root |-> n.node[b].name, declines |-> {}]  BY <1>2, <1>3
  <2> QED  BY <1>3, <2>1 DEF o, results, kind, WalkedKinds
<1>4. CASE kind \in {"buffer", "divider"} /\ n.node[b].legs # <<>>
  <2>1. o = results[1]  BY <1>2, <1>4
  <2>2. 1 \in DOMAIN results
    <3>1. n.node[b].legs \in Seq(Wire)  BY DEF IsNetwork, Node
    <3> QED  BY <1>0, <1>4, <3>1
  <2>3. \E i \in DOMAIN results : o = results[i]  BY <2>1, <2>2
  <2> QED  BY <1>4, <2>3 DEF o, results, kind, WalkedKinds
<1>5. CASE kind \in {"gate", "latch"}
  <2>1. o = Combine(n, b, results)  BY <1>2, <1>5
  <2>2. o.root = Pick(n, results)  BY <2>1 DEF Combine
  <2>3. o.declines = (UNION {results[i].declines : i \in DOMAIN results})
                     \cup (IF Cardinality(Met(n, results)) >= 2 THEN {<<b, Met(n, results)>>} ELSE {})
    BY <2>1 DEF Combine
  <2>4. o.root # NoRoot => \E i \in DOMAIN results : o.root = results[i].root
    BY <1>0, <2>2, PickFrom DEF Resolved
  <2>5. \A c \in o.declines :
           \/ \E i \in DOMAIN results : c \in results[i].declines
           \/ /\ c = <<b, Met(n, results)>> /\ Cardinality(Met(n, results)) >= 2
    BY <2>3
  <2> QED  BY <1>5, <2>4, <2>5 DEF o, results, kind, WalkedKinds
<1>6. CASE kind = "mux"
  <2>1. o = Select(results)  BY <1>2, <1>6
  <2>2. o.root = IF Resolved(results) = {} THEN NoRoot ELSE FirstRoot(results, Resolved(results))
    BY <2>1 DEF Select
  <2>3. o.declines = UNION {results[i].declines :
                              i \in {j \in DOMAIN results : \A h \in Resolved(results) : j <= h}}
    BY <2>1 DEF Select
  <2>4. Resolved(results) \in SUBSET DOMAIN results /\ DOMAIN results \in SUBSET Nat
    BY <1>0 DEF Resolved
  <2>5. o.root # NoRoot => \E i \in DOMAIN results : o.root = results[i].root
    BY <2>2, <2>4, FirstIsOne
  <2>6. \A c \in o.declines : \E i \in DOMAIN results : c \in results[i].declines
    BY <2>3
  <2> QED  BY <1>6, <2>5, <2>6 DEF o, results, kind, WalkedKinds
<1>7. CASE /\ kind \notin {"pin", "port", "gate", "latch", "mux"}
           /\ ~(kind \in {"buffer", "divider"} /\ n.node[b].legs # <<>>)
  <2>1. o = Nothing  BY <1>2, <1>7
  <2> QED  BY <1>7, <2>1 DEF o, results, kind, WalkedKinds, Nothing
<1> QED  BY <1>3, <1>4, <1>5, <1>6, <1>7

(* A visit that declines nothing keeps what its legs found, and if nothing *)
(* was found, no leg found anything.                                       *)
LEMMA VisitKeeps ==
    ASSUME NEW n, IsNetwork(n), NEW below \in Level, NEW b \in Bit, NEW path \in SUBSET Bit,
           b \notin path, n.node[b].kind \in WalkedKinds,
           Visit(n, below, b, path).declines = {}
    PROVE  LET o == Visit(n, below, b, path)
               results == Legs(n, below, b, path)
           IN  /\ o.root = NoRoot =>
                     \A i \in DOMAIN results : results[i].declines = {} /\ results[i].root = NoRoot
               /\ n.node[b].kind # "mux" =>
                     \A i \in DOMAIN results :
                         /\ results[i].declines = {}
                         /\ /\ results[i].root # NoRoot
                            /\ n.identity[results[i].root] # NoClock
                            => n.identity[o.root] = n.identity[results[i].root]
<1> DEFINE o == Visit(n, below, b, path)
           results == Legs(n, below, b, path)
           kind == n.node[b].kind
<1>0. /\ DOMAIN results = 1..Len(n.node[b].legs)
      /\ Len(n.node[b].legs) \in Nat
      /\ \A i \in DOMAIN results : results[i] \in Outcome
  <2>0. n.node[b].legs \in Seq(Wire)  BY DEF IsNetwork, Node
  <2>1. DOMAIN results = 1..Len(n.node[b].legs)  BY <2>0 DEF Legs
  <2>2. Len(n.node[b].legs) \in Nat  BY LegFacts
  <2>3. \A i \in DOMAIN results : results[i] \in Outcome  BY LegFacts
  <2> QED  BY <2>1, <2>2, <2>3
<1>1. b # Const  BY TraceAssumption
<1>2. o = CASE kind \in {"pin", "port"} -> [root |-> n.node[b].name, declines |-> {}]
            [] kind \in {"buffer", "divider"} /\ n.node[b].legs # <<>> -> results[1]
            [] kind \in {"gate", "latch"} -> Combine(n, b, results)
            [] kind = "mux" -> Select(results)
            [] OTHER -> Nothing
  BY <1>1, Zenon DEF Visit, Legs
<1>3. o.declines = {}  OBVIOUS
<1>4. n.node[b].legs \in Seq(Wire)  BY DEF IsNetwork, Node
<1>5. kind \in {"buffer", "divider"} => Len(n.node[b].legs) <= 1  BY DEF IsNetwork
<1>6. kind \in WalkedKinds  OBVIOUS
<1> HIDE DEF o, results, kind
<1>7. CASE kind \in {"buffer", "divider"} /\ n.node[b].legs # <<>>
  <2>1. o = results[1]  BY <1>2, <1>7
  <2>2. \A i \in DOMAIN results : i = 1  BY <1>0, <1>5, <1>7
  <2> QED  BY <1>3, <2>1, <2>2 DEF o, results, kind
<1>8. CASE kind \in {"buffer", "divider"} /\ n.node[b].legs = <<>>
  <2>1. DOMAIN results = {}  BY <1>0, <1>8
  <2> QED  BY <2>1 DEF o, results, kind
<1>9. CASE kind \in {"gate", "latch"}
  <2>1. o = Combine(n, b, results)  BY <1>2, <1>9
  <2>2. o.root = Pick(n, results)  BY <2>1 DEF Combine
  <2>3. o.declines = (UNION {results[i].declines : i \in DOMAIN results})
                     \cup (IF Cardinality(Met(n, results)) >= 2 THEN {<<b, Met(n, results)>>} ELSE {})
    BY <2>1 DEF Combine
  <2>4. \A i \in DOMAIN results : results[i].declines = {}  BY <1>3, <2>3
  <2>5. ~(Cardinality(Met(n, results)) >= 2)  BY <1>3, <2>3
  <2>6. Cardinality(Met(n, results)) < 2  BY <1>0, <2>5, MetClocks
  <2>7. /\ Resolved(results) # {} => Pick(n, results) # NoRoot
        /\ \A i \in DeclaredLegs(n, results) :
              n.identity[Pick(n, results)] = n.identity[results[i].root]
    BY <1>0, <2>6, PickFrom
  <2>8. o.root = NoRoot => \A i \in DOMAIN results : results[i].root = NoRoot
    BY <2>2, <2>7 DEF Resolved
  <2>9. \A i \in DOMAIN results :
           results[i].root # NoRoot /\ n.identity[results[i].root] # NoClock =>
               n.identity[o.root] = n.identity[results[i].root]
    BY <2>2, <2>7 DEF Resolved, DeclaredLegs
  <2> QED  BY <2>4, <2>8, <2>9 DEF o, results, kind
<1>10. CASE kind = "mux"
  <2>1. o = Select(results)  BY <1>2, <1>10
  <2>2. o.root = IF Resolved(results) = {} THEN NoRoot ELSE FirstRoot(results, Resolved(results))
    BY <2>1 DEF Select
  <2>3. o.declines = UNION {results[i].declines :
                              i \in {j \in DOMAIN results : \A h \in Resolved(results) : j <= h}}
    BY <2>1 DEF Select
  <2>4. Resolved(results) \in SUBSET DOMAIN results /\ DOMAIN results \in SUBSET Nat
        /\ \A i \in Resolved(results) : results[i].root # NoRoot
    BY <1>0 DEF Resolved
  <2>5. o.root = NoRoot => Resolved(results) = {}
    BY <2>2, <2>4, FirstIsOne
  <2>6. o.root = NoRoot =>
           \A i \in DOMAIN results : results[i].declines = {} /\ results[i].root = NoRoot
    <3> SUFFICES ASSUME Resolved(results) = {}
                 PROVE  \A i \in DOMAIN results : results[i].declines = {} /\ results[i].root = NoRoot
      BY <2>5
    <3>1. UNION {results[i].declines : i \in DOMAIN results} = {}
      BY <1>3, <2>3
    <3> QED  BY <3>1 DEF Resolved
  <2> QED  BY <1>10, <2>6 DEF o, results, kind
<1> QED  BY <1>6, <1>7, <1>8, <1>9, <1>10 DEF WalkedKinds
------------------------------------------------------------------------------
(* All walks, level by level.                                              *)

LEMMA VisitType ==
    ASSUME NEW n, IsNetwork(n), NEW below \in Level, NEW b \in Wire, NEW path \in SUBSET Bit
    PROVE  Visit(n, below, b, path) \in Outcome
<1>1. Nothing \in Outcome  BY DEF Nothing, Outcome
<1>2. CASE b = Const \/ b \in path  BY <1>1, <1>2 DEF Visit
<1>3. CASE b \in Bit /\ b \notin path
  <2> DEFINE o == Visit(n, below, b, path)
             results == Legs(n, below, b, path)
             kind == n.node[b].kind
  <2>1. /\ kind \in {"pin", "port"} => o = [root |-> n.node[b].name, declines |-> {}]
        /\ kind \notin WalkedKinds \cup {"pin", "port"} => o = Nothing
        /\ kind \in WalkedKinds =>
              /\ o.root # NoRoot => \E i \in DOMAIN results : o.root = results[i].root
              /\ \A c \in o.declines :
                    \/ \E i \in DOMAIN results : c \in results[i].declines
                    \/ /\ c = <<b, Met(n, results)>>
                       /\ Cardinality(Met(n, results)) >= 2
    BY <1>3, VisitFrom
  <2>2. n.node[b].name \in Root \cup {NoRoot}  BY <1>3 DEF IsNetwork, Node
  <2>3. \A i \in DOMAIN results : results[i] \in Outcome  BY <1>3, LegFacts
  <2>4. Met(n, results) \in SUBSET Clock
    BY <2>3 DEF Met, DeclaredLegs, Resolved, IsNetwork, Outcome
  <2>5. \E r, t : o = [root |-> r, declines |-> t]
    <3>1. b # Const  BY <1>3, TraceAssumption
    <3>2. \A i \in DOMAIN results : results[i] = [root |-> results[i].root,
                                                 declines |-> results[i].declines]
      BY <2>3 DEF Outcome
    <3>3. kind \in {"buffer", "divider"} /\ n.node[b].legs # <<>> => 1 \in DOMAIN results
      <4>1. n.node[b].legs \in Seq(Wire)  BY <1>3 DEF IsNetwork, Node
      <4> QED  BY <4>1 DEF Legs
    <3>4. o = CASE kind \in {"pin", "port"} -> [root |-> n.node[b].name, declines |-> {}]
                [] kind \in {"buffer", "divider"} /\ n.node[b].legs # <<>> -> results[1]
                [] kind \in {"gate", "latch"} -> Combine(n, b, results)
                [] kind = "mux" -> Select(results)
                [] OTHER -> Nothing
      BY <1>3, <3>1, Zenon DEF Visit, Legs
    <3>5. \E r, t : Combine(n, b, results) = [root |-> r, declines |-> t]  BY DEF Combine
    <3>6. \E r, t : Select(results) = [root |-> r, declines |-> t]  BY DEF Select
    <3>7. \E r, t : Nothing = [root |-> r, declines |-> t]  BY DEF Nothing
    <3> HIDE DEF o, results, kind
    <3>8. CASE kind \in {"pin", "port"}  BY <3>4, <3>8
    <3>9. CASE kind \in {"buffer", "divider"} /\ n.node[b].legs # <<>>
      BY <3>2, <3>3, <3>4, <3>9
    <3>10. CASE kind \in {"gate", "latch"}
      <4>1. o = Combine(n, b, results)  BY <3>4, <3>10
      <4> QED  BY <3>5, <4>1
    <3>11. CASE kind = "mux"
      <4>1. o = Select(results)  BY <3>4, <3>11
      <4> QED  BY <3>6, <4>1
    <3>12. CASE /\ kind \notin {"pin", "port", "gate", "latch", "mux"}
                /\ ~(kind \in {"buffer", "divider"} /\ n.node[b].legs # <<>>)
      <4>1. o = Nothing  BY <3>4, <3>12
      <4> QED  BY <3>7, <4>1
    <3> QED  BY <3>8, <3>9, <3>10, <3>11, <3>12
  <2> HIDE DEF o, results, kind
  <2>6. o.root \in Root \cup {NoRoot}
    <3>1. CASE kind \in {"pin", "port"}  BY <2>1, <2>2, <3>1
    <3>2. CASE kind \in WalkedKinds
      <4>1. \A i \in DOMAIN results : results[i].root \in Root \cup {NoRoot}
        BY <2>3 DEF Outcome
      <4> QED  BY <2>1, <3>2, <4>1
    <3>3. CASE kind \notin WalkedKinds \cup {"pin", "port"}  BY <2>1, <3>3 DEF Nothing
    <3> QED  BY <3>1, <3>2, <3>3
  <2>7. o.declines \in SUBSET (Bit \X SUBSET Clock)
    <3>1. CASE kind \in {"pin", "port"}  BY <2>1, <3>1
    <3>2. CASE kind \in WalkedKinds
      <4>1. \A i \in DOMAIN results : results[i].declines \in SUBSET (Bit \X SUBSET Clock)
        BY <2>3 DEF Outcome
      <4>2. <<b, Met(n, results)>> \in Bit \X SUBSET Clock  BY <1>3, <2>4
      <4> QED  BY <2>1, <3>2, <4>1, <4>2
    <3>3. CASE kind \notin WalkedKinds \cup {"pin", "port"}  BY <2>1, <3>3 DEF Nothing
    <3> QED  BY <3>1, <3>2, <3>3
  <2>8. o \in Outcome  BY <2>5, <2>6, <2>7 DEF Outcome
  <2> QED  BY <2>8 DEF o
<1> QED  BY <1>2, <1>3 DEF Wire

(* g[d] is what all walks of d cells yield.                                *)
Walks(g, n, depth) ==
    /\ g \in [Nat -> Level]
    /\ \A b \in Wire, path \in SUBSET Bit :
          /\ g[0][b][path] = Nothing
          /\ \A d \in Nat : d < depth => g[d + 1][b][path] = Visit(n, g[d], b, path)

LEMMA TraceIterates ==
    ASSUME NEW n, IsNetwork(n), NEW depth \in Nat, NEW bit \in Wire,
           NEW g, Iterates(g, Bottom, Deeper(n), depth)
    PROVE  Trace(n, depth, bit) = g[depth][bit][{}]
<1> DEFINE level(below) == [b \in Wire |-> [path \in SUBSET Bit |-> Visit(n, below, b, path)]]
           trace[d \in 0..depth] ==
               [b \in Wire |-> [path \in SUBSET Bit |->
                   IF d = 0 THEN Nothing ELSE Visit(n, trace[d - 1], b, path)]]
<1>1. Trace(n, depth, bit) = trace[depth][bit][{}]  BY DEF Trace
<1>2. Deeper(n) \in [Level -> Level] /\ Bottom \in Level
  <2>1. \A below \in Level : level(below) \in Level
    BY VisitType DEF Level
  <2>2. Nothing \in Outcome  BY DEF Nothing, Outcome
  <2> QED  BY <2>1, <2>2 DEF Deeper, Bottom, Level
<1>3. PICK f \in [Nat -> Level] : Iterates(f, Bottom, Deeper(n), depth)
  BY <1>2, IterationExists
<1>4. \A d \in 0..depth : d # 0 => f[d] = level(f[d - 1])
  <2> SUFFICES ASSUME NEW d \in 0..depth, d # 0 PROVE f[d] = level(f[d - 1])
    OBVIOUS
  <2>1. d - 1 \in Nat /\ d - 1 < depth /\ (d - 1) + 1 = d  OBVIOUS
  <2>2. f[d] = Deeper(n)[f[d - 1]] /\ f[d - 1] \in Level  BY <1>3, <2>1 DEF Iterates
  <2> QED  BY <2>2 DEF Deeper
<1>5. f[0] = Bottom  BY <1>3 DEF Iterates
<1> DEFINE body(h) ==
        [d \in 0..depth |-> [b \in Wire |-> [path \in SUBSET Bit |->
                   IF d = 0 THEN Nothing ELSE Visit(n, h[d - 1], b, path)]]]
           F == [d \in 0..depth |-> f[d]]
<1>6. F = body(F)
  <2> SUFFICES ASSUME NEW d \in 0..depth
               PROVE  f[d] = [b \in Wire |-> [path \in SUBSET Bit |->
                   IF d = 0 THEN Nothing ELSE Visit(n, F[d - 1], b, path)]]
    BY Zenon
  <2>1. CASE d = 0  BY <1>5, <2>1 DEF Bottom
  <2>2. CASE d # 0
    <3>1. F[d - 1] = f[d - 1]  BY <2>2
    <3>2. f[d] = level(f[d - 1])  BY <1>4, <2>2
    <3> HIDE DEF F
    <3> QED  BY <2>2, <3>1, <3>2
  <2> QED  BY <2>1, <2>2
<1>7. trace = body(trace)  BY <1>6, Zenon
<1> HIDE DEF trace, F
<1>8. \A d \in 0..depth : trace[d] = f[d]
  <2> DEFINE bad == {d \in 0..depth : trace[d] # f[d]}
  <2> SUFFICES ASSUME bad # {} PROVE FALSE
    OBVIOUS
  <2>1. PICK d \in bad : \A i \in bad : d <= i
    <3>1. bad \in SUBSET Nat  OBVIOUS
    <3> QED  BY <3>1, LeastNat
  <2>2. trace[d] = [b \in Wire |-> [path \in SUBSET Bit |->
                   IF d = 0 THEN Nothing ELSE Visit(n, trace[d - 1], b, path)]]
    BY <1>7
  <2>3. CASE d = 0
    <3>1. trace[d] = Bottom  BY <2>2, <2>3 DEF Bottom
    <3> QED  BY <1>5, <2>3, <3>1
  <2>4. CASE d # 0
    <3>1. d - 1 \in 0..depth /\ ~(d <= d - 1)  BY <2>4
    <3>2. trace[d - 1] = f[d - 1]  BY <2>1, <3>1
    <3>3. trace[d] = level(trace[d - 1])  BY <2>2, <2>4
    <3> QED  BY <1>4, <2>4, <3>2, <3>3
  <2> QED  BY <2>3, <2>4
<1>9. f[depth] = g[depth]  BY <1>3, IterationUnique
<1> QED  BY <1>1, <1>8, <1>9

LEMMA WalksExist ==
    ASSUME NEW n, IsNetwork(n), NEW depth \in Nat
    PROVE  \E g : /\ Walks(g, n, depth)
                  /\ \A d \in 0..depth, bit \in Wire : Trace(n, d, bit) = g[d][bit][{}]
<1>1. Deeper(n) \in [Level -> Level] /\ Bottom \in Level
  <2>1. \A below \in Level :
           [b \in Wire |-> [path \in SUBSET Bit |-> Visit(n, below, b, path)]] \in Level
    BY VisitType DEF Level
  <2>2. Nothing \in Outcome  BY DEF Nothing, Outcome
  <2> QED  BY <2>1, <2>2 DEF Deeper, Bottom, Level
<1>2. PICK g \in [Nat -> Level] : Iterates(g, Bottom, Deeper(n), depth)
  BY <1>1, IterationExists
<1>3. ASSUME NEW d \in 0..depth, NEW bit \in Wire PROVE Trace(n, d, bit) = g[d][bit][{}]
  <2>1. Iterates(g, Bottom, Deeper(n), d)  BY <1>2 DEF Iterates
  <2> QED  BY <2>1, TraceIterates
<1>4. Walks(g, n, depth)
  <2>1. ASSUME NEW b \in Wire, NEW path \in SUBSET Bit PROVE g[0][b][path] = Nothing
    <3>1. g[0] = Bottom  BY <1>2 DEF Iterates
    <3> QED  BY <3>1 DEF Bottom
  <2>2. ASSUME NEW b \in Wire, NEW path \in SUBSET Bit, NEW d \in Nat, d < depth
        PROVE  g[d + 1][b][path] = Visit(n, g[d], b, path)
    <3>1. g[d + 1] = Deeper(n)[g[d]]  BY <1>2, <2>2 DEF Iterates
    <3>2. g[d] \in Level  OBVIOUS
    <3>3. g[d + 1] = [x \in Wire |-> [p \in SUBSET Bit |-> Visit(n, g[d], x, p)]]
      BY <3>1, <3>2 DEF Deeper
    <3> QED  BY <3>3
  <2> QED  BY <2>1, <2>2 DEF Walks
<1> QED  BY <1>3, <1>4
------------------------------------------------------------------------------
(* What a walk says is so.                                                 *)

Sources(n, b, d) ==
    IF d = 0 THEN {}
    ELSE {x \in Within(LegStep(n), {b} \cap Bit, d - 1) : n.node[x].kind \in {"pin", "port"}}

(* The root is one that reaches b, and a decline is of clocks that do.     *)
Justified(n, b, d, o) ==
    /\ o.root # NoRoot => \E x \in Sources(n, b, d) : n.node[x].name = o.root
    /\ \A c \in o.declines :
          /\ Cardinality(c[2]) >= 2
          /\ \A k \in c[2] : \E x \in Sources(n, b, d) :
                k = n.identity[n.node[x].name] /\ k # NoClock

(* The steps that stay out of a path.                                      *)
Around(next, path) == [x \in DOMAIN next |-> next[x] \ path]

LEMMA LegStepType ==
    ASSUME NEW n, IsNetwork(n)
    PROVE  /\ LegStep(n) \in [Bit -> SUBSET Bit]
           /\ \A b \in Bit : \A i \in DOMAIN n.node[b].legs :
                 n.node[b].kind \in WalkedKinds /\ n.node[b].legs[i] \in Bit =>
                     n.node[b].legs[i] \in LegStep(n)[b]
  BY DEF LegStep, Range

LEMMA LegReach ==
    ASSUME NEW n, IsNetwork(n), NEW b \in Bit, NEW d \in Nat, n.node[b].kind \in WalkedKinds,
           NEW i \in DOMAIN n.node[b].legs, n.node[b].legs[i] \in Wire
    PROVE  Sources(n, n.node[b].legs[i], d) \subseteq Sources(n, b, d + 1)
<1> DEFINE z == n.node[b].legs[i]
<1>1. CASE d = 0  BY <1>1 DEF Sources
<1>2. CASE d # 0
  <2>1. PICK e \in Nat : d = e + 1
    <3>1. d - 1 \in Nat /\ d = (d - 1) + 1  BY <1>2
    <3> QED  BY <3>1
  <2>2. d - 1 = e /\ (d + 1) - 1 = e + 1 /\ d + 1 # 0  BY <2>1
  <2>3. Within(LegStep(n), {z} \cap Bit, e) \subseteq Within(LegStep(n), {b} \cap Bit, e + 1)
    <3>1. {b} \cap Bit = {b} /\ {b} \in SUBSET Bit /\ {} \in SUBSET Bit  OBVIOUS
    <3>2. CASE z \in Bit
      <4>1. z \in LegStep(n)[b]  BY <3>2, LegStepType
      <4>2. {z} \cap Bit = {z}  BY <3>2
      <4> HIDE DEF z
      <4>3. Within(LegStep(n), {z}, e) \subseteq Within(LegStep(n), {b}, e + 1)
        BY <4>1, LegStepType, WithinPrepend
      <4> QED  BY <3>1, <4>2, <4>3
    <3>3. CASE z \notin Bit
      <4>1. {z} \cap Bit = {}  BY <3>3
      <4>2. Within(LegStep(n), {}, e) \subseteq Within(LegStep(n), {b}, e)
        BY <3>1, LegStepType, WithinMore
      <4>3. e + 1 \in Nat /\ e <= e + 1  OBVIOUS
      <4>4. Within(LegStep(n), {b}, e) \subseteq Within(LegStep(n), {b}, e + 1)
        BY <3>1, <4>3, LegStepType, WithinGrows
      <4> QED  BY <3>1, <4>1, <4>2, <4>4
    <3> QED  BY <3>2, <3>3
  <2> QED  BY <1>2, <2>2, <2>3 DEF Sources
<1> QED  BY <1>1, <1>2

LEMMA SourceHere ==
    ASSUME NEW n, IsNetwork(n), NEW b \in Bit, NEW d \in Nat, n.node[b].kind \in {"pin", "port"}
    PROVE  b \in Sources(n, b, d + 1)
<1>1. {b} \cap Bit = {b} /\ {b} \in SUBSET Bit /\ (d + 1) - 1 = d /\ d + 1 # 0
      /\ 0 \in Nat /\ 0 <= d
  OBVIOUS
<1>2. Within(LegStep(n), {b}, 0) = {b}  BY <1>1, LegStepType, WithinSteps
<1>3. Within(LegStep(n), {b}, 0) \subseteq Within(LegStep(n), {b}, d)
  BY <1>1, LegStepType, WithinGrows
<1> QED  BY <1>1, <1>2, <1>3 DEF Sources

LEMMA WalkJustified ==
    ASSUME NEW n, IsNetwork(n), NEW depth \in Nat, NEW g, Walks(g, n, depth),
           NEW d \in 0..depth, NEW b \in Wire, NEW path \in SUBSET Bit
    PROVE  Justified(n, b, d, g[d][b][path])
<1> DEFINE bad == {m \in 0..depth : \E x \in Wire, p \in SUBSET Bit : ~Justified(n, x, m, g[m][x][p])}
<1> SUFFICES ASSUME bad # {} PROVE FALSE
  OBVIOUS
<1>1. PICK m \in bad : \A i \in bad : m <= i
  <2>1. bad \in SUBSET Nat  OBVIOUS
  <2> QED  BY <2>1, LeastNat
<1>2. PICK x \in Wire, p \in SUBSET Bit : ~Justified(n, x, m, g[m][x][p])  BY <1>1
<1>3. m # 0
  <2>1. g[0][x][p] = Nothing  BY DEF Walks
  <2>2. Justified(n, x, 0, Nothing)  BY DEF Justified, Nothing
  <2> QED  BY <1>2, <2>1, <2>2
<1>4. PICK e \in Nat : m = e + 1 /\ e < depth /\ e \in 0..depth /\ e \notin bad
  <2>1. m - 1 \in Nat /\ m = (m - 1) + 1 /\ m - 1 < depth /\ m - 1 \in 0..depth /\ ~(m <= m - 1)
    BY <1>3
  <2> QED  BY <1>1, <2>1
<1>5. \A y \in Wire, q \in SUBSET Bit : Justified(n, y, e, g[e][y][q])  BY <1>4
<1>6. g[e] \in Level  BY <1>4 DEF Walks
<1>7. g[m][x][p] = Visit(n, g[e], x, p)  BY <1>4 DEF Walks
<1>8. CASE x = Const \/ x \in p
  <2>1. Visit(n, g[e], x, p) = Nothing  BY <1>8 DEF Visit
  <2>2. Justified(n, x, m, Nothing)  BY DEF Justified, Nothing
  <2> QED  BY <1>2, <1>7, <2>1, <2>2
<1>9. CASE x \in Bit /\ x \notin p
  <2> DEFINE o == Visit(n, g[e], x, p)
             results == Legs(n, g[e], x, p)
             kind == n.node[x].kind
  <2>1. /\ kind \in {"pin", "port"} => o = [root |-> n.node[x].name, declines |-> {}]
        /\ kind \notin WalkedKinds \cup {"pin", "port"} => o = Nothing
        /\ kind \in WalkedKinds =>
              /\ o.root # NoRoot => \E i \in DOMAIN results : o.root = results[i].root
              /\ \A c \in o.declines :
                    \/ \E i \in DOMAIN results : c \in results[i].declines
                    \/ /\ c = <<x, Met(n, results)>>
                       /\ Cardinality(Met(n, results)) >= 2
    BY <1>6, <1>9, VisitFrom
  <2>2. \A i \in DOMAIN results : /\ n.node[x].legs[i] \in Wire
                                  /\ results[i] = g[e][n.node[x].legs[i]][p \cup {x}]
    <3>1. \A i \in DOMAIN results : n.node[x].legs[i] \in Wire  BY <1>6, <1>9, LegFacts
    <3>2. \A i \in DOMAIN results : results[i] = g[e][n.node[x].legs[i]][p \cup {x}]
      BY DEF Legs
    <3> QED  BY <3>1, <3>2
  <2>3. DOMAIN results = DOMAIN n.node[x].legs  BY DEF Legs
  <2>4. p \cup {x} \in SUBSET Bit  BY <1>9
  <2>5. \A i \in DOMAIN results : Justified(n, n.node[x].legs[i], e, results[i])
    BY <1>5, <2>2, <2>4
  <2>6. kind \in WalkedKinds =>
           \A i \in DOMAIN results : Sources(n, n.node[x].legs[i], e) \subseteq Sources(n, x, m)
    BY <1>4, <1>9, <2>2, <2>3, LegReach
  <2>7. ~Justified(n, x, m, o)  BY <1>2, <1>7
  <2> HIDE DEF o, results
  <2>8. CASE kind \in {"pin", "port"}
    <3>1. x \in Sources(n, x, m)  BY <1>4, <1>9, <2>8, SourceHere
    <3>2. o.root = n.node[x].name /\ o.declines = {}  BY <2>1, <2>8
    <3> QED  BY <2>7, <3>1, <3>2 DEF Justified
  <2>9. CASE kind \in WalkedKinds
    <3>1. o.root # NoRoot => \E s \in Sources(n, x, m) : n.node[s].name = o.root
      <4> SUFFICES ASSUME o.root # NoRoot
                   PROVE  \E s \in Sources(n, x, m) : n.node[s].name = o.root
        OBVIOUS
      <4>1. PICK i \in DOMAIN results : o.root = results[i].root  BY <2>1, <2>9
      <4>2. \E s \in Sources(n, n.node[x].legs[i], e) : n.node[s].name = results[i].root
        BY <2>5, <4>1 DEF Justified
      <4> QED  BY <2>6, <2>9, <4>1, <4>2
    <3>2. ASSUME NEW c \in o.declines
          PROVE  /\ Cardinality(c[2]) >= 2
                 /\ \A k \in c[2] : \E s \in Sources(n, x, m) :
                       k = n.identity[n.node[s].name] /\ k # NoClock
      <4>1. CASE \E i \in DOMAIN results : c \in results[i].declines
        <5>1. PICK i \in DOMAIN results : c \in results[i].declines  BY <4>1
        <5>2. /\ Cardinality(c[2]) >= 2
              /\ \A k \in c[2] : \E s \in Sources(n, n.node[x].legs[i], e) :
                    k = n.identity[n.node[s].name] /\ k # NoClock
          BY <2>5, <5>1 DEF Justified
        <5> QED  BY <2>6, <2>9, <5>2
      <4>2. CASE c = <<x, Met(n, results)>> /\ Cardinality(Met(n, results)) >= 2
        <5>1. c[2] = Met(n, results)  BY <4>2
        <5>2. ASSUME NEW k \in Met(n, results)
              PROVE  \E s \in Sources(n, x, m) : k = n.identity[n.node[s].name] /\ k # NoClock
          <6>1. PICK i \in DOMAIN results : /\ results[i].root # NoRoot
                                           /\ k = n.identity[results[i].root] /\ k # NoClock
            BY <5>2 DEF Met, DeclaredLegs, Resolved
          <6>2. \E s \in Sources(n, n.node[x].legs[i], e) : n.node[s].name = results[i].root
            BY <2>5, <6>1 DEF Justified
          <6> QED  BY <2>6, <2>9, <6>1, <6>2
        <5> QED  BY <4>2, <5>1, <5>2
      <4> QED  BY <2>1, <2>9, <4>1, <4>2
    <3> QED  BY <2>7, <3>1, <3>2 DEF Justified
  <2>10. CASE kind \notin WalkedKinds \cup {"pin", "port"}
    <3>1. Justified(n, x, m, Nothing)  BY DEF Justified, Nothing
    <3> QED  BY <2>1, <2>7, <2>10, <3>1
  <2> QED  BY <2>8, <2>9, <2>10
<1> QED  BY <1>8, <1>9 DEF Wire

LEMMA VisitSource ==
    ASSUME NEW n, IsNetwork(n), NEW below \in Level, NEW b \in Bit, NEW path \in SUBSET Bit,
           b \notin path, n.node[b].kind \in {"pin", "port"}
    PROVE  Visit(n, below, b, path) = [root |-> n.node[b].name, declines |-> {}]
  BY VisitFrom

(* t is m steps or fewer from b, none of them into p.                      *)
Leads(next, p, b, t, m) == t \in Within(Around(next, p), {b}, m)
IsStep(next) == next \in [Bit -> SUBSET Bit]
Passed(p, b) == p \cup {b}

LEMMA AroundAvoids ==
    ASSUME NEW next, IsStep(next), NEW p \in SUBSET Bit, NEW y \in Bit,
           NEW e \in Nat, NEW m \in Nat, m <= e + 1, NEW t, Leads(next, p, y, t, m), t # y
    PROVE  \E z \in next[y] : z \notin Passed(p, y) /\ Leads(next, Passed(p, y), z, t, e)
<1> DEFINE q == Passed(p, y)
           out == Around(next, p)
           off == Around(next, q)
<1>0. next \in [Bit -> SUBSET Bit]  BY DEF IsStep
<1>1. out \in [Bit -> SUBSET Bit] /\ off \in [Bit -> SUBSET Bit]  BY <1>0 DEF Around
<1>2. out[y] = next[y] \ p  BY <1>0 DEF Around
<1>3. Spares(off, out, y)  BY <1>0 DEF Around, Spares, Passed
<1>4. t \in Within(out, {y}, m)  BY DEF Leads
<1> HIDE DEF out, off
<1>5. \E z \in out[y] : z # y /\ t \in Within(off, {z}, e)
  BY <1>1, <1>3, <1>4, WithinAvoids
<1>6. \E z \in next[y] : z \notin q /\ t \in Within(off, {z}, e)  BY <1>2, <1>5 DEF Passed
<1> QED  BY <1>6 DEF off, Leads

(* A walk that declines nothing, over a cone with no mux, to a source.     *)
CleanWalk(n, next, g, d, b, path, s) ==
    /\ b \notin path /\ g[d + 1][b][path].declines = {}
    /\ \A x \in Within(Around(next, path), {b}, d) : n.node[x].kind # "mux"
    /\ s \in Within(Around(next, path), {b}, d)
    /\ n.node[s].kind \in {"pin", "port"}

(* The source is found.                                                    *)
Finds(n, g, d, b, path, s) ==
    /\ g[d + 1][b][path].root # NoRoot
    /\ n.identity[n.node[s].name] # NoClock =>
          n.identity[g[d + 1][b][path].root] = n.identity[n.node[s].name]

(* What is there, a walk that declines nothing finds.                      *)
LEMMA WalkComplete ==
    ASSUME NEW n, IsNetwork(n), NEW depth \in Nat, NEW g, Walks(g, n, depth),
           NEW d \in Nat, d < depth, NEW b \in Bit, NEW path \in SUBSET Bit, NEW s \in Bit,
           CleanWalk(n, LegStep(n), g, d, b, path, s)
    PROVE  Finds(n, g, d, b, path, s)
<1> DEFINE next == LegStep(n)
           hyp(m, y, p, t) == CleanWalk(n, next, g, m, y, p, t)
           good(m, y, p, t) == Finds(n, g, m, y, p, t)
           bad == {m \in 0..(depth - 1) :
                     \E y \in Bit, p \in SUBSET Bit, t \in Bit : hyp(m, y, p, t) /\ ~good(m, y, p, t)}
<1>0. next \in [Bit -> SUBSET Bit] /\ DOMAIN next = Bit
      /\ \A p \in SUBSET Bit : Around(next, p) \in [Bit -> SUBSET Bit]
  BY LegStepType DEF Around
<1> HIDE DEF next
<1>3. SUFFICES ASSUME bad # {} PROVE FALSE
  <2>1. d \in 0..(depth - 1)  OBVIOUS
  <2>2. hyp(d, b, path, s)  BY DEF next
  <2> QED  BY <1>3, <2>1, <2>2
<1> USE DEF CleanWalk, Finds
<1>4. PICK m \in Nat : m \in bad /\ \A i \in bad : m <= i
  <2>1. bad \in SUBSET Nat  OBVIOUS
  <2> HIDE DEF bad
  <2> QED  BY <1>3, <2>1, LeastNat
<1>5. PICK y \in Bit, p \in SUBSET Bit, t \in Bit : hyp(m, y, p, t) /\ ~good(m, y, p, t)
  BY <1>4
<1>6. m \in Nat /\ m < depth
  <2>1. m \in 0..(depth - 1)  BY <1>4
  <2> HIDE DEF bad
  <2> QED  BY <2>1
<1>7. g[m] \in Level  BY <1>6 DEF Walks
<1>8. g[m + 1][y][p] = Visit(n, g[m], y, p)
  <2>1. y \in Wire  BY DEF Wire
  <2> HIDE DEF hyp, good, bad
  <2> QED  BY <1>6, <2>1 DEF Walks
<1> DEFINE o == Visit(n, g[m], y, p)
           results == Legs(n, g[m], y, p)
           kind == n.node[y].kind
<1>9. CASE t = y
  <2>1. kind \in {"pin", "port"}  BY <1>5, <1>9
  <2>2. o = [root |-> n.node[y].name, declines |-> {}]
    <3>1. y \notin p  BY <1>5
    <3> HIDE DEF hyp, good, bad
    <3> QED  BY <1>7, <2>1, <3>1, VisitSource
  <2>3. n.node[y].name \in Root  BY <2>1 DEF IsNetwork
  <2>4. o.root = n.node[y].name /\ o.root # NoRoot  BY <2>2, <2>3, TraceAssumption
  <2> QED  BY <1>5, <1>8, <1>9, <2>4
<1>10. CASE t # y
  <2>0. {y} \in SUBSET Bit /\ Around(next, p) \in [Bit -> SUBSET Bit]  BY <1>0
  <2>1. m # 0
    <3>1. Within(Around(next, p), {y}, 0) = {y}  BY <2>0, WithinSteps
    <3> QED  BY <1>5, <1>10, <3>1
  <2>2. PICK e \in Nat : m = e + 1 /\ e \in 0..(depth - 1) /\ e \notin bad
    <3>1. m - 1 \in Nat /\ m = (m - 1) + 1 /\ m - 1 \in 0..(depth - 1) /\ ~(m <= m - 1)
      BY <1>6, <2>1
    <3> HIDE DEF bad
    <3> QED  BY <1>4, <3>1
  <2>3. t \in Within(Around(next, p), {y}, e + 1)
    <3>1. t \in Within(Around(next, p), {y}, m)  BY <1>5
    <3> HIDE DEF bad, hyp, good
    <3> QED  BY <2>2, <3>1
  <2>4. PICK z \in next[y] : z \notin p \cup {y} /\ t \in Within(Around(next, p \cup {y}), {z}, e)
    <3>1. e \in Nat /\ m \in Nat /\ m <= e + 1
      <4> HIDE DEF bad, hyp, good
      <4> QED  BY <1>6, <2>2
    <3>2. Leads(next, p, y, t, m) /\ t # y /\ IsStep(next)
      BY <1>0, <1>5, <1>10 DEF Leads, IsStep
    <3> HIDE DEF hyp, good, bad, o, results, kind, CleanWalk, Finds
    <3>3. \E z \in next[y] : z \notin Passed(p, y) /\ Leads(next, Passed(p, y), z, t, e)
      BY <3>1, <3>2, AroundAvoids
    <3> QED  BY <3>3 DEF Leads, Passed
  <2>5. z \in Bit  BY <1>0, <2>4
  <2>6. PICK i \in DOMAIN n.node[y].legs : kind \in WalkedKinds /\ n.node[y].legs[i] = z
    BY <2>4 DEF next, LegStep, Range
  <2>7. p \cup {y} \in SUBSET Bit  OBVIOUS
  <2>8. i \in DOMAIN results /\ results[i] = g[m][z][p \cup {y}]
    BY <2>6 DEF Legs
  <2>9. y \in Within(Around(next, p), {y}, m)
    <3>1. Within(Around(next, p), {y}, 0) = {y}  BY <2>0, WithinSteps
    <3>2. 0 \in Nat /\ 0 <= m  BY <1>6
    <3>3. Within(Around(next, p), {y}, 0) \subseteq Within(Around(next, p), {y}, m)
      BY <1>6, <2>0, <3>2, WithinGrows
    <3> QED  BY <3>1, <3>3
  <2>10. kind # "mux"  BY <1>5, <2>9
  <2>11. /\ results[i].declines = {}
         /\ o.root = NoRoot => results[i].root = NoRoot
         /\ results[i].root # NoRoot /\ n.identity[results[i].root] # NoClock =>
               n.identity[o.root] = n.identity[results[i].root]
    <3>1. y \notin p /\ Visit(n, g[m], y, p).declines = {}  BY <1>5, <1>8
    <3>2. /\ o.root = NoRoot =>
                \A j \in DOMAIN results : results[j].declines = {} /\ results[j].root = NoRoot
          /\ kind # "mux" =>
                \A j \in DOMAIN results :
                    /\ results[j].declines = {}
                    /\ /\ results[j].root # NoRoot
                       /\ n.identity[results[j].root] # NoClock
                       => n.identity[o.root] = n.identity[results[j].root]
      BY <1>7, <2>6, <3>1, VisitKeeps
    <3> QED  BY <2>8, <2>10, <3>2
  <2>12. Within(Around(next, p \cup {y}), {z}, e) \subseteq Within(Around(next, p), {y}, m)
    <3>1. /\ Around(next, p \cup {y}) \in [Bit -> SUBSET Bit] /\ {z} \in SUBSET Bit
          /\ \A x \in Bit : Around(next, p \cup {y})[x] \subseteq Around(next, p)[x]
      BY <1>0, <2>5, <2>7 DEF Around
    <3>2. Within(Around(next, p \cup {y}), {z}, e) \subseteq Within(Around(next, p), {z}, e)
      <4> DEFINE out == Around(next, p)
                 off == Around(next, p \cup {y})
      <4>1. /\ out \in [Bit -> SUBSET Bit] /\ off \in [Bit -> SUBSET Bit]
            /\ \A x \in Bit : off[x] \subseteq out[x]
        BY <2>0, <3>1
      <4> HIDE DEF out, off, hyp, good, bad
      <4>2. Within(off, {z}, e) \subseteq Within(out, {z}, e)  BY <3>1, <4>1, WithinWider
      <4> QED  BY <4>2 DEF out, off
    <3>3. z \in Around(next, p)[y]  BY <1>0, <2>4 DEF Around
    <3>4. Within(Around(next, p), {z}, e) \subseteq Within(Around(next, p), {y}, e + 1)
      BY <2>0, <3>3, WithinPrepend
    <3> QED  BY <2>2, <3>2, <3>4
  <2>13. hyp(e, z, p \cup {y}, t)
    <3>1. z \notin p \cup {y}  BY <2>4
    <3>2. g[e + 1][z][p \cup {y}].declines = {}  BY <2>2, <2>8, <2>11
    <3>3. \A x \in Within(Around(next, p \cup {y}), {z}, e) : n.node[x].kind # "mux"
      BY <1>5, <2>12
    <3>4. n.node[t].kind \in {"pin", "port"}  BY <1>5
    <3> QED  BY <2>4, <3>1, <3>2, <3>3, <3>4
  <2>14. good(e, z, p \cup {y}, t)
    <3> HIDE DEF hyp, good
    <3> QED  BY <2>2, <2>5, <2>7, <2>13
  <2>15. /\ results[i].root # NoRoot
         /\ n.identity[n.node[t].name] # NoClock =>
               n.identity[results[i].root] = n.identity[n.node[t].name]
    BY <2>2, <2>8, <2>14
  <2>16. ~good(m, y, p, t)  BY <1>5
  <2>17. o.root # NoRoot  BY <2>11, <2>15
  <2>18. n.identity[n.node[t].name] # NoClock =>
            n.identity[o.root] = n.identity[n.node[t].name]
    BY <2>11, <2>15
  <2> QED  BY <1>8, <2>16, <2>17, <2>18
<1> QED  BY <1>9, <1>10

(* A deeper walk that declines nothing resolves what a shallower one did.  *)
LEMMA DeeperResolves ==
    ASSUME NEW n, IsNetwork(n), NEW depth \in Nat, NEW g, Walks(g, n, depth),
           NEW d \in Nat, NEW e \in Nat, d <= e, e <= depth,
           NEW b \in Wire, NEW path \in SUBSET Bit,
           g[d][b][path].root # NoRoot, g[e][b][path].declines = {}
    PROVE  g[e][b][path].root # NoRoot
<1> DEFINE loses(i, j, x, p) ==
               /\ i <= j /\ j <= depth
               /\ g[i][x][p].root # NoRoot /\ g[j][x][p].declines = {}
               /\ g[j][x][p].root = NoRoot
           bad == {i \in Nat : \E j \in Nat, x \in Wire, p \in SUBSET Bit : loses(i, j, x, p)}
<1> SUFFICES ASSUME bad # {} PROVE FALSE
  OBVIOUS
<1>1. PICK i \in Nat : i \in bad /\ \A h \in bad : i <= h
  <2>1. bad \in SUBSET Nat  OBVIOUS
  <2> HIDE DEF bad
  <2> QED  BY <2>1, LeastNat
<1>2. PICK j \in Nat, x \in Wire, p \in SUBSET Bit : loses(i, j, x, p)  BY <1>1
<1>3. i # 0
  <2>1. g[0][x][p].root = NoRoot  BY DEF Walks, Nothing
  <2> QED  BY <1>2, <2>1
<1>4. PICK k \in Nat, l \in Nat : i = k + 1 /\ j = l + 1 /\ k <= l /\ l < depth /\ k < depth /\ k \notin bad
  <2>1. /\ i - 1 \in Nat /\ j - 1 \in Nat /\ i = (i - 1) + 1 /\ j = (j - 1) + 1
        /\ i - 1 <= j - 1 /\ j - 1 < depth /\ i - 1 < depth /\ ~(i <= i - 1)
    BY <1>2, <1>3
  <2> HIDE DEF bad
  <2> QED  BY <1>1, <2>1
<1>5. g[k] \in Level /\ g[l] \in Level  BY DEF Walks
<1>6. g[i][x][p] = Visit(n, g[k], x, p) /\ g[j][x][p] = Visit(n, g[l], x, p)
  <2> HIDE DEF bad, loses
  <2>1. g[k + 1][x][p] = Visit(n, g[k], x, p)  BY <1>4 DEF Walks
  <2>2. g[l + 1][x][p] = Visit(n, g[l], x, p)  BY <1>4 DEF Walks
  <2> QED  BY <1>4, <2>1, <2>2
<1>7. x \in Bit /\ x \notin p
  <2>1. SUFFICES ASSUME x = Const \/ x \in p PROVE FALSE
    BY DEF Wire
  <2>2. Visit(n, g[k], x, p) = Nothing  BY <2>1 DEF Visit
  <2> QED  BY <1>2, <1>6, <2>2 DEF Nothing
<1> DEFINE shallow == Legs(n, g[k], x, p)
           deep == Legs(n, g[l], x, p)
           kind == n.node[x].kind
<1>8. /\ kind \in {"pin", "port"} =>
            Visit(n, g[k], x, p) = [root |-> n.node[x].name, declines |-> {}]
      /\ kind \notin WalkedKinds \cup {"pin", "port"} => Visit(n, g[k], x, p) = Nothing
      /\ kind \in WalkedKinds => (Visit(n, g[k], x, p).root # NoRoot =>
            \E a \in DOMAIN shallow : Visit(n, g[k], x, p).root = shallow[a].root)
  <2> HIDE DEF loses, bad
  <2>1. /\ kind \in {"pin", "port"} =>
              Visit(n, g[k], x, p) = [root |-> n.node[x].name, declines |-> {}]
        /\ kind \notin WalkedKinds \cup {"pin", "port"} => Visit(n, g[k], x, p) = Nothing
        /\ kind \in WalkedKinds =>
              /\ Visit(n, g[k], x, p).root # NoRoot =>
                    \E a \in DOMAIN shallow : Visit(n, g[k], x, p).root = shallow[a].root
              /\ \A c \in Visit(n, g[k], x, p).declines :
                    \/ \E a \in DOMAIN shallow : c \in shallow[a].declines
                    \/ /\ c = <<x, Met(n, shallow)>>
                       /\ Cardinality(Met(n, shallow)) >= 2
    BY <1>5, <1>7, VisitFrom
  <2> QED  BY <2>1
<1>9. CASE kind \in {"pin", "port"}
  <2>1. Visit(n, g[l], x, p) = [root |-> n.node[x].name, declines |-> {}]
    <3> HIDE DEF loses, bad
    <3>1. n.node[x].kind \in {"pin", "port"}  BY <1>9
    <3> QED  BY <1>5, <1>7, <3>1, VisitSource
  <2>2. Visit(n, g[k], x, p).root = Visit(n, g[l], x, p).root  BY <1>8, <1>9, <2>1
  <2> QED  BY <1>2, <1>6, <2>2
<1>10. CASE kind \in WalkedKinds
  <2>1. PICK a \in DOMAIN shallow : shallow[a].root # NoRoot
    BY <1>2, <1>6, <1>8, <1>10
  <2>2. a \in DOMAIN deep /\ DOMAIN shallow = DOMAIN n.node[x].legs  BY <2>1 DEF Legs
  <2>3. deep[a].declines = {} /\ deep[a].root = NoRoot
    <3>1. Visit(n, g[l], x, p).declines = {} /\ Visit(n, g[l], x, p).root = NoRoot
      BY <1>2, <1>6
    <3>2. Visit(n, g[l], x, p).root = NoRoot =>
             \A c \in DOMAIN deep : deep[c].declines = {} /\ deep[c].root = NoRoot
      BY <1>5, <1>7, <1>10, <3>1, VisitKeeps
    <3> QED  BY <2>2, <3>1, <3>2
  <2> DEFINE z == n.node[x].legs[a]
             q == p \cup {x}
  <2>4. z \in Wire /\ q \in SUBSET Bit  BY <1>5, <1>7, <2>1, LegFacts
  <2>5. shallow[a] = g[k][z][q] /\ deep[a] = g[l][z][q]  BY <2>1, <2>2 DEF Legs
  <2> HIDE DEF z, q, shallow, deep
  <2>6. loses(k, l, z, q)  BY <1>4, <2>1, <2>3, <2>5
  <2> QED  BY <1>4, <2>4, <2>6
<1>11. CASE kind \notin WalkedKinds \cup {"pin", "port"}
  <2>1. Visit(n, g[k], x, p).root = NoRoot  BY <1>8, <1>11 DEF Nothing
  <2> QED  BY <1>2, <1>6, <2>1
<1> QED  BY <1>9, <1>10, <1>11
------------------------------------------------------------------------------
(* The run: what is recorded of a flop is what its walk yields.            *)

Walk(f) == Trace(net, budget, net.clk[f])

Unrecorded(f) == domain[f] = NoRoot /\ DeclinedFor(f) = {}

Recorded(f) ==
    /\ domain[f] = Walk(f).root
    /\ \A c \in DeclinedFor(f) : \E d \in Walk(f).declines : c = <<d[1], d[2], f>>
    /\ \A d \in Walk(f).declines : <<d[1], d[2], f>> \in DeclinedFor(f)

TraceInv ==
    /\ net \in Network /\ budget \in Budget
    /\ untraced \in SUBSET Flop
    /\ domain \in [Flop -> Root \cup {NoRoot}]
    /\ \A f \in Flop : IF f \in untraced THEN Unrecorded(f) ELSE Recorded(f)

LEMMA WalkType ==
    ASSUME NEW n, IsNetwork(n), NEW depth \in Nat, NEW bit \in Wire
    PROVE  Trace(n, depth, bit) \in Outcome
<1>1. PICK g : Walks(g, n, depth) /\ \A d \in 0..depth, x \in Wire : Trace(n, d, x) = g[d][x][{}]
  BY WalksExist
<1>2. Trace(n, depth, bit) = g[depth][bit][{}]  BY <1>1
<1>3. g[depth] \in Level /\ {} \in SUBSET Bit  BY <1>1 DEF Walks
<1>4. g[depth][bit][{}] \in Outcome  BY <1>3 DEF Level
<1> QED  BY <1>2, <1>4

LEMMA TraceInvInit == Init => TraceInv
  BY DEF Init, TraceInv, Unrecorded, DeclinedFor

LEMMA TraceInvStep == TraceInv /\ [Next]_vars => TraceInv'
<1> SUFFICES ASSUME TraceInv, [Next]_vars PROVE TraceInv'
  OBVIOUS
<1>1. ASSUME NEW f \in Flop, TraceFlop(f) PROVE TraceInv'
  <2> DEFINE walk == Trace(net, budget, net.clk[f])
  <2>1. /\ f \in untraced /\ untraced' = untraced \ {f}
        /\ domain' = [domain EXCEPT ![f] = walk.root]
        /\ combines' = combines \cup {<<d[1], d[2], f>> : d \in walk.declines}
        /\ net' = net /\ budget' = budget
    BY <1>1 DEF TraceFlop
  <2>2. IsNetwork(net) /\ budget \in Nat /\ net.clk[f] \in Wire
    BY NetworkAssumption, TraceAssumption DEF TraceInv, IsNetwork
  <2>3. walk \in Outcome  BY <2>2, WalkType
  <2>4. walk.root \in Root \cup {NoRoot}  BY <2>3 DEF Outcome
  <2> HIDE DEF walk
  <2>5. domain' \in [Flop -> Root \cup {NoRoot}]  BY <2>1, <2>4 DEF TraceInv
  <2>6. ASSUME NEW h \in Flop, h # f
        PROVE  /\ domain'[h] = domain[h] /\ (h \in untraced' <=> h \in untraced)
               /\ DeclinedFor(h)' = DeclinedFor(h)
               /\ Trace(net, budget, net.clk[h])' = Trace(net, budget, net.clk[h])
    <3>1. domain'[h] = domain[h] /\ (h \in untraced' <=> h \in untraced)
      BY <2>1, <2>6 DEF TraceInv
    <3>2. \A c \in combines' : c[3] = h => c \in combines  BY <2>1, <2>6
    <3>3. DeclinedFor(h)' = DeclinedFor(h)  BY <2>1, <3>2 DEF DeclinedFor
    <3> QED  BY <2>1, <3>1, <3>3
  <2>7. ASSUME NEW h \in Flop
        PROVE  (IF h \in untraced THEN Unrecorded(h) ELSE Recorded(h))'
    <3>1. CASE h # f
      <4>1. IF h \in untraced THEN Unrecorded(h) ELSE Recorded(h)  BY DEF TraceInv
      <4> QED  BY <2>6, <3>1, <4>1 DEF Unrecorded, Recorded, Walk
    <3>2. CASE h = f
      <4>1. h \notin untraced' /\ domain'[h] = walk.root  BY <2>1, <3>2 DEF TraceInv
      <4>2. Walk(h)' = walk  BY <2>1, <3>2 DEF Walk, walk
      <4>3. DeclinedFor(f) = {}  BY <2>1 DEF TraceInv, Unrecorded
      <4>4. \A c \in DeclinedFor(h)' : \E d \in walk.declines : c = <<d[1], d[2], h>>
        BY <2>1, <3>2, <4>3 DEF DeclinedFor
      <4>5. \A d \in walk.declines : <<d[1], d[2], h>> \in DeclinedFor(h)'
        BY <2>1, <3>2 DEF DeclinedFor
      <4>6. Recorded(h)'  BY <4>1, <4>2, <4>4, <4>5 DEF Recorded
      <4> QED  BY <4>1, <4>6
    <3> QED  BY <3>1, <3>2
  <2> QED  BY <2>1, <2>5, <2>7 DEF TraceInv
<1>2. CASE UNCHANGED vars
  BY <1>2 DEF vars, TraceInv, Unrecorded, Recorded, Walk, DeclinedFor
<1> QED  BY <1>1, <1>2 DEF Next, Assigned

(* What a walk says of a flop, in the words of the properties.             *)
LEMMA ConeSources ==
    ASSUME TraceInv, NEW f \in Flop
    PROVE  /\ IsNetwork(net) /\ budget \in Nat /\ budget # 0 /\ net.clk[f] \in Wire
           /\ {x \in ClockCone(f) : net.node[x].kind \in {"pin", "port"}} =
                  Sources(net, net.clk[f], budget)
           /\ Feeds(f) = {net.node[b].name : b \in Sources(net, net.clk[f], budget)}
<1>1. IsNetwork(net) /\ budget \in Nat /\ budget # 0 /\ net.clk[f] \in Wire
  BY NetworkAssumption, TraceAssumption DEF TraceInv, IsNetwork
<1>2. {x \in ClockCone(f) : net.node[x].kind \in {"pin", "port"}} =
         Sources(net, net.clk[f], budget)
  BY <1>1 DEF ClockCone, Sources
<1> QED  BY <1>1, <1>2 DEF Feeds

LEMMA WalkIsJustified ==
    ASSUME TraceInv, NEW f \in Flop
    PROVE  Justified(net, net.clk[f], budget, Walk(f))
<1>1. IsNetwork(net) /\ budget \in Nat /\ net.clk[f] \in Wire  BY ConeSources
<1>2. PICK g : /\ Walks(g, net, budget)
               /\ \A d \in 0..budget, x \in Wire : Trace(net, d, x) = g[d][x][{}]
  BY <1>1, WalksExist
<1>3. Walk(f) = g[budget][net.clk[f]][{}]  BY <1>1, <1>2 DEF Walk
<1>4. budget \in 0..budget /\ {} \in SUBSET Bit  BY <1>1
<1>5. Justified(net, net.clk[f], budget, g[budget][net.clk[f]][{}])
  BY <1>1, <1>2, <1>4, WalkJustified
<1> QED  BY <1>3, <1>5

LEMMA JustifiedFeeds ==
    ASSUME TraceInv, NEW f \in Flop
    PROVE  /\ Walk(f).root # NoRoot => Walk(f).root \in Feeds(f)
           /\ \A d \in Walk(f).declines :
                 d[2] \subseteq DeclaredFeeds(f) /\ Cardinality(d[2]) >= 2
<1> DEFINE sources == Sources(net, net.clk[f], budget)
<1>1. Feeds(f) = {net.node[b].name : b \in sources}  BY ConeSources
<1>2. /\ Walk(f).root # NoRoot => \E x \in sources : net.node[x].name = Walk(f).root
      /\ \A d \in Walk(f).declines :
            /\ Cardinality(d[2]) >= 2
            /\ \A k \in d[2] : \E x \in sources :
                  k = net.identity[net.node[x].name] /\ k # NoClock
  BY WalkIsJustified DEF Justified
<1> HIDE DEF sources
<1>3. DeclaredFeeds(f) = {net.identity[r] : r \in Feeds(f)} \ {NoClock}  BY DEF DeclaredFeeds
<1>4. \A x \in sources : net.identity[net.node[x].name] # NoClock =>
         net.identity[net.node[x].name] \in DeclaredFeeds(f)
  BY <1>1, <1>3
<1> QED  BY <1>1, <1>2, <1>4

(* A walk that declines nothing, over a cone with no mux, finds every      *)
(* clock of the cone.                                                      *)
LEMMA WalkFindsAll ==
    ASSUME TraceInv, NEW f \in Flop, Walk(f).declines = {}, MuxFree(f),
           NEW s \in Sources(net, net.clk[f], budget)
    PROVE  /\ Walk(f).root # NoRoot
           /\ net.identity[net.node[s].name] # NoClock =>
                 net.identity[Walk(f).root] = net.identity[net.node[s].name]
<1>1. IsNetwork(net) /\ budget \in Nat /\ budget # 0 /\ net.clk[f] \in Wire  BY ConeSources
<1>2. PICK g : /\ Walks(g, net, budget)
               /\ \A d \in 0..budget, x \in Wire : Trace(net, d, x) = g[d][x][{}]
  BY <1>1, WalksExist
<1>3. Walk(f) = g[budget][net.clk[f]][{}]  BY <1>1, <1>2 DEF Walk
<1>4. PICK d \in Nat : budget = d + 1 /\ d < budget /\ d = budget - 1
  <2>1. budget - 1 \in Nat /\ budget = (budget - 1) + 1 /\ budget - 1 < budget  BY <1>1
  <2> QED  BY <2>1
<1> DEFINE b == net.clk[f]
           next == LegStep(net)
<1>5. next \in [Bit -> SUBSET Bit]  BY <1>1, LegStepType
<1>6. s \in ClockCone(f) /\ net.node[s].kind \in {"pin", "port"}  BY ConeSources
<1>7. ClockCone(f) = Within(next, {b} \cap Bit, d)  BY <1>4 DEF ClockCone
<1>8. ClockCone(f) \in SUBSET Bit
  <2>1. {b} \cap Bit \in SUBSET Bit  OBVIOUS
  <2> HIDE DEF next, b
  <2>2. Within(next, {b} \cap Bit, d) \in SUBSET Bit  BY <1>5, <2>1, WithinSteps
  <2> QED  BY <1>7, <2>2
<1>9. b \in Bit
  <2> SUFFICES ASSUME b \notin Bit PROVE FALSE
    OBVIOUS
  <2>1. {b} \cap Bit = {}  OBVIOUS
  <2> HIDE DEF next, b
  <2>2. \A k \in Nat : Within(next, {}, k) = {}
    <3> DEFINE bad == {k \in Nat : Within(next, {}, k) # {}}
    <3> SUFFICES ASSUME bad # {} PROVE FALSE
      OBVIOUS
    <3>1. PICK k \in Nat : k \in bad /\ \A i \in bad : k <= i
      <4>1. bad \in SUBSET Nat  OBVIOUS
      <4> HIDE DEF bad
      <4> QED  BY <4>1, LeastNat
    <3>2. {} \in SUBSET Bit  OBVIOUS
    <3>3. k # 0
      <4>1. Within(next, {}, 0) = {}  BY <1>5, <3>2, WithinSteps
      <4> QED  BY <3>1, <4>1
    <3>4. PICK i \in Nat : k = i + 1 /\ i \notin bad
      <4>1. k - 1 \in Nat /\ k = (k - 1) + 1 /\ ~(k <= k - 1)  BY <3>3
      <4> HIDE DEF bad
      <4> QED  BY <3>1, <4>1
    <3>5. Within(next, {}, i) = {}  BY <3>4
    <3>6. Within(next, {}, i + 1) =
             Within(next, {}, i) \cup UNION {next[x] : x \in Within(next, {}, i)}
      BY <1>5, <3>2, WithinSteps
    <3> QED  BY <3>1, <3>4, <3>5, <3>6
  <2>3. Within(next, {b} \cap Bit, d) = {}  BY <2>1, <2>2
  <2> QED  BY <1>6, <1>7, <2>3
<1>10. Around(next, {}) = next  BY <1>5 DEF Around
<1>11. CleanWalk(net, next, g, d, b, {}, s)
  <2>1. {b} \cap Bit = {b}  BY <1>9
  <2>2. Within(Around(next, {}), {b}, d) = ClockCone(f)  BY <1>7, <1>10, <2>1
  <2>3. \A x \in ClockCone(f) : net.node[x].kind # "mux"  BY DEF MuxFree
  <2>4. g[d + 1][b][{}].declines = {}  BY <1>3, <1>4
  <2> QED  BY <1>6, <2>2, <2>3, <2>4 DEF CleanWalk
<1>12. Finds(net, g, d, b, {}, s)
  <2>1. {} \in SUBSET Bit /\ s \in Bit  BY <1>6, <1>8
  <2> QED  BY <1>1, <1>2, <1>4, <1>9, <1>11, <2>1, WalkComplete
<1> QED  BY <1>3, <1>4, <1>12 DEF Finds
------------------------------------------------------------------------------
LEMMA FeedsFlop == ASSUME TraceInv PROVE DomainFeedsFlop
<1> SUFFICES ASSUME NEW f \in Flop
             PROVE  /\ domain[f] # NoRoot => domain[f] \in Feeds(f)
                    /\ \A c \in DeclinedFor(f) :
                          c[2] \subseteq DeclaredFeeds(f) /\ Cardinality(c[2]) >= 2
  BY DEF DomainFeedsFlop
<1>1. CASE f \in untraced  BY <1>1 DEF TraceInv, Unrecorded
<1>2. CASE f \notin untraced
  <2>1. Recorded(f)  BY <1>2 DEF TraceInv
  <2>2. domain[f] = Walk(f).root
        /\ \A c \in DeclinedFor(f) : \E d \in Walk(f).declines : c[2] = d[2]
    BY <2>1 DEF Recorded
  <2> QED  BY <2>2, JustifiedFeeds
<1> QED  BY <1>1, <1>2

LEMMA NothingDeclined ==
    ASSUME TraceInv, NEW f \in Flop, Traced(f), DeclinedFor(f) = {}
    PROVE  domain[f] = Walk(f).root /\ Walk(f).declines = {}
<1>1. Recorded(f)  BY DEF TraceInv, Traced
<1> QED  BY <1>1 DEF Recorded

LEMMA CleanIsExact == ASSUME TraceInv PROVE CleanWalkIsExact
<1> SUFFICES ASSUME NEW f \in Flop, Traced(f), DeclinedFor(f) = {}, MuxFree(f)
             PROVE  /\ domain[f] = NoRoot <=> Feeds(f) = {}
                    /\ domain[f] # NoRoot =>
                          DeclaredFeeds(f) = {net.identity[domain[f]]} \ {NoClock}
  BY DEF CleanWalkIsExact
<1> DEFINE sources == Sources(net, net.clk[f], budget)
<1>1. domain[f] = Walk(f).root /\ Walk(f).declines = {}  BY NothingDeclined
<1>2. \A s \in sources :
         /\ domain[f] # NoRoot
         /\ net.identity[net.node[s].name] # NoClock =>
               net.identity[domain[f]] = net.identity[net.node[s].name]
  BY <1>1, WalkFindsAll
<1>3. Feeds(f) = {net.node[b].name : b \in sources}  BY ConeSources
<1>4. domain[f] # NoRoot => domain[f] \in Feeds(f)  BY <1>1, JustifiedFeeds
<1> HIDE DEF sources
<1>5. domain[f] = NoRoot <=> Feeds(f) = {}  BY <1>2, <1>3, <1>4
<1>6. ASSUME domain[f] # NoRoot
      PROVE  DeclaredFeeds(f) = {net.identity[domain[f]]} \ {NoClock}
  <2>1. \A r \in Feeds(f) : net.identity[r] # NoClock => net.identity[r] = net.identity[domain[f]]
    BY <1>2, <1>3
  <2> QED  BY <1>4, <1>6, <2>1 DEF DeclaredFeeds
<1> QED  BY <1>5, <1>6

LEMMA DeeperLoses == ASSUME TraceInv PROVE DeeperLosesOnlyToCombine
<1> SUFFICES ASSUME NEW f \in Flop, NEW d \in Budget, Traced(f), d < budget,
                    Trace(net, d, net.clk[f]).root # NoRoot, domain[f] = NoRoot,
                    DeclinedFor(f) = {}
             PROVE  FALSE
  BY DEF DeeperLosesOnlyToCombine
<1>1. domain[f] = Walk(f).root /\ Walk(f).declines = {}  BY NothingDeclined
<1>2. IsNetwork(net) /\ budget \in Nat /\ net.clk[f] \in Wire  BY ConeSources
<1>3. d \in Nat /\ d \in 0..budget /\ budget \in 0..budget /\ d <= budget /\ budget <= budget
  BY <1>2, TraceAssumption
<1>4. PICK g : /\ Walks(g, net, budget)
               /\ \A e \in 0..budget, x \in Wire : Trace(net, e, x) = g[e][x][{}]
  BY <1>2, WalksExist
<1>5. /\ Walk(f) = g[budget][net.clk[f]][{}]
      /\ Trace(net, d, net.clk[f]) = g[d][net.clk[f]][{}]
  BY <1>2, <1>3, <1>4 DEF Walk
<1>6. {} \in SUBSET Bit  OBVIOUS
<1>7. /\ g[d][net.clk[f]][{}].root # NoRoot
      /\ g[budget][net.clk[f]][{}].declines = {}
      /\ g[budget][net.clk[f]][{}].root = NoRoot
  BY <1>1, <1>5
<1> QED  BY <1>2, <1>3, <1>4, <1>6, <1>7, DeeperResolves

(* A flop's clock reaches its CLK pin, and a reported combine is of clocks *)
(* that do: _trace and the combine recorder of find_clock_combines, on     *)
(* every network and at every depth.                                       *)
THEOREM ClockReachesFlop == Spec => []DomainFeedsFlop
<1>1. TraceInv => DomainFeedsFlop  BY FeedsFlop
<1> QED  BY TraceInvInit, TraceInvStep, <1>1, PTL DEF Spec

(* A walk that declined nothing and met no mux found the only declared     *)
(* clock there is, whatever loops and reconvergences the network has.      *)
THEOREM CleanWalkMissesNothing == Spec => []CleanWalkIsExact
<1>1. TraceInv => CleanWalkIsExact  BY CleanIsExact
<1> QED  BY TraceInvInit, TraceInvStep, <1>1, PTL DEF Spec

(* A larger --clock-trace-depth loses a flop only to a combine it reports. *)
THEOREM DepthIsSafe == Spec => []DeeperLosesOnlyToCombine
<1>1. TraceInv => DeeperLosesOnlyToCombine  BY DeeperLoses
<1> QED  BY TraceInvInit, TraceInvStep, <1>1, PTL DEF Spec
=============================================================================
