-------------------------- MODULE RulePackTheorems --------------------------
(***************************************************************************)
(* Proofs about the rule pack, for every set of designs that the loader    *)
(* can hand over: run_all loses no finding and invents none whatever the   *)
(* order of the crossings, CDC-012 judges each source by an answer of its  *)
(* own, and the lint agrees with the views written apart from it and with  *)
(* what the netlist does.                                                  *)
(*                                                                         *)
(* The first part is about the run (RunInv); the second takes the verdicts *)
(* it amounts to and proves what they say of one design.                   *)
(***************************************************************************)
EXTENDS RulePack, Induction, FiniteSetTheorems

IsFinding(f) ==
    f = [rule |-> f.rule, on |-> f.on, key |-> f.key, cell |-> f.cell,
         severity |-> f.severity, related |-> f.related]

(* What a rule other than CDC-012 says.                                    *)
Owned(fs, rule) == \A f \in fs : IsFinding(f) /\ f.rule = rule

LEMMA Findings ==
    /\ \A r, c, x, s : IsFinding(Finding(r, c, x, s)) /\ Finding(r, c, x, s).rule = r
    /\ \A r, k, x, s : IsFinding(Grouped(r, k, x, s)) /\ Grouped(r, k, x, s).rule = r
  BY DEF IsFinding, Finding, Grouped

(* Every rule signs its findings with its own name.                        *)
LEMMA DataSigned ==
    ASSUME NEW d, NEW cs
    PROVE  /\ Owned(CDC001(d, cs), "CDC-001") /\ Owned(CDC002(d, cs), "CDC-002")
           /\ Owned(CDC003(d, cs), "CDC-003") /\ Owned(CDC004(d, cs), "CDC-004")
           /\ Owned(CDC005(d, cs), "CDC-005") /\ Owned(CDC006(d), "CDC-006")
           /\ Owned(CDC009(d, cs), "CDC-009") /\ Owned(CDC011(d, cs), "CDC-011")
           /\ Owned(CDC013(d, cs), "CDC-013") /\ Owned(CDC014(d, cs), "CDC-014")
           /\ Owned(CDC015(d, cs), "CDC-015") /\ Owned(CDC016(d, cs), "CDC-016")
           /\ Owned(CDC017(d), "CDC-017")     /\ Owned(CDC018(d, cs), "CDC-018")
           /\ Owned(CDC019(d, cs), "CDC-019") /\ Owned(CDC020(d, cs), "CDC-020")
<1>1. Owned(CDC001(d, cs), "CDC-001")  BY Findings DEF CDC001, Owned
<1>2. Owned(CDC002(d, cs), "CDC-002")  BY Findings DEF CDC002, Owned
<1>3. Owned(CDC003(d, cs), "CDC-003")  BY Findings DEF CDC003, Owned
<1>4. Owned(CDC004(d, cs), "CDC-004")  BY Findings DEF CDC004, Owned
<1>5. Owned(CDC005(d, cs), "CDC-005")
  <2> SUFFICES ASSUME NEW f \in CDC005(d, cs) PROVE IsFinding(f) /\ f.rule = "CDC-005"
    BY DEF Owned
  <2>1. PICK k, x, s : f = Grouped("CDC-005", k, x, s)  BY DEF CDC005
  <2> QED  BY <2>1, Findings
<1>6. Owned(CDC006(d), "CDC-006")      BY Findings DEF CDC006, Owned
<1>7. Owned(CDC009(d, cs), "CDC-009")  BY Findings DEF CDC009, Owned
<1>8. Owned(CDC011(d, cs), "CDC-011")
  <2> SUFFICES ASSUME NEW f \in CDC011(d, cs) PROVE IsFinding(f) /\ f.rule = "CDC-011"
    BY DEF Owned
  <2>1. PICK k, x, s : f = Grouped("CDC-011", k, x, s)  BY DEF CDC011
  <2> QED  BY <2>1, Findings
<1>9. Owned(CDC013(d, cs), "CDC-013")  BY Findings DEF CDC013, Owned
<1>10. Owned(CDC014(d, cs), "CDC-014") BY Findings DEF CDC014, Owned
<1>11. Owned(CDC015(d, cs), "CDC-015") BY Findings DEF CDC015, Owned
<1>12. Owned(CDC016(d, cs), "CDC-016") BY Findings DEF CDC016, Owned
<1>13. Owned(CDC017(d), "CDC-017")
  <2> SUFFICES ASSUME NEW f \in CDC017(d) PROVE IsFinding(f) /\ f.rule = "CDC-017"
    BY DEF Owned
  <2>1. PICK k, x, s : f = Grouped("CDC-017", k, x, s)  BY DEF CDC017
  <2> QED  BY <2>1, Findings
<1>14. Owned(CDC018(d, cs), "CDC-018") BY Findings DEF CDC018, Owned
<1>15. Owned(CDC019(d, cs), "CDC-019")
  <2> SUFFICES ASSUME NEW f \in CDC019(d, cs) PROVE IsFinding(f) /\ f.rule = "CDC-019"
    BY DEF Owned
  <2>1. PICK k, x, s : f = Grouped("CDC-019", k, x, s)  BY DEF CDC019
  <2> QED  BY <2>1, Findings
<1>16. Owned(CDC020(d, cs), "CDC-020")
  <2> SUFFICES ASSUME NEW f \in CDC020(d, cs) PROVE IsFinding(f) /\ f.rule = "CDC-020"
    BY DEF Owned
  <2>1. PICK k, x, s : f = Grouped("CDC-020", k, x, s)  BY DEF CDC020
  <2> QED  BY <2>1, Findings
<1> QED  BY <1>1, <1>2, <1>3, <1>4, <1>5, <1>6, <1>7, <1>8, <1>9, <1>10, <1>11,
            <1>12, <1>13, <1>14, <1>15, <1>16

LEMMA ResetSigned ==
    ASSUME NEW d
    PROVE  /\ Owned(RDC001(d), "RDC-001") /\ Owned(RDC002(d), "RDC-002")
           /\ Owned(RDC003(d), "RDC-003") /\ Owned(RDC004(d), "RDC-004")
           /\ Owned(RDC005(d), "RDC-005") /\ Owned(RDC006(d), "RDC-006")
           /\ Owned(RDC007(d), "RDC-007") /\ Owned(RDC008(d), "RDC-008")
<1>1. ASSUME NEW rule, NEW edges PROVE Owned(Tree(rule, edges), rule)
  <2> SUFFICES ASSUME NEW f \in Tree(rule, edges) PROVE IsFinding(f) /\ f.rule = rule
    BY DEF Owned
  <2>1. PICK k, x, s : f = Grouped(rule, k, x, s)  BY DEF Tree
  <2> QED  BY <2>1, Findings
<1>2. ASSUME NEW rule, NEW fs, NEW s PROVE Owned(Local(rule, fs, s), rule)
  BY Findings DEF Local, Owned
<1>3. Owned(RDC008(d), "RDC-008")
  <2> SUFFICES ASSUME NEW f \in RDC008(d) PROVE IsFinding(f) /\ f.rule = "RDC-008"
    BY DEF Owned
  <2>1. PICK k, x, s : f = Grouped("RDC-008", k, x, s)  BY DEF RDC008
  <2> QED  BY <2>1, Findings
<1> QED  BY <1>1, <1>2, <1>3 DEF RDC001, RDC002, RDC003, RDC004, RDC005, RDC006, RDC007

LEMMA ClockSigned ==
    ASSUME NEW d
    PROVE  /\ Owned(CDC008(d), "CDC-008") /\ Owned(CDC010(d), "CDC-010")
           /\ Owned(CDC021(d), "CDC-021") /\ Owned(CDC022(d), "CDC-022")
<1>1. Owned(CDC008(d), "CDC-008")
  <2> SUFFICES ASSUME NEW f \in CDC008(d) PROVE IsFinding(f) /\ f.rule = "CDC-008"
    BY DEF Owned
  <2>1. PICK k, x, s : f = Grouped("CDC-008", k, x, s)  BY DEF CDC008
  <2> QED  BY <2>1, Findings
<1>2. Owned(CDC010(d), "CDC-010")
  <2> SUFFICES ASSUME NEW f \in CDC010(d) PROVE IsFinding(f) /\ f.rule = "CDC-010"
    BY DEF Owned
  <2>1. PICK k, x, s : f = Grouped("CDC-010", k, x, s)  BY DEF CDC010
  <2> QED  BY <2>1, Findings
<1>3. Owned(CDC021(d), "CDC-021")
  <2> SUFFICES ASSUME NEW f \in CDC021(d) PROVE IsFinding(f) /\ f.rule = "CDC-021"
    BY DEF Owned
  <2>1. PICK k, x, s : f = Grouped("CDC-021", k, x, s)  BY DEF CDC021
  <2> QED  BY <2>1, Findings
<1>4. Owned(CDC022(d), "CDC-022")
  <2> SUFFICES ASSUME NEW f \in CDC022(d) PROVE IsFinding(f) /\ f.rule = "CDC-022"
    BY DEF Owned
  <2>1. PICK k, x, s : f = Grouped("CDC-022", k, x, s)  BY DEF CDC022
  <2> QED  BY <2>1, Findings
<1> QED  BY <1>1, <1>2, <1>3, <1>4

(* The rules that run_all calls once; CDC-012 is the other one.            *)
LEMMA OtherRules ==
    /\ DOMAIN RULES = 1..29 /\ Len(RULES) = 29
    /\ \A i \in (DOMAIN RULES) \ {HoldRule} : RULES[i] # "CDC-012"
<1>1. DOMAIN RULES = 1..29 /\ Len(RULES) = 29  BY DEF RULES
<1>2. ASSUME NEW i \in 1..29, i # 19 PROVE RULES[i] # "CDC-012"
  <2>1. \/ i = 1 \/ i = 2 \/ i = 3 \/ i = 4 \/ i = 5 \/ i = 6 \/ i = 7
             \/ i = 8 \/ i = 9 \/ i = 10 \/ i = 11 \/ i = 12 \/ i = 13 \/ i = 14
             \/ i = 15 \/ i = 16 \/ i = 17 \/ i = 18 \/ i = 20 \/ i = 21 \/ i = 22
             \/ i = 23 \/ i = 24 \/ i = 25 \/ i = 26 \/ i = 27 \/ i = 28 \/ i = 29
    BY <1>2
  <2> QED  BY <2>1 DEF RULES
<1> QED  BY <1>1, <1>2 DEF HoldRule

LEMMA VerdictSigned ==
    ASSUME NEW d, NEW cs, NEW i \in (DOMAIN RULES) \ {HoldRule}
    PROVE  Owned(Verdict(RULES[i], d, cs), RULES[i])
<1>1. i \in 1..29 /\ i # 19  BY OtherRules DEF HoldRule
<1>2. Verdict(RULES[i], d, cs) = Verdict(RULES[i], d, cs)  OBVIOUS
<1> QED  BY <1>1, DataSigned, ResetSigned, ClockSigned DEF RULES, Verdict
------------------------------------------------------------------------------
(***************************************************************************)
(* The inductive invariant of a run.  While the rules go one after the     *)
(* other the findings are the verdicts so far; CDC-012 has looked at the   *)
(* crossings outside todo and told of each what the cache now holds for    *)
(* its source, and that answer is the one of some gated bus of the source. *)
(***************************************************************************)
Body(f) == <<f.rule, f.on, f.key, f.cell, f.severity>>

GivenInv ==
    /\ design \in Design /\ crossings = CrossingsOf(design)
    /\ turn \in Nat /\ todo \subseteq crossings
    /\ turn < HoldRule => todo = crossings /\ cache = <<>>
    /\ turn > HoldRule => todo = {}
    /\ \A f \in findings : IsFinding(f)

SaidInv ==
    \A i \in (DOMAIN RULES) \ {HoldRule} :
        /\ turn > i => \A f \in Verdict(RULES[i], design, crossings) :
                           \E g \in findings : Body(g) = Body(f)
        /\ \A g \in findings : g.rule = RULES[i] =>
               \E f \in Verdict(RULES[i], design, crossings) : Body(g) = Body(f)

CacheInv ==
    \A k \in DOMAIN cache : \E c \in crossings :
        c.src = k /\ GatedBus(design, c) /\ (cache[k] <=> Acknowledges(design, c))

HoldInv ==
    /\ \A f \in findings : f.rule = "CDC-012" =>
           f.on \in crossings \ todo /\ GatedBus(design, f.on)
    /\ \A c \in crossings \ todo : GatedBus(design, c) =>
           c.src \in DOMAIN cache /\ (Told("CDC-012", c) <=> ~cache[c.src])

RunInv == GivenInv /\ SaidInv /\ CacheInv /\ HoldInv

LEMMA RunInit == Init => RunInv
<1> SUFFICES ASSUME Init PROVE RunInv
  OBVIOUS
<1>1. turn = 1 /\ findings = {} /\ todo = crossings /\ cache = <<>> /\ 1 < HoldRule
  BY DEF Init, HoldRule
<1>2. GivenInv  BY <1>1 DEF Init, GivenInv, HoldRule
<1>3. SaidInv
  <2> SUFFICES ASSUME NEW i \in (DOMAIN RULES) \ {HoldRule} PROVE ~(turn > i)
    BY <1>1 DEF SaidInv
  <2>1. i \in Nat /\ 1 <= i  BY OtherRules
  <2> QED  BY <1>1, <2>1
<1>4. CacheInv  BY <1>1 DEF CacheInv
<1>5. HoldInv   BY <1>1 DEF HoldInv
<1> QED  BY <1>2, <1>3, <1>4, <1>5 DEF RunInv

LEMMA CheckKeeps == RunInv /\ Check => RunInv'
<1> SUFFICES ASSUME RunInv, Check PROVE RunInv'
  OBVIOUS
<1>1. /\ turn \in (DOMAIN RULES) \ {HoldRule} /\ turn \in Nat /\ turn' = turn + 1
      /\ findings' = findings \cup Verdict(RULES[turn], design, crossings)
      /\ design' = design /\ crossings' = crossings /\ todo' = todo /\ cache' = cache
  BY DEF Check, RunInv, GivenInv
<1>2. Owned(Verdict(RULES[turn], design, crossings), RULES[turn])
  BY <1>1, VerdictSigned
<1>3. GivenInv'
  <2>1. turn # HoldRule /\ turn' \in Nat /\ HoldRule \in Nat
    BY <1>1 DEF HoldRule
  <2>2. (turn' < HoldRule => turn < HoldRule) /\ (turn' > HoldRule => turn > HoldRule)
    BY <1>1, <2>1
  <2> QED  BY <1>1, <1>2, <2>1, <2>2 DEF RunInv, GivenInv, Owned
<1>4. SaidInv'
  <2> SUFFICES ASSUME NEW i \in (DOMAIN RULES) \ {HoldRule}
               PROVE  /\ turn' > i => \A f \in Verdict(RULES[i], design, crossings) :
                                         \E g \in findings' : Body(g) = Body(f)
                      /\ \A g \in findings' : g.rule = RULES[i] =>
                             \E f \in Verdict(RULES[i], design, crossings) : Body(g) = Body(f)
    BY <1>1 DEF SaidInv
  <2>1. i \in Nat /\ (turn' > i => turn > i \/ turn = i)
    BY <1>1, OtherRules
  <2>2. turn' > i => \A f \in Verdict(RULES[i], design, crossings) :
                        \E g \in findings' : Body(g) = Body(f)
    BY <1>1, <2>1 DEF RunInv, SaidInv
  <2>3. ASSUME NEW g \in findings', g.rule = RULES[i]
        PROVE  \E f \in Verdict(RULES[i], design, crossings) : Body(g) = Body(f)
    <3>1. CASE g \in findings  BY <2>3, <3>1 DEF RunInv, SaidInv
    <3>2. CASE g \in Verdict(RULES[turn], design, crossings)
      <4>1. g.rule = RULES[turn]  BY <1>2, <3>2 DEF Owned
      <4> QED  BY <2>3, <3>2, <4>1
    <3> QED  BY <1>1, <3>1, <3>2
  <2> QED  BY <2>2, <2>3
<1>5. CacheInv'  BY <1>1 DEF RunInv, CacheInv
<1>6. HoldInv'
  <2>1. \A f \in findings' : f.rule = "CDC-012" => f \in findings
    BY <1>1, <1>2, OtherRules DEF Owned
  <2>2. \A c : Told("CDC-012", c)' <=> Told("CDC-012", c)
    BY <1>1, <2>1 DEF Told
  <2> QED  BY <1>1, <2>1, <2>2 DEF RunInv, HoldInv
<1> QED  BY <1>3, <1>4, <1>5, <1>6 DEF RunInv

LEMMA HoldCheckKeeps == ASSUME RunInv, NEW c \in todo, HoldCheck(c) PROVE RunInv'
<1> DEFINE new == IF GatedBus(design, c) /\ ~Held(c)
                  THEN {Finding("CDC-012", c, c.src, "warning")} ELSE {}
<1>1. /\ turn = HoldRule /\ turn' = turn /\ design' = design /\ crossings' = crossings
      /\ todo' = todo \ {c} /\ c \in crossings /\ todo \subseteq crossings
      /\ findings' = findings \cup new
  BY DEF HoldCheck, RunInv, GivenInv
<1>2. \A f \in new : /\ IsFinding(f) /\ f.rule = "CDC-012" /\ f.on = c
                     /\ GatedBus(design, c) /\ ~Held(c)
  BY Findings DEF Finding
<1>3. GatedBus(design, c) /\ ~Held(c) => \E f \in new : f.rule = "CDC-012" /\ f.on = c
  BY Findings DEF Finding
<1> HIDE DEF new
<1>4. GivenInv'  BY <1>1, <1>2 DEF RunInv, GivenInv, HoldRule
<1>5. SaidInv'
  <2>1. \A g \in findings' : g \in findings \/ g.rule = "CDC-012"  BY <1>1, <1>2
  <2>2. \A i \in (DOMAIN RULES) \ {HoldRule} : RULES[i] # "CDC-012"  BY OtherRules
  <2> QED  BY <1>1, <2>1, <2>2 DEF RunInv, SaidInv
<1>6. CacheInv'
  <2>1. CASE ~GatedBus(design, c)  BY <1>1, <2>1 DEF HoldCheck, RunInv, CacheInv
  <2>2. CASE GatedBus(design, c)
    <3>1. cache' = [k \in (DOMAIN cache) \cup {c.src} |-> IF k = c.src THEN Held(c) ELSE cache[k]]
      BY <2>2 DEF HoldCheck, CacheKey
    <3> SUFFICES ASSUME NEW k \in DOMAIN cache'
                 PROVE  \E x \in crossings : /\ x.src = k /\ GatedBus(design, x)
                                             /\ cache'[k] <=> Acknowledges(design, x)
      BY <1>1 DEF CacheInv
    <3>2. CASE k \in DOMAIN cache
      <4>1. cache'[k] <=> cache[k]  BY <3>1, <3>2 DEF Held, Remembered, CacheKey
      <4> QED  BY <3>2, <4>1 DEF RunInv, CacheInv
    <3>3. CASE k \notin DOMAIN cache
      <4>1. k = c.src /\ cache'[k] = Held(c)  BY <3>1, <3>3
      <4>2. Held(c) <=> Acknowledges(design, c)  BY <3>3, <4>1 DEF Held, Remembered, CacheKey
      <4> QED  BY <1>1, <2>2, <4>1, <4>2
    <3> QED  BY <3>2, <3>3
  <2> QED  BY <2>1, <2>2
<1>7. HoldInv'
  <2>1. \A x : Told("CDC-012", x)' <=>
                  Told("CDC-012", x) \/ (x = c /\ GatedBus(design, c) /\ ~Held(c))
    BY <1>1, <1>2, <1>3 DEF Told
  <2>2. ASSUME GatedBus(design, c)
        PROVE  /\ DOMAIN cache' = (DOMAIN cache) \cup {c.src} /\ cache'[c.src] = Held(c)
               /\ \A k \in DOMAIN cache : cache'[k] = cache[k]
    <3>1. cache' = [k \in (DOMAIN cache) \cup {c.src} |-> IF k = c.src THEN Held(c) ELSE cache[k]]
      BY <2>2 DEF HoldCheck, CacheKey
    <3> QED  BY <3>1 DEF Held, Remembered, CacheKey
  <2>3. ~Told("CDC-012", c)
    BY DEF RunInv, HoldInv, Told
  <2>4. ~GatedBus(design, c) => cache' = cache  BY DEF HoldCheck
  <2>5. \A f \in findings' : f.rule = "CDC-012" =>
           f.on \in crossings' \ todo' /\ GatedBus(design', f.on)
    BY <1>1, <1>2 DEF RunInv, HoldInv
  <2>6. ASSUME NEW x \in crossings \ todo', GatedBus(design, x)
        PROVE  x.src \in DOMAIN cache' /\ (Told("CDC-012", x)' <=> ~cache'[x.src])
    <3>1. CASE x = c
      <4>1. c.src \in DOMAIN cache' /\ cache'[c.src] = Held(c)  BY <2>2, <2>6, <3>1
      <4> QED  BY <2>1, <2>3, <2>6, <3>1, <4>1
    <3>2. CASE x # c
      <4>1. x \in crossings \ todo  BY <1>1, <3>2
      <4>2. x.src \in DOMAIN cache /\ (Told("CDC-012", x) <=> ~cache[x.src])
        BY <2>6, <4>1 DEF RunInv, HoldInv
      <4>3. x.src \in DOMAIN cache' /\ cache'[x.src] = cache[x.src]  BY <2>2, <2>4, <4>2
      <4> QED  BY <2>1, <3>2, <4>2, <4>3
    <3> QED  BY <3>1, <3>2
  <2> QED  BY <1>1, <2>5, <2>6 DEF HoldInv
<1> QED  BY <1>4, <1>5, <1>6, <1>7 DEF RunInv

LEMMA HoldCheckedKeeps == RunInv /\ HoldChecked => RunInv'
<1> SUFFICES ASSUME RunInv, HoldChecked PROVE RunInv'
  OBVIOUS
<1>1. /\ turn = HoldRule /\ turn' = turn + 1 /\ todo = {} /\ design' = design
      /\ crossings' = crossings /\ todo' = todo /\ cache' = cache /\ findings' = findings
  BY DEF HoldChecked
<1>2. GivenInv'  BY <1>1 DEF RunInv, GivenInv, HoldRule
<1>3. SaidInv'
  <2>1. \A i \in (DOMAIN RULES) \ {HoldRule} : turn' > i => turn > i
    BY <1>1, OtherRules DEF HoldRule
  <2> QED  BY <1>1, <2>1 DEF RunInv, SaidInv
<1>4. CacheInv'  BY <1>1 DEF RunInv, CacheInv
<1>5. HoldInv'   BY <1>1 DEF RunInv, HoldInv, Told
<1> QED  BY <1>2, <1>3, <1>4, <1>5 DEF RunInv

(* The pass that links findings changes nothing else about them.           *)
LEMMA TagKeeps == RunInv /\ Tag => RunInv'
<1> SUFFICES ASSUME RunInv, Tag PROVE RunInv'
  OBVIOUS
<1>1. /\ turn = 30 /\ turn' = turn + 1 /\ design' = design
      /\ crossings' = crossings /\ todo' = todo /\ cache' = cache
      /\ findings' = {[f EXCEPT !.related = Linked(f)] : f \in findings}
  BY OtherRules DEF Tag
<1>2. ASSUME NEW f \in findings, NEW r
      PROVE  /\ IsFinding([f EXCEPT !.related = r]) /\ Body([f EXCEPT !.related = r]) = Body(f)
             /\ [f EXCEPT !.related = r].rule = f.rule /\ [f EXCEPT !.related = r].on = f.on
  <2>1. IsFinding(f)  BY DEF RunInv, GivenInv
  <2>2. [f EXCEPT !.related = r] = [rule |-> f.rule, on |-> f.on, key |-> f.key, cell |-> f.cell,
                                   severity |-> f.severity, related |-> r]
    BY <2>1 DEF IsFinding
  <2> QED  BY <2>2 DEF IsFinding, Body
<1> DEFINE linked(f) == [f EXCEPT !.related = Linked(f)]
<1>9. /\ \A f \in findings : linked(f) \in findings'
      /\ \A g \in findings' : \E f \in findings : g = linked(f)
  BY <1>1
<1>10. \A f \in findings : /\ IsFinding(linked(f)) /\ Body(linked(f)) = Body(f)
                          /\ linked(f).rule = f.rule /\ linked(f).on = f.on
  BY <1>2
<1> HIDE DEF linked
<1>3. \A f \in findings : \E g \in findings' : Body(g) = Body(f) /\ g.rule = f.rule /\ g.on = f.on
  BY <1>9, <1>10
<1>4. \A g \in findings' : IsFinding(g) /\ \E f \in findings :
          Body(g) = Body(f) /\ g.rule = f.rule /\ g.on = f.on
  BY <1>9, <1>10
<1>5. GivenInv'  BY <1>1, <1>4 DEF RunInv, GivenInv, HoldRule
<1>6. SaidInv'
  <2>1. \A i \in (DOMAIN RULES) \ {HoldRule} : turn > i  BY <1>1, OtherRules
  <2>2. \A i \in (DOMAIN RULES) \ {HoldRule} : \A f \in Verdict(RULES[i], design, crossings) :
            \E g \in findings' : Body(g) = Body(f)
    BY <1>3, <2>1 DEF RunInv, SaidInv
  <2>3. \A i \in (DOMAIN RULES) \ {HoldRule} : \A g \in findings' : g.rule = RULES[i] =>
            \E f \in Verdict(RULES[i], design, crossings) : Body(g) = Body(f)
    BY <1>4 DEF RunInv, SaidInv
  <2> QED  BY <1>1, <2>2, <2>3 DEF SaidInv
<1>7. CacheInv'  BY <1>1 DEF RunInv, CacheInv
<1>8. HoldInv'
  <2>1. \A x : Told("CDC-012", x)' <=> Told("CDC-012", x)
    BY <1>3, <1>4 DEF Told
  <2> QED  BY <1>1, <1>4, <2>1 DEF RunInv, HoldInv
<1> QED  BY <1>5, <1>6, <1>7, <1>8 DEF RunInv

LEMMA RunStep == RunInv /\ [Next]_vars => RunInv'
<1>1. ASSUME RunInv, UNCHANGED vars PROVE RunInv'
  BY <1>1 DEF vars, RunInv, GivenInv, SaidInv, CacheInv, HoldInv, Told
<1> QED  BY <1>1, CheckKeeps, HoldCheckKeeps, HoldCheckedKeeps, TagKeeps DEF Next

LEMMA RunInvariant == Spec => []RunInv
  BY RunInit, RunStep, PTL DEF Spec

(* What CDC-012 has said of a gated bus when the run is over is the answer *)
(* of some gated bus of the same source, the same for all of them.         *)
LEMMA HeldAtEnd ==
    ASSUME RunInv, Done, NEW c \in crossings, GatedBus(design, c)
    PROVE  \E k \in Siblings(c) :
               \A x \in Siblings(c) : Told("CDC-012", x) <=> ~Acknowledges(design, k)
<1>1. todo = {}  BY OtherRules DEF Done, RunInv, GivenInv, HoldRule
<1>2. \A x \in Siblings(c) : x.src = c.src /\ (Told("CDC-012", x) <=> ~cache[c.src])
  BY <1>1 DEF Siblings, RunInv, HoldInv
<1>3. c.src \in DOMAIN cache  BY <1>1 DEF RunInv, HoldInv
<1>4. PICK k \in crossings : /\ k.src = c.src /\ GatedBus(design, k)
                             /\ cache[c.src] <=> Acknowledges(design, k)
  BY <1>3 DEF RunInv, CacheInv
<1>5. k \in Siblings(c)  BY <1>4 DEF Siblings
<1> QED  BY <1>2, <1>4, <1>5

(***************************************************************************)
(* JudgedBySource: the gated buses of one source are all reported or none, *)
(* by the acknowledge of one of them, for every design, sources that       *)
(* several domains take included, and in every order of the crossings.     *)
(***************************************************************************)
THEOREM CacheIsPerSource == Spec => []JudgedBySource
<1>1. RunInv => JudgedBySource  BY HeldAtEnd DEF JudgedBySource
<1> QED  BY <1>1, RunInvariant, PTL

(***************************************************************************)
(* HoldExact, what the docstring of check_cdc_012 says of each crossing,   *)
(* holds of every design in which the takers of a source agree: all of     *)
(* their domains acknowledge or none does.  The run shared_source shows    *)
(* that the condition cannot be dropped.                                   *)
(***************************************************************************)
TakersAgree == \A c \in crossings : GatedBus(design, c) => Agreed(c)

THEOREM CacheIsExact == Spec => [](TakersAgree => HoldExact)
<1>1. RunInv => (TakersAgree => HoldExact)
  <2> SUFFICES ASSUME RunInv, TakersAgree, Done, NEW c \in crossings, GatedBus(design, c)
               PROVE  Told("CDC-012", c) <=> ~Acknowledges(design, c)
    BY DEF HoldExact
  <2>1. PICK k \in Siblings(c) :
           \A x \in Siblings(c) : Told("CDC-012", x) <=> ~Acknowledges(design, k)
    BY HeldAtEnd
  <2>2. c \in Siblings(c)  BY DEF Siblings
  <2>3. Acknowledges(design, k) <=> Acknowledges(design, c)  BY DEF TakersAgree, Agreed
  <2> QED  BY <2>1, <2>2, <2>3
<1> QED  BY <1>1, RunInvariant, PTL
------------------------------------------------------------------------------
(* When the run is over its findings are what the rules say.               *)

LEMMA AllSaid ==
    ASSUME RunInv, Done, NEW i \in (DOMAIN RULES) \ {HoldRule}
    PROVE  /\ \A f \in Verdict(RULES[i], design, crossings) : \E g \in findings : Body(g) = Body(f)
           /\ \A g \in findings : g.rule = RULES[i] =>
                  \E f \in Verdict(RULES[i], design, crossings) : Body(g) = Body(f)
<1>1. turn > i  BY OtherRules DEF Done
<1> QED  BY <1>1 DEF RunInv, SaidInv

LEMMA ToldBy ==
    ASSUME RunInv, Done, NEW i \in (DOMAIN RULES) \ {HoldRule}, NEW c
    PROVE  Told(RULES[i], c) <=> \E f \in Verdict(RULES[i], design, crossings) : f.on = c
<1>1. \A f \in Verdict(RULES[i], design, crossings) : f.rule = RULES[i]
  BY VerdictSigned DEF Owned
<1> QED  BY <1>1, AllSaid DEF Told, Body

LEMMA GroupedBy ==
    ASSUME RunInv, Done, NEW i \in (DOMAIN RULES) \ {HoldRule},
           NEW f \in Verdict(RULES[i], design, crossings)
    PROVE  \E g \in Grouping(RULES[i], f.key) : g.cell = f.cell /\ g.severity = f.severity
<1>1. f.rule = RULES[i]
  BY VerdictSigned DEF Owned
<1> QED  BY <1>1, AllSaid DEF Grouping, Body

(* The verdicts the properties below are about.                            *)
LEMMA VerdictsOf ==
    ASSUME NEW d, NEW cs
    PROVE  /\ {1, 4, 5, 17, 21} \subseteq (DOMAIN RULES) \ {HoldRule}
           /\ RULES[1] = "CDC-001"  /\ Verdict("CDC-001", d, cs) = CDC001(d, cs)
           /\ RULES[4] = "CDC-004"  /\ Verdict("CDC-004", d, cs) = CDC004(d, cs)
           /\ RULES[5] = "CDC-005"  /\ Verdict("CDC-005", d, cs) = CDC005(d, cs)
           /\ RULES[17] = "CDC-010" /\ Verdict("CDC-010", d, cs) = CDC010(d)
           /\ RULES[21] = "CDC-014" /\ Verdict("CDC-014", d, cs) = CDC014(d, cs)
<1>1. {1, 4, 5, 17, 21} \subseteq (DOMAIN RULES) \ {HoldRule}  BY OtherRules DEF HoldRule
<1>2. /\ RULES[1] = "CDC-001" /\ RULES[4] = "CDC-004" /\ RULES[5] = "CDC-005"
      /\ RULES[17] = "CDC-010" /\ RULES[21] = "CDC-014"
  BY DEF RULES
<1> QED  BY <1>1, <1>2 DEF Verdict

(* A finding is about one crossing.                                        *)
LEMMA ToldRules ==
    ASSUME RunInv, Done, NEW c
    PROVE  /\ Told("CDC-001", c) <=>
                 /\ c \in Moving(design, Unvouched(design, Typed(Single(crossings))))
                 /\ c.dst \notin UserHandshakes(design)
                 /\ Depth(design, c) < 2
                 /\ ~GateBetweenStages(design, c.dst)
           /\ Told("CDC-004", c) <=>
                 /\ c \in Moving(design, crossings)
                 /\ c.width > 1
                 /\ c.src \notin UserGrays(design)
                 /\ ~GrayIntoChain(design, c)
                 /\ ~Gated(design, c)
           /\ Told("CDC-014", c) <=>
                 /\ c \in Unvouched(design, Single(crossings))
                 /\ c.dst \notin UserHandshakes(design)
                 /\ GateBetweenStages(design, c.dst)
<1>1. /\ Told("CDC-001", c) <=> \E f \in CDC001(design, crossings) : f.on = c
      /\ Told("CDC-004", c) <=> \E f \in CDC004(design, crossings) : f.on = c
      /\ Told("CDC-014", c) <=> \E f \in CDC014(design, crossings) : f.on = c
  <2>1. 1 \in (DOMAIN RULES) \ {HoldRule} /\ 4 \in (DOMAIN RULES) \ {HoldRule}
        /\ 21 \in (DOMAIN RULES) \ {HoldRule}
    BY VerdictsOf
  <2>2. /\ Told(RULES[1], c) <=> \E f \in Verdict(RULES[1], design, crossings) : f.on = c
        /\ Told(RULES[4], c) <=> \E f \in Verdict(RULES[4], design, crossings) : f.on = c
        /\ Told(RULES[21], c) <=> \E f \in Verdict(RULES[21], design, crossings) : f.on = c
    BY <2>1, ToldBy
  <2> QED  BY <2>2, VerdictsOf
<1>2. \A r, k, x, s : Finding(r, k, x, s).on = k  BY DEF Finding
<1>3. (\E f \in CDC001(design, crossings) : f.on = c) <=>
          /\ c \in Moving(design, Unvouched(design, Typed(Single(crossings))))
          /\ c.dst \notin UserHandshakes(design)
          /\ Depth(design, c) < 2
          /\ ~GateBetweenStages(design, c.dst)
  BY <1>2 DEF CDC001
<1>4. (\E f \in CDC004(design, crossings) : f.on = c) <=>
          /\ c \in Moving(design, crossings)
          /\ c.width > 1
          /\ c.src \notin UserGrays(design)
          /\ ~GrayIntoChain(design, c)
          /\ ~Gated(design, c)
  BY <1>2 DEF CDC004
<1>5. (\E f \in CDC014(design, crossings) : f.on = c) <=>
          /\ c \in Unvouched(design, Single(crossings))
          /\ c.dst \notin UserHandshakes(design)
          /\ GateBetweenStages(design, c.dst)
  BY <1>2 DEF CDC014
<1> QED  BY <1>1, <1>3, <1>4, <1>5
------------------------------------------------------------------------------
(* Words and sets of names.                                                *)

LEMMA WordFacts ==
    ASSUME NEW w \in Word
    PROVE  /\ Len(w) \in Nat /\ DOMAIN w = 1..Len(w)
           /\ IsFiniteSet(Range(w)) /\ IsFiniteSet(Bits(w))
<1>1. Len(w) \in Nat /\ DOMAIN w = 1..Len(w)  BY DEF Word
<1>2. w \in Surjection(1..Len(w), Range(w))
  BY <1>1 DEF Word, Surjection, Range
<1>3. IsFiniteSet(Range(w))
  BY <1>1, <1>2, FS_NatSurjection DEF ExistsSurjection
<1>4. Bits(w) \in SUBSET Range(w)  BY DEF Bits
<1> QED  BY <1>1, <1>3, <1>4, FS_Subset

(* A crossing is at least one bit wide.                                    *)
LEMMA WidthPositive ==
    ASSUME NEW d, IsDesign(d), NEW c \in CrossingsOf(d)
    PROVE  c.width \in Nat /\ c.width >= 1
<1>1. ASSUME NEW src, NEW port, NEW bits, NEW clock,
             NEW x \in CrossingsFrom(d, src, port, bits, clock)
      PROVE  x.width \in Nat /\ x.width >= 1
  <2> DEFINE landed(f, k) == Within(LaneStep(d), bits \cap Bit, k) \cap Bits(D(d, f))
  <2> DEFINE nearest(f) == Min({k \in 0..MaxHops : landed(f, k) # {}})
  <2>0. x \in {[src |-> src, port |-> port, srcClock |-> clock, dst |-> f,
               dstClock |-> d.flops[f].clock, hops |-> nearest(f),
               width |-> Cardinality(landed(f, MaxHops))] :
                 f \in {g \in Flops(d) : KeptPair(d, clock, g) /\ landed(g, MaxHops) # {}}}
    BY Zenon DEF CrossingsFrom
  <2> HIDE DEF nearest, landed
  <2>1. PICK f \in Flops(d) : /\ x.width = Cardinality(landed(f, MaxHops))
                              /\ landed(f, MaxHops) # {}
    BY <2>0
  <2>2. D(d, f) \in Word  BY DEF IsDesign, D, FlopInput
  <2>3. landed(f, MaxHops) \in SUBSET Bits(D(d, f))  BY DEF landed
  <2>4. IsFiniteSet(Bits(D(d, f)))  BY <2>2, WordFacts
  <2>5. IsFiniteSet(landed(f, MaxHops))  BY <2>3, <2>4, FS_Subset
  <2>6. Cardinality(landed(f, MaxHops)) \in Nat /\ Cardinality(landed(f, MaxHops)) # 0
    BY <2>1, <2>5, FS_CardinalityType, FS_EmptySet
  <2> QED  BY <2>1, <2>6
<1>2. \/ \E f \in Flops(d) : c \in CrossingsFrom(d, f, None, Bits(Q(d, f)), d.flops[f].clock)
      \/ \E p \in DOMAIN d.ports :
            c \in CrossingsFrom(d, None, p, d.ports[p].bits, d.ports[p].clock)
  BY DEF CrossingsOf
<1> QED  BY <1>1, <1>2
------------------------------------------------------------------------------
(***************************************************************************)
(* MapMatchesLint: what the domain map publishes for a crossing and what   *)
(* CDC-001, CDC-004, CDC-012 and CDC-014 say of it agree, for every        *)
(* design.                                                                 *)
(***************************************************************************)
THEOREM MapAgrees == Spec => []MapMatchesLint
<1>1. RunInv => MapMatchesLint
  <2> SUFFICES ASSUME RunInv, Done, NEW c \in Typed(crossings)
               PROVE  SchemeTold(c, Scheme(design, c))
    BY DEF MapMatchesLint
  <2> DEFINE s == Scheme(design, c)
  <2>1. c \in crossings /\ c.srcClock # Untyped  BY DEF Typed
  <2>2. c.width \in Nat /\ c.width >= 1
    BY <2>1, WidthPositive, DesignAssumption DEF RunInv, GivenInv
  <2>3. CASE c.width = 1
    <3>1. s = SingleScheme(design, c)  BY <2>3 DEF Scheme
    <3>2. s = None => /\ c.dst \notin UserSyncs(design) \cup UserHandshakes(design)
                      /\ c.src \notin UserStatics(design) /\ Depth(design, c) < 2
      BY <3>1, NoneAssumption DEF SingleScheme
    <3>3. /\ c.dst \notin UserSyncs(design) \cup UserHandshakes(design)
          /\ c.src \notin UserStatics(design) /\ Depth(design, c) < 2
          => s = None
      BY <3>1 DEF SingleScheme
    <3>4. s # "mux"
      BY <3>1, NoneAssumption DEF SingleScheme
    <3>5. ~Told("CDC-012", c)
      BY <2>3 DEF Told, RunInv, HoldInv, GatedBus
    <3>6. s = None => Told("CDC-001", c) \/ Told("CDC-014", c)
      BY <2>1, <2>3, <3>2, ToldRules DEF Moving, Unvouched, Typed, Single
    <3>7. Told("CDC-001", c) => s = None
      BY <2>1, <2>3, <3>3, ToldRules DEF Moving, Unvouched, Typed, Single
    <3> HIDE DEF s
    <3>8. SchemeTold(c, s)  BY <2>3, <3>4, <3>5, <3>6, <3>7 DEF SchemeTold
    <3> QED  BY <3>8 DEF s
  <2>4. CASE c.width > 1
    <3>1. s = BusScheme(design, c)  BY <2>4 DEF Scheme
    <3>2. s = None <=> Told("CDC-004", c)
      BY <2>1, <2>4, <3>1, NoneAssumption, ToldRules DEF BusScheme, Moving
    <3>3. ASSUME c.src # None, Agreed(c), s = "mux" PROVE Told("CDC-012", c)
      <4>1. /\ Gated(design, c) /\ c.src \notin UserGrays(design) /\ ~GrayCoded(design, c.src)
            /\ c.src \notin UserHandshakes(design) /\ c.dst \notin UserHandshakes(design)
            /\ ~Acknowledges(design, c)
        BY <3>1, <3>3, NoneAssumption DEF BusScheme, Acknowledged, Acknowledges
      <4>2. GatedBus(design, c)  BY <2>1, <2>4, <3>3, <4>1 DEF GatedBus
      <4>3. PICK k \in Siblings(c) :
               \A x \in Siblings(c) : Told("CDC-012", x) <=> ~Acknowledges(design, k)
        BY <2>1, <4>2, HeldAtEnd
      <4>4. c \in Siblings(c)  BY <2>1, <4>2 DEF Siblings
      <4> QED  BY <3>3, <4>1, <4>3, <4>4 DEF Agreed
    <3>4. ASSUME c.src # None, Agreed(c), Told("CDC-012", c) PROVE s \in {"mux", "static"}
      <4>1. GatedBus(design, c)  BY <3>4 DEF Told, RunInv, HoldInv
      <4>2. PICK k \in Siblings(c) :
               \A x \in Siblings(c) : Told("CDC-012", x) <=> ~Acknowledges(design, k)
        BY <2>1, <4>1, HeldAtEnd
      <4>5. c \in Siblings(c)  BY <2>1, <4>1 DEF Siblings
      <4>3. ~Acknowledges(design, c)  BY <3>4, <4>2, <4>5 DEF Agreed
      <4>4. ~Acknowledged(design, c)  BY <4>1, <4>3 DEF GatedBus, Acknowledged, Acknowledges
      <4> QED  BY <3>1, <4>1, <4>4 DEF BusScheme, GatedBus, GrayIntoChain
    <3>5. c.width # 1  BY <2>4
    <3> HIDE DEF s
    <3>6. SchemeTold(c, s)  BY <2>4, <3>2, <3>3, <3>4, <3>5 DEF SchemeTold
    <3> QED  BY <3>6 DEF s
  <2> QED  BY <2>2, <2>3, <2>4
<1> QED  BY <1>1, RunInvariant, PTL
------------------------------------------------------------------------------
(* Cones: going back and going forward.                                    *)

(* A pin lane that carries a bit reads it.                                 *)
LEMMA ReadersOf ==
    ASSUME NEW d, NEW b
    PROVE  /\ \A x \in DOMAIN d.cells : \A p \in CellInput : \A i \in DOMAIN d.cells[x].pin[p] :
                  d.cells[x].pin[p][i] = b => <<x, p, i>> \in CellReaders(d, b)
           /\ \A f \in Flops(d) : \A p \in FlopInput : \A i \in DOMAIN d.flops[f].pin[p] :
                  d.flops[f].pin[p][i] = b => <<f, p, i>> \in FlopReaders(d, b)
<1>1. ASSUME NEW x \in DOMAIN d.cells, NEW p \in CellInput, NEW i \in DOMAIN d.cells[x].pin[p],
             d.cells[x].pin[p][i] = b
      PROVE  <<x, p, i>> \in CellReaders(d, b)
  <2> DEFINE lanes(y, q) == {<<y, q, k>> : k \in {j \in DOMAIN d.cells[y].pin[q] :
                                                    d.cells[y].pin[q][j] = b}}
  <2>1. CellReaders(d, b) = UNION {lanes(y, q) : y \in DOMAIN d.cells, q \in CellInput}
    BY DEF CellReaders
  <2>2. <<x, p, i>> \in lanes(x, p)  BY <1>1
  <2> HIDE DEF lanes
  <2> QED  BY <2>1, <2>2
<1>2. ASSUME NEW f \in Flops(d), NEW p \in FlopInput, NEW i \in DOMAIN d.flops[f].pin[p],
             d.flops[f].pin[p][i] = b
      PROVE  <<f, p, i>> \in FlopReaders(d, b)
  <2> DEFINE lanes(y, q) == {<<y, q, k>> : k \in {j \in DOMAIN d.flops[y].pin[q] :
                                                    d.flops[y].pin[q][j] = b}}
  <2>1. FlopReaders(d, b) = UNION {lanes(y, q) : y \in Flops(d), q \in FlopInput}
    BY DEF FlopReaders
  <2>2. <<f, p, i>> \in lanes(f, p)  BY <1>2
  <2> HIDE DEF lanes
  <2> QED  BY <2>1, <2>2
<1> QED  BY <1>1, <1>2

(* The walks step from bits to bits, and the forward one takes every step  *)
(* of the backward one the other way round.                                *)
LEMMA ConeSteps ==
    ASSUME NEW d
    PROVE  /\ FaninStep(d) \in [Bit -> SUBSET Bit] /\ FanoutStep(d) \in [Bit -> SUBSET Bit]
           /\ \A x, y \in Bit : x \in FaninStep(d)[y] => y \in FanoutStep(d)[x]
<1>1. \A x : CellInputs(d, x) \subseteq Bit /\ CellOutputs(d, x) \subseteq Bit
  BY DEF CellInputs, CellOutputs, Bits
<1>2. FaninStep(d) \in [Bit -> SUBSET Bit]
  BY <1>1 DEF FaninStep
<1>3. FanoutStep(d) \in [Bit -> SUBSET Bit]
  BY <1>1 DEF FanoutStep, Bits
<1>4. ASSUME NEW x \in Bit, NEW y \in Bit, x \in FaninStep(d)[y]
      PROVE  y \in FanoutStep(d)[x]
  <2>1. PICK c \in CellDriving(d, y) : x \in CellInputs(d, c)
    BY <1>4 DEF FaninStep
  <2>2. PICK p \in CellInput : x \in Range(d.cells[c].pin[p])
    BY <2>1 DEF CellInputs, Bits
  <2>3. PICK i \in DOMAIN d.cells[c].pin[p] : d.cells[c].pin[p][i] = x
    BY <2>2 DEF Range
  <2>4. <<c, p, i>> \in CellReaders(d, x)
    BY <2>1, <2>3, ReadersOf DEF CellDriving
  <2>5. y \in CellOutputs(d, c)
    BY <2>1 DEF CellDriving, CellOutputs, Bits
  <2>6. <<c, p, i>>[1] = c  OBVIOUS
  <2>7. y \in UNION {CellOutputs(d, r[1]) : r \in CellReaders(d, x)}
    BY <2>4, <2>5, <2>6
  <2> QED  BY <2>7 DEF FanoutStep
<1> QED  BY <1>2, <1>3, <1>4

LEMMA FaninReversed ==
    ASSUME NEW d, NEW A \in SUBSET Bit, NEW B \in SUBSET Bit, NEW n \in Nat,
           FaninWithin(d, A, n) \cap B # {}
    PROVE  A \cap FanoutWithin(d, B, n) # {}
<1>1. A \cap Bit = A /\ B \cap Bit = B  OBVIOUS
<1>2. PICK w \in B : w \in Within(FaninStep(d), A, n)  BY <1>1 DEF FaninWithin
<1>3. {w} \in SUBSET Bit  OBVIOUS
<1>4. PICK b \in A : b \in Within(FanoutStep(d), {w}, n)
  BY <1>2, ConeSteps, WithinReverse
<1>5. Within(FanoutStep(d), {w}, n) \subseteq Within(FanoutStep(d), B, n)
  BY <1>3, ConeSteps, WithinMore
<1> QED  BY <1>1, <1>4, <1>5 DEF FanoutWithin

(***************************************************************************)
(* ReconvergenceTold: when a register outside both chains computes from    *)
(* both copies of a synchronized register, CDC-005 tells, for every        *)
(* design.                                                                 *)
(***************************************************************************)
THEOREM CopiesMeetSaid == Spec => []ReconvergenceTold
<1>1. ASSUME NEW d, NEW c, NEW f \in Flops(d), Computes(d, c, f)
      PROVE  f \in Downstream(d, c)
  <2> DEFINE chain == Chain(d, c.dst, c.dstClock)
             ends == Bits(Q(d, chain[Len(chain)]))
  <2>1. f \notin Range(chain) /\ Fanin(d, Bits(D(d, f))) \cap ends # {}
    BY <1>1 DEF Computes, EndsIn
  <2>2. Bits(D(d, f)) \in SUBSET Bit /\ ends \in SUBSET Bit  BY DEF Bits
  <2> HIDE DEF ends
  <2>3. PICK b \in Bits(D(d, f)) : b \in FanoutWithin(d, ends, MaxCone)
    BY <2>1, <2>2, FaninReversed, ConeAssumption DEF Fanin
  <2>4. PICK i \in DOMAIN d.flops[f].pin["d"] : d.flops[f].pin["d"][i] = b
    BY DEF Bits, Range, D
  <2>5. <<f, "d", i>> \in FlopReaders(d, b)
    BY <2>4, ReadersOf DEF FlopInput
  <2>6. <<f, "d", i>> \in Readers(d, b) /\ <<f, "d", i>>[1] = f  BY <2>5 DEF Readers
  <2>7. f \in FanoutCells(d, ends)  BY <2>3, <2>6 DEF FanoutCells
  <2> QED  BY <2>1, <2>7 DEF Downstream, Beyond, ends
<1>2. RunInv => ReconvergenceTold
  <2> SUFFICES ASSUME RunInv, Done,
                      NEW c \in Synchronized(design, crossings),
                      NEW k \in Synchronized(design, crossings),
                      c # k, c.src = k.src, c.dstClock = k.dstClock,
                      NEW f \in Flops(design), Computes(design, c, f), Computes(design, k, f)
               PROVE  Grouping("CDC-005", <<c.src, c.dstClock>>) # {}
    BY DEF ReconvergenceTold
  <2> DEFINE synced == Synchronized(design, crossings)
  <2>1. f \in Downstream(design, c) /\ f \in Downstream(design, k)  BY <1>1
  <2>2. c \in Copies(synced, c) /\ k \in Copies(synced, c)  BY DEF Copies
  <2>3. c \in MeetAgain(design, synced)  BY <2>1, <2>2 DEF MeetAgain, Recombine
  <2>4. Grouped("CDC-005", <<c.src, c.dstClock>>, c.src, "warning") \in CDC005(design, crossings)
    BY <2>3 DEF CDC005
  <2>5. Grouped("CDC-005", <<c.src, c.dstClock>>, c.src, "warning").key = <<c.src, c.dstClock>>
    BY DEF Grouped
  <2>6. 5 \in (DOMAIN RULES) \ {HoldRule}  BY VerdictsOf
  <2>7. \A x \in Verdict(RULES[5], design, crossings) : Grouping(RULES[5], x.key) # {}
    BY <2>6, GroupedBy
  <2> QED  BY <2>4, <2>5, <2>7, VerdictsOf
<1> QED  BY <1>2, RunInvariant, PTL
------------------------------------------------------------------------------
(* Names taken in the order of the netlist.                                *)

LEMMA ExtremeName ==
    ASSUME NEW T \in SUBSET Nat, IsFiniteSet(T), T # {}
    PROVE  Min(T) \in T /\ Max(T) \in T
<1>1. Min(T) \in T
  <2>1. \E x \in T : \A y \in T : x <= y  BY LeastNat
  <2> QED  BY <2>1 DEF Min
<1>2. \E x \in T : \A y \in T : x >= y
  <2> DEFINE topless(U) == U # {} /\ IsFiniteSet(U) /\ ~ \E x \in U : \A y \in U : x >= y
             sizes == {n \in Nat : \E U \in SUBSET T : topless(U) /\ Cardinality(U) = n}
  <2> SUFFICES ASSUME topless(T) PROVE FALSE
    OBVIOUS
  <2>1. Cardinality(T) \in sizes  BY FS_CardinalityType
  <2>2. PICK n \in sizes : \A k \in sizes : n <= k
    <3>1. sizes \in SUBSET Nat /\ sizes # {}  BY <2>1
    <3> HIDE DEF sizes
    <3> QED  BY <3>1, LeastNat
  <2>3. PICK U \in SUBSET T : topless(U) /\ Cardinality(U) = n  OBVIOUS
  <2>4. PICK x \in U : TRUE  BY <2>3
  <2>5. IsFiniteSet(U \ {x}) /\ Cardinality(U \ {x}) = n - 1 /\ n \in Nat
    BY <2>3, <2>4, FS_RemoveElement
  <2>6. U \ {x} # {}
    <3>1. ASSUME U = {x} PROVE FALSE
      <4>1. x \in Nat  BY <2>4
      <4> QED  BY <2>3, <3>1, <4>1
    <3> QED  BY <3>1, <2>4
  <2>7. ~topless(U \ {x})
    <3>1. Cardinality(U \ {x}) \in Nat  BY <2>5, FS_CardinalityType
    <3>2. ~(n <= n - 1)  BY <2>5
    <3>3. n - 1 \notin sizes  BY <2>2, <3>2
    <3>4. (U \ {x}) \in SUBSET T  OBVIOUS
    <3> QED  BY <2>5, <3>1, <3>3, <3>4
  <2>8. PICK m \in U \ {x} : \A y \in U \ {x} : m >= y  BY <2>5, <2>6, <2>7
  <2>9. x \in Nat /\ m \in Nat /\ \A y \in U : y \in Nat  BY <2>4
  <2>10. CASE m >= x
    <3>1. \A y \in U : m >= y  BY <2>8, <2>10
    <3> QED  BY <2>3, <3>1
  <2>11. CASE ~(m >= x)
    <3>1. \A y \in U : x >= y  BY <2>8, <2>9, <2>11
    <3> QED  BY <2>3, <2>4, <3>1
  <2> QED  BY <2>10, <2>11
<1>3. Max(T) \in T  BY <1>2 DEF Max
<1> QED  BY <1>1, <1>3

LEMMA NamesAreNumbers ==
    ASSUME NEW d, IsDesign(d)
    PROVE  /\ Flops(d) \subseteq Nat /\ IsFiniteSet(Flops(d)) /\ None \notin Flops(d)
           /\ \A T \in SUBSET Sites(d) : /\ T # {} => Min(T) \in T /\ Max(T) \in T
                                         /\ FirstOf(T) # None => FirstOf(T) \in T
                                         /\ LastOf(T) # None => LastOf(T) \in T
           /\ \A T \in SUBSET DOMAIN d.ports : T # {} => Min(T) \in T
<1>1. IsFiniteSet(Sites(d)) /\ Sites(d) \subseteq Nat /\ Flops(d) \in SUBSET Sites(d)
      /\ IsFiniteSet(DOMAIN d.ports) /\ DOMAIN d.ports \subseteq Nat
  BY DEF IsDesign, Sites
<1>2. IsFiniteSet(Flops(d))  BY <1>1, FS_Subset
<1>3. ASSUME NEW T \in SUBSET Sites(d), T # {} PROVE Min(T) \in T /\ Max(T) \in T
  <2>1. IsFiniteSet(T) /\ T \in SUBSET Nat  BY <1>1, FS_Subset
  <2> QED  BY <1>3, <2>1, ExtremeName
<1>4. ASSUME NEW T \in SUBSET DOMAIN d.ports, T # {} PROVE Min(T) \in T
  <2>1. IsFiniteSet(T) /\ T \in SUBSET Nat  BY <1>1, FS_Subset
  <2> QED  BY <1>4, <2>1, ExtremeName
<1> QED  BY <1>1, <1>2, <1>3, <1>4, NoneAssumption DEF FirstOf, LastOf

LEMMA CellDriverDrives ==
    ASSUME NEW d, IsDesign(d), NEW b, CellDriver(d, b) # None
    PROVE  CellDriver(d, b) \in CellDriving(d, b)
<1>1. CellDriving(d, b) \in SUBSET Sites(d)  BY DEF CellDriving, Sites
<1> QED  BY <1>1, NamesAreNumbers DEF CellDriver
------------------------------------------------------------------------------
(* Behind a reset mux.                                                     *)

LEMMA FlopWords ==
    ASSUME NEW d, IsDesign(d), NEW f \in Flops(d)
    PROVE  D(d, f) \in Word /\ Q(d, f) \in Word
  BY DEF IsDesign, D, FlopInput

(* What stands on the data leg of the reset mux feeds the register, lane   *)
(* by lane.                                                                *)
LEMMA LegFeeds ==
    ASSUME NEW d, IsDesign(d), NEW f \in Flops(d), ResetMuxLeg(d, f) # <<>>
    PROVE  /\ DOMAIN ResetMuxLeg(d, f) = DOMAIN D(d, f)
           /\ \A i \in DOMAIN D(d, f) :
                 ResetMuxLeg(d, f)[i] \in Bit => Feeds(d, ResetMuxLeg(d, f)[i], f, i)
<1> DEFINE y == D(d, f)
           x == CellDriver(d, y[1])
           a == d.cells[x].pin["A"]
           b == d.cells[x].pin["B"]
           leg == ResetMuxLeg(d, f)
<1>1. DrivesAlone(d, x, y) /\ leg = MovingLeg(a, b) /\ y # <<>>
  BY DEF ResetMuxLeg, LegOf
<1>2. AllConst(a) # AllConst(b) /\ leg = IF AllConst(b) THEN a ELSE b
  BY <1>1 DEF MovingLeg
<1>3. x \in CellDriving(d, y[1]) /\ x \in DOMAIN d.cells /\ d.cells[x].type = "mux"
      /\ d.cells[x].pin["Y"] = y
  <2>1. x # None  BY <1>1 DEF DrivesAlone
  <2>2. x \in CellDriving(d, y[1])  BY <2>1, CellDriverDrives
  <2> QED  BY <1>1, <2>2 DEF DrivesAlone, CellDriving
<1>4. a \in Word /\ b \in Word /\ y \in Word
  <2>1. d.cells[x].pin \in [PinName -> Word]  BY <1>3 DEF IsDesign
  <2> QED  BY <2>1, FlopWords DEF PinName
<1>5. DOMAIN a = DOMAIN y /\ DOMAIN b = DOMAIN y
  <2>1. Len(a) = Len(y) /\ Len(b) = Len(y)  BY <1>1 DEF DrivesAlone
  <2> QED  BY <1>4, <2>1, WordFacts
<1>6. ASSUME NEW i \in DOMAIN y, leg[i] \in Bit PROVE Feeds(d, leg[i], f, i)
  <2>1. x \in CellDriving(d, y[i])  BY <1>3 DEF CellDriving, Range
  <2>2. leg[i] \in {a[i], b[i]} /\ {a[i], b[i]} \cap Bit = {leg[i]}
    BY <1>2, <1>5, <1>6 DEF AllConst
  <2>3. d.cells[x].pin["Y"][i] = D(d, f)[i] /\ i \in DOMAIN d.cells[x].pin["Y"]  BY <1>3
  <2> HIDE DEF x, leg
  <2> QED  BY <1>3, <2>1, <2>2, <2>3 DEF Feeds
<1> QED  BY <1>2, <1>5, <1>6

LEMMA DataFeeds ==
    ASSUME NEW d, IsDesign(d), NEW f \in Flops(d)
    PROVE  LET data == ShiftData(ResetMuxLeg(d, f), D(d, f))
           IN  /\ DOMAIN data = DOMAIN D(d, f)
               /\ \A i \in DOMAIN D(d, f) : data[i] \in Bit => Feeds(d, data[i], f, i)
<1>1. CASE ResetMuxLeg(d, f) # <<>>  BY <1>1, LegFeeds DEF ShiftData
<1>2. CASE ResetMuxLeg(d, f) = <<>>  BY <1>2 DEF ShiftData, Feeds
<1> QED  BY <1>1, <1>2

(* The register found to sample a bit takes it at the next edge.           *)
LEMMA SamplerTakes ==
    ASSUME NEW d, IsDesign(d), NEW b \in Bit, NEW g \in Flops(d), g = Sampler(d, b)
    PROVE  \E i \in DOMAIN D(d, g) : Feeds(d, b, g, i)
<1>0. None \notin Flops(d)  BY NamesAreNumbers
<1>1. CASE Samplers(d, b) # {}
  <2>1. Samplers(d, b) \in SUBSET Sites(d)  BY DEF Samplers, Sites
  <2>2. g \in Samplers(d, b)
    BY <1>0, <1>1, <2>1, NamesAreNumbers DEF Sampler, SingleBitFlop
  <2>3. D(d, g) = <<b>>  BY <2>2 DEF Samplers
  <2> QED  BY <2>3 DEF Feeds
<1>2. CASE Samplers(d, b) = {}
  <2> DEFINE T == {f \in Flops(d) : /\ Len(D(d, f)) = 1 /\ SingleBitFlop(d, D(d, f)[1]) = f
                                    /\ ResetMuxLeg(d, f) = <<b>>}
  <2>1. T \in SUBSET Sites(d)  BY DEF Sites
  <2>2. g = FirstOf(T)  BY <1>2 DEF Sampler, BehindResetMux
  <2> HIDE DEF T
  <2>3. g \in T  BY <1>0, <2>1, <2>2, NamesAreNumbers
  <2>4. ResetMuxLeg(d, g) = <<b>>  BY <2>3 DEF T
  <2>5. 1 \in DOMAIN <<b>> /\ <<b>>[1] = b /\ <<b>> # <<>>  OBVIOUS
  <2>6. 1 \in DOMAIN D(d, g) /\ Feeds(d, b, g, 1)
    BY <2>4, <2>5, LegFeeds
  <2> QED  BY <2>6
<1> QED  BY <1>1, <1>2
------------------------------------------------------------------------------
(* Chains.                                                                 *)

(* A packed register of depth two or more: its first lane is read once,    *)
(* by a lane of the same register.                                         *)
LEMMA ShiftMoves ==
    ASSUME NEW d, NEW q, NEW data, Len(q) \in Nat, ShiftDepth(d, q, data) >= 2
    PROVE  \E j \in Entering(q, data) : ReadOnce(d, q[j]) /\ Taking(data, q[j]) # {}
<1> DEFINE n == Len(q)
           E == Entering(q, data)
           next(w) == UNION {Taking(data, q[j]) : j \in {i \in w : ReadOnce(d, q[i])}}
           S == SUBSET DOMAIN data
           step == [w \in S |-> next(w)]
           walk[k \in 1..n] ==
               IF k = 1 THEN E
               ELSE UNION {Taking(data, q[j]) : j \in {i \in walk[k - 1] : ReadOnce(d, q[i])}}
<1>1. ShiftDepth(d, q, data) = Cardinality({k \in 1..n : walk[k] # {}})
  BY DEF ShiftDepth
<1>2. \A w : next(w) \in S  BY DEF Taking
<1>3. step \in [S -> S]  BY <1>2
<1>4. E \in S  BY DEF Entering
<1>5. PICK f \in [1..n -> S] : f = [k \in 1..n |-> IF k = 1 THEN E ELSE step[f[k - 1]]]
  <2> HIDE DEF step, S, E
  <2>1. 1 \in Nat /\ n \in Nat  OBVIOUS
  <2>2. \E f \in [1..n -> S] : Recurs(f, E, step, 1, n)
    BY <1>3, <1>4, <2>1, RecursionExists
  <2> QED  BY <2>2 DEF Recurs
<1>6. f = [k \in 1..n |-> IF k = 1 THEN E ELSE next(f[k - 1])]
  <2>1. \A k \in 1..n : k # 1 => step[f[k - 1]] = next(f[k - 1])
    <3> SUFFICES ASSUME NEW k \in 1..n, k # 1 PROVE step[f[k - 1]] = next(f[k - 1])
      OBVIOUS
    <3>1. k - 1 \in 1..n  OBVIOUS
    <3>2. f[k - 1] \in S  BY <3>1
    <3> HIDE DEF next, S
    <3> QED  BY <3>2
  <2> HIDE DEF step, next
  <2> QED  BY <1>5, <2>1
<1>7. walk = [k \in 1..n |-> IF k = 1 THEN E ELSE next(walk[k - 1])]
  BY <1>6
<1> HIDE DEF walk
<1> SUFFICES ASSUME next(E) = {} PROVE FALSE
  OBVIOUS
<1>8. next({}) = {}  OBVIOUS
<1>9. \A k \in 1..n : k # 1 => walk[k] = {}
  <2> HIDE DEF next
  <2> DEFINE bad == {k \in 1..n : k # 1 /\ walk[k] # {}}
  <2> SUFFICES ASSUME bad # {} PROVE FALSE
    OBVIOUS
  <2>1. PICK k \in bad : \A i \in bad : k <= i
    <3>1. bad \in SUBSET Nat  OBVIOUS
    <3> QED  BY <3>1, LeastNat
  <2>2. k - 1 \in 1..n /\ ~(k <= k - 1)  OBVIOUS
  <2>3. walk[k] = next(walk[k - 1])  BY <1>7
  <2>4. CASE k - 1 = 1
    <3>1. walk[k - 1] = E  BY <1>7, <2>2, <2>4
    <3> QED  BY <2>1, <2>3, <3>1
  <2>5. CASE k - 1 # 1
    <3>1. walk[k - 1] = {}  BY <2>1, <2>2, <2>5
    <3> QED  BY <1>8, <2>1, <2>3, <3>1
  <2> QED  BY <2>4, <2>5
<1> HIDE DEF next
<1>10. {k \in 1..n : walk[k] # {}} \in SUBSET {1}  BY <1>9
<1>11. Cardinality({k \in 1..n : walk[k] # {}}) <= 1
  <2>1. IsFiniteSet({1}) /\ Cardinality({1}) = 1  BY FS_Singleton
  <2> QED  BY <1>10, <2>1, FS_Subset
<1>12. Cardinality({k \in 1..n : walk[k] # {}}) \in Nat
  <2>1. IsFiniteSet({1})  BY FS_Singleton
  <2>2. IsFiniteSet({k \in 1..n : walk[k] # {}})  BY <1>10, <2>1, FS_Subset
  <2> QED  BY <2>2, FS_CardinalityType
<1> QED  BY <1>1, <1>11, <1>12

(* The next register of a chain is what NextStage looks for.               *)
Follows(d, f, g, clock) ==
    /\ Len(Q(d, f)) = 1 /\ Len(D(d, f)) = 1
    /\ Q(d, f)[1] \in Bit /\ ReadOnce(d, Q(d, f)[1])
    /\ ClockOf(d, g) = clock
    /\ g = Sampler(d, Q(d, f)[1])

LEMMA NextFollows ==
    ASSUME NEW d, IsDesign(d), NEW f, NEW clock
    PROVE  LET g == NextStage(d, f, clock)
           IN  /\ g # None => g \in Flops(d) /\ Follows(d, f, g, clock)
               /\ (\E h \in Flops(d) : Follows(d, f, h, clock)) => g # None
<1> DEFINE next == {g \in Flops(d) : Follows(d, f, g, clock)}
<1>1. NextStage(d, f, clock) = LastOf(next)  BY DEF NextStage, Follows
<1>2. next \in SUBSET Sites(d) /\ None \notin Flops(d)  BY NamesAreNumbers DEF Sites
<1>3. LastOf(next) # None => LastOf(next) \in next  BY <1>2, NamesAreNumbers
<1>4. next # {} => LastOf(next) \in next  BY <1>2, NamesAreNumbers DEF LastOf
<1> HIDE DEF next
<1>5. next # {} => LastOf(next) # None  BY <1>2, <1>4 DEF next
<1> QED  BY <1>1, <1>3, <1>5 DEF next

(* A chain grows from its head, a register at a time.                      *)
Growth(d, head, clock, n, grown) ==
    /\ n \in Nat /\ n >= 1
    /\ grown \in [0..n -> Seq(Flops(d))]
    /\ Chain(d, head, clock) = grown[n] /\ grown[0] = <<head>>
    /\ \A k \in 0..n : k # 0 =>
          grown[k] = Extended(grown[k - 1], NextStage(d, grown[k - 1][Len(grown[k - 1])], clock))

LEMMA ChainGrows ==
    ASSUME NEW d, IsDesign(d), NEW head \in Flops(d), NEW clock
    PROVE  \E n, grown : Growth(d, head, clock, n, grown)
<1> DEFINE n == Cardinality(Flops(d))
           S == Seq(Flops(d))
           step == [c \in S |-> Extended(c, NextStage(d, c[Len(c)], clock))]
           grown[k \in 0..n] ==
               IF k = 0 THEN <<head>>
               ELSE LET c == grown[k - 1] IN Extended(c, NextStage(d, c[Len(c)], clock))
<1>1. n \in Nat /\ n >= 1
  <2>1. IsFiniteSet(Flops(d)) /\ Flops(d) # {}  BY NamesAreNumbers
  <2>2. n \in Nat /\ n # 0  BY <2>1, FS_CardinalityType, FS_EmptySet
  <2> QED  BY <2>2
<1>2. \A f : NextStage(d, f, clock) \in Flops(d) \cup {None}  BY NextFollows
<1>3. step \in [S -> S]
  <2> SUFFICES ASSUME NEW c \in S PROVE Extended(c, NextStage(d, c[Len(c)], clock)) \in S
    OBVIOUS
  <2>1. NextStage(d, c[Len(c)], clock) \in Flops(d) \cup {None}  BY <1>2
  <2> QED  BY <2>1 DEF Extended
<1>4. PICK f \in [0..n -> S] : f = [k \in 0..n |-> IF k = 0 THEN <<head>> ELSE step[f[k - 1]]]
  <2>1. <<head>> \in S  OBVIOUS
  <2> HIDE DEF step, S, n
  <2>2. 0 \in Nat  OBVIOUS
  <2>3. \E f \in [0..n -> S] : Recurs(f, <<head>>, step, 0, n)
    BY <1>1, <1>3, <2>1, <2>2, RecursionExists
  <2> QED  BY <2>3 DEF Recurs
<1>5. f = [k \in 0..n |-> IF k = 0 THEN <<head>>
                          ELSE Extended(f[k - 1], NextStage(d, f[k - 1][Len(f[k - 1])], clock))]
  <2>1. \A k \in 0..n : k # 0 => step[f[k - 1]] =
               Extended(f[k - 1], NextStage(d, f[k - 1][Len(f[k - 1])], clock))
    <3> SUFFICES ASSUME NEW k \in 0..n, k # 0
                 PROVE  step[f[k - 1]] =
                           Extended(f[k - 1], NextStage(d, f[k - 1][Len(f[k - 1])], clock))
      OBVIOUS
    <3>1. k - 1 \in 0..n  BY <1>1
    <3>2. f[k - 1] \in S  BY <3>1
    <3> HIDE DEF S
    <3> QED  BY <3>2
  <2> HIDE DEF step
  <2> QED  BY <1>4, <2>1
<1>6. grown = [k \in 0..n |-> IF k = 0 THEN <<head>>
                 ELSE Extended(grown[k - 1],
                               NextStage(d, grown[k - 1][Len(grown[k - 1])], clock))]
  BY <1>5
<1>9. grown \in [0..n -> S]
  <2> HIDE DEF grown, n
  <2> DEFINE bad == {k \in 0..n : grown[k] # f[k]}
  <2>1. bad = {}
    <3> SUFFICES ASSUME bad # {} PROVE FALSE
      OBVIOUS
    <3>1. PICK k \in bad : \A i \in bad : k <= i
      <4>1. bad \in SUBSET Nat  BY <1>1
      <4> HIDE DEF bad
      <4> QED  BY <4>1, LeastNat
    <3>2. k # 0
      <4>1. grown[0] = <<head>> /\ f[0] = <<head>>  BY <1>1, <1>5, <1>6
      <4> QED  BY <3>1, <4>1
    <3>3. k - 1 \in 0..n /\ ~(k <= k - 1)  BY <1>1, <3>1, <3>2
    <3>4. grown[k - 1] = f[k - 1]  BY <3>1, <3>3
    <3>5. grown[k] = Extended(grown[k - 1],
                              NextStage(d, grown[k - 1][Len(grown[k - 1])], clock))
      BY <1>6, <3>1, <3>2
    <3>6. f[k] = Extended(f[k - 1], NextStage(d, f[k - 1][Len(f[k - 1])], clock))
      BY <1>5, <3>1, <3>2
    <3> QED  BY <3>1, <3>4, <3>5, <3>6
  <2>2. DOMAIN grown = 0..n /\ grown = [k \in 0..n |-> grown[k]]  BY <1>6
  <2>3. \A k \in 0..n : grown[k] \in S  BY <2>1, <1>4
  <2> QED  BY <2>2, <2>3
<1>7. Chain(d, head, clock) = grown[n]  BY DEF Chain
<1> HIDE DEF grown
<1>8. grown[0] = <<head>>  BY <1>1, <1>6
<1> HIDE DEF n
<1>10. \A k \in 0..n : k # 0 =>
          grown[k] = Extended(grown[k - 1], NextStage(d, grown[k - 1][Len(grown[k - 1])], clock))
  BY <1>6
<1>11. n >= 1  BY <1>1
<1>12. Growth(d, head, clock, n, grown)  BY <1>1, <1>7, <1>8, <1>9, <1>10, <1>11 DEF Growth
<1> QED  BY <1>12

(* A chain of two or more has a second register, which alone reads the     *)
(* first.                                                                  *)
LEMMA ChainMoves ==
    ASSUME NEW d, IsDesign(d), NEW head \in Flops(d), NEW clock,
           ~(Len(Chain(d, head, clock)) < 2)
    PROVE  /\ Len(Q(d, head)) = 1 /\ Q(d, head)[1] \in Bit /\ ReadOnce(d, Q(d, head)[1])
           /\ \E g \in Flops(d) : ClockOf(d, g) = clock /\ g = Sampler(d, Q(d, head)[1])
<1>0. PICK n, grown : Growth(d, head, clock, n, grown)  BY ChainGrows
<1>1. /\ n \in Nat /\ n >= 1
      /\ grown \in [0..n -> Seq(Flops(d))]
      /\ Chain(d, head, clock) = grown[n] /\ grown[0] = <<head>>
      /\ \A k \in 0..n : k # 0 =>
            grown[k] = Extended(grown[k - 1], NextStage(d, grown[k - 1][Len(grown[k - 1])], clock))
  BY <1>0 DEF Growth
<1>2. NextStage(d, head, clock) \notin {None, head}
  <2> SUFFICES ASSUME NextStage(d, head, clock) \in {None, head} PROVE FALSE
    OBVIOUS
  <2>1. Extended(<<head>>, NextStage(d, <<head>>[Len(<<head>>)], clock)) = <<head>>
    <3>1. Len(<<head>>) = 1 /\ <<head>>[1] = head /\ Range(<<head>>) = {head}  BY DEF Range
    <3> QED  BY <3>1 DEF Extended
  <2> DEFINE bad == {k \in 0..n : grown[k] # <<head>>}
  <2>2. bad = {}
    <3> SUFFICES ASSUME bad # {} PROVE FALSE
      OBVIOUS
    <3>1. PICK k \in bad : \A i \in bad : k <= i
      <4>1. bad \in SUBSET Nat  OBVIOUS
      <4> HIDE DEF bad
      <4> QED  BY <4>1, LeastNat
    <3>2. k # 0  BY <1>1, <3>1
    <3>3. k - 1 \in 0..n /\ ~(k <= k - 1)  BY <1>1, <3>2
    <3>4. grown[k - 1] = <<head>>  BY <3>1, <3>3
    <3> QED  BY <1>1, <2>1, <3>2, <3>4
  <2>3. grown[n] = <<head>>  BY <1>1, <2>2
  <2>4. Len(<<head>>) = 1  OBVIOUS
  <2> QED  BY <1>1, <2>3, <2>4
<1>3. NextStage(d, head, clock) \in Flops(d) /\ Follows(d, head, NextStage(d, head, clock), clock)
  BY <1>2, NextFollows
<1> QED  BY <1>3 DEF Follows

(* A register that follows the head makes a chain of two or more.          *)
LEMMA ChainOfTwo ==
    ASSUME NEW d, IsDesign(d), NEW head \in Flops(d), NEW clock,
           NEW g \in Flops(d), g # head, Follows(d, head, g, clock)
    PROVE  Len(Chain(d, head, clock)) >= 2
<1>0. PICK n, grown : Growth(d, head, clock, n, grown)  BY ChainGrows
<1>1. /\ n \in Nat /\ n >= 1
      /\ grown \in [0..n -> Seq(Flops(d))]
      /\ Chain(d, head, clock) = grown[n] /\ grown[0] = <<head>>
      /\ \A k \in 0..n : k # 0 =>
            grown[k] = Extended(grown[k - 1], NextStage(d, grown[k - 1][Len(grown[k - 1])], clock))
  BY <1>0 DEF Growth
<1>2. NextStage(d, head, clock) = g
  <2>1. NextStage(d, head, clock) # None  BY NextFollows
  <2>2. Follows(d, head, NextStage(d, head, clock), clock)  BY <2>1, NextFollows
  <2> QED  BY <2>2 DEF Follows
<1>3. Len(grown[1]) = 2
  <2>1. Len(<<head>>) = 1 /\ <<head>>[1] = head /\ Range(<<head>>) = {head}  BY DEF Range
  <2>2. 1 \in 0..n /\ 1 # 0 /\ 1 - 1 = 0  BY <1>1
  <2>3. grown[1] = Extended(<<head>>, NextStage(d, <<head>>[Len(<<head>>)], clock))
    BY <1>1, <2>2
  <2>4. g \notin {None} \cup {head}  BY NamesAreNumbers
  <2>5. grown[1] = Append(<<head>>, g)  BY <1>2, <2>1, <2>3, <2>4 DEF Extended
  <2> QED  BY <2>5
<1>4. \A k \in 0..n : Len(grown[k]) \in Nat  BY <1>1
<1>5. ASSUME NEW k \in 0..n, k # 0 PROVE Len(grown[k]) >= Len(grown[k - 1])
  <2>1. k - 1 \in 0..n  BY <1>1, <1>5
  <2> DEFINE c == grown[k - 1]
             next == NextStage(d, c[Len(c)], clock)
  <2>2. c \in Seq(Flops(d)) /\ grown[k] = Extended(c, next)  BY <1>1, <1>5, <2>1
  <2> HIDE DEF c, next
  <2>3. Extended(c, next) \in {c, Append(c, next)}  BY DEF Extended
  <2>4. Len(c) \in Nat /\ Len(Append(c, next)) = Len(c) + 1  BY <2>2
  <2> QED  BY <2>2, <2>3, <2>4 DEF c
<1>6. \A k \in 0..n : k # 0 => Len(grown[k]) >= 2
  <2> DEFINE bad == {k \in 0..n : k # 0 /\ ~(Len(grown[k]) >= 2)}
  <2> SUFFICES ASSUME bad # {} PROVE FALSE
    OBVIOUS
  <2>1. PICK k \in bad : \A i \in bad : k <= i
    <3>1. bad \in SUBSET Nat  BY <1>1
    <3> HIDE DEF bad
    <3> QED  BY <3>1, LeastNat
  <2>2. k # 1
    <3> SUFFICES ASSUME k = 1 PROVE FALSE
      OBVIOUS
    <3>1. ~(Len(grown[k]) >= 2)  BY <2>1
    <3>2. grown[k] = grown[1]  OBVIOUS
    <3>3. Len(grown[k]) = 2  BY <1>3, <3>2
    <3> HIDE DEF bad
    <3> QED  BY <3>1, <3>3
  <2>3. k - 1 \in 0..n /\ k - 1 # 0 /\ ~(k <= k - 1)  BY <1>1, <2>1, <2>2
  <2>4. Len(grown[k - 1]) >= 2  BY <2>1, <2>3
  <2>5. Len(grown[k]) >= Len(grown[k - 1])  BY <1>5, <2>1
  <2> QED  BY <1>4, <2>1, <2>3, <2>4, <2>5
<1> QED  BY <1>1, <1>6

LEMMA CrossingEnds ==
    ASSUME NEW d, NEW c \in CrossingsOf(d)
    PROVE  c.dst \in Flops(d)
<1>1. ASSUME NEW src, NEW port, NEW bits, NEW clock,
             NEW x \in CrossingsFrom(d, src, port, bits, clock)
      PROVE  x.dst \in Flops(d)
  <2>1. PICK f, h, w : f \in Flops(d) /\
            x = [src |-> src, port |-> port, srcClock |-> clock, dst |-> f,
                 dstClock |-> d.flops[f].clock, hops |-> h, width |-> w]
    BY DEF CrossingsFrom
  <2> QED  BY <2>1
<1>2. \/ \E f \in Flops(d) : c \in CrossingsFrom(d, f, None, Bits(Q(d, f)), d.flops[f].clock)
      \/ \E p \in DOMAIN d.ports :
            c \in CrossingsFrom(d, None, p, d.ports[p].bits, d.ports[p].clock)
  BY DEF CrossingsOf
<1> QED  BY <1>1, <1>2

(* Every lane of a packed register is fed by the register, or settles.     *)
LEMMA PackedContained ==
    ASSUME NEW d, IsDesign(d), NEW c, c.dst \in Flops(d), PackedDepth(d, c.dst) > 0,
           NEW i \in DOMAIN Q(d, c.dst)
    PROVE  \/ \E b \in Bits(Q(d, c.dst)) : Feeds(d, b, c.dst, i)
           \/ Settles(d, c, Q(d, c.dst)[i])
<1> DEFINE f == c.dst
           q == Q(d, f)
           data == ShiftData(ResetMuxLeg(d, f), D(d, f))
<1>1. Shifts(d, f, q, data) /\ ShiftDepth(d, q, data) >= 2
  BY DEF PackedDepth, PackedAs
<1>2. /\ DOMAIN data = DOMAIN D(d, f)
      /\ \A k \in DOMAIN D(d, f) : data[k] \in Bit => Feeds(d, data[k], f, k)
  BY DataFeeds
<1> HIDE DEF data
<1>3. D(d, f) \in Word /\ q \in Word  BY FlopWords
<1>4. i \in DOMAIN D(d, f) /\ data[i] \in Bit /\ q[i] \in Bit
  <2>1. Len(D(d, f)) = Len(q) /\ AllBits(data) /\ AllBits(q)  BY <1>1 DEF Shifts
  <2> QED  BY <1>2, <1>3, <2>1, WordFacts DEF AllBits
<1>5. CASE data[i] \in Range(q)
  <2>1. data[i] \in Bits(q) /\ Feeds(d, data[i], f, i)  BY <1>2, <1>4, <1>5 DEF Bits
  <2> QED  BY <2>1
<1>6. CASE data[i] \notin Range(q)
  <2>1. i \in Entering(q, data)  BY <1>2, <1>4, <1>6 DEF Entering
  <2>2. Len(q) \in Nat  BY <1>3, WordFacts
  <2>3. PICK j \in Entering(q, data) : ReadOnce(d, q[j]) /\ Taking(data, q[j]) # {}
    BY <1>1, <2>2, ShiftMoves
  <2>4. i = j
    <3>1. Cardinality(Entering(q, data)) = 1  BY <1>1 DEF Shifts
    <3>2. IsFiniteSet(Entering(q, data))
      <4>1. Entering(q, data) \in SUBSET (1..Len(D(d, f)))
        BY <1>2, <1>3, WordFacts DEF Entering
      <4>2. IsFiniteSet(1..Len(D(d, f)))  BY <1>3, WordFacts, FS_Interval
      <4> QED  BY <4>1, <4>2, FS_Subset
    <3>3. PICK x : Entering(q, data) = {x}  BY <3>1, <3>2, FS_Singleton
    <3> QED  BY <2>1, <2>3, <3>3
  <2>5. PICK k \in DOMAIN D(d, f) : data[k] = q[i]
    BY <1>2, <2>3, <2>4 DEF Taking
  <2>6. Feeds(d, q[i], f, k)  BY <1>2, <1>4, <2>5
  <2>7. Cardinality(Readers(d, q[i])) = 1  BY <2>3, <2>4 DEF ReadOnce
  <2> QED  BY <2>5, <2>6, <2>7 DEF Settles
<1> QED  BY <1>5, <1>6

(***************************************************************************)
(* SilentIsContained: a one-bit crossing that neither CDC-001 nor CDC-014  *)
(* reports and nobody vouches for reaches nothing but the next register of *)
(* the clock, for every design.                                            *)
(***************************************************************************)
THEOREM SilenceContained == Spec => []SilentIsContained
<1>1. RunInv => SilentIsContained
  <2> SUFFICES ASSUME RunInv, Done, NEW c \in Single(crossings),
                      ~Told("CDC-001", c), ~Told("CDC-014", c), ~Vouched(design, c),
                      NEW i \in DOMAIN Q(design, c.dst)
               PROVE  \/ \E b \in Bits(Q(design, c.dst)) : Feeds(design, b, c.dst, i)
                      \/ Settles(design, c, Q(design, c.dst)[i])
    BY DEF SilentIsContained
  <2>1. IsDesign(design) /\ c \in CrossingsOf(design)
    BY DesignAssumption DEF RunInv, GivenInv, Single
  <2>2. c.dst \in Flops(design)  BY <2>1, CrossingEnds
  <2>3. ~(Depth(design, c) < 2)
    BY ToldRules DEF Vouched, Moving, Unvouched, Typed, Single
  <2>4. CASE PackedDepth(design, c.dst) > 0
    BY <2>1, <2>2, <2>4, PackedContained
  <2>5. CASE ~(PackedDepth(design, c.dst) > 0)
    <3> DEFINE q == Q(design, c.dst)
    <3>1. ~(Len(Chain(design, c.dst, c.dstClock)) < 2)
      BY <2>3, <2>5 DEF Depth, ChainDepth
    <3>2. /\ Len(q) = 1 /\ q[1] \in Bit /\ ReadOnce(design, q[1])
          /\ \E g \in Flops(design) : ClockOf(design, g) = c.dstClock /\ g = Sampler(design, q[1])
      BY <2>1, <2>2, <3>1, ChainMoves
    <3>3. PICK g \in Flops(design) : ClockOf(design, g) = c.dstClock /\ g = Sampler(design, q[1])
      BY <3>2
    <3>4. \E k \in DOMAIN D(design, g) : Feeds(design, q[1], g, k)
      BY <2>1, <3>2, <3>3, SamplerTakes
    <3>5. i = 1
      <4>1. q \in Word  BY <2>1, <2>2, FlopWords
      <4> QED  BY <3>2, <4>1, WordFacts
    <3> QED  BY <3>2, <3>3, <3>4, <3>5 DEF Settles, ReadOnce
  <2> QED  BY <2>4, <2>5
<1> QED  BY <1>1, RunInvariant, PTL
------------------------------------------------------------------------------
(* Reset synchronizers.                                                    *)

(* The names of cells, registers and latches are apart, so a register      *)
(* recorded for a bit has the bit in its Q.                                *)
LEMMA RecordedDrives ==
    ASSUME NEW d, IsDesign(d), NEW b, LastOf(DriversOf(d, b)) \in Flops(d)
    PROVE  b \in Range(Q(d, LastOf(DriversOf(d, b))))
<1>1. DriversOf(d, b) \in SUBSET Sites(d)
  BY DEF DriversOf, CellDriving, StateDriving, Sites
<1>2. LastOf(DriversOf(d, b)) \in DriversOf(d, b)  BY <1>1, NamesAreNumbers
<1> QED  BY <1>2 DEF DriversOf, CellDriving, StateDriving, IsDesign

(* Every stage the walk keeps is reset, and ends in a constant or has a    *)
(* stage before it.                                                        *)
LEMMA StageFed ==
    ASSUME NEW d, IsDesign(d), NEW t \in Flops(d), ResetType(d, t) # "none",
           NEW f \in Range(ResetChain(d, t))
    PROVE  /\ f \in Flops(d) /\ ResetType(d, f) # "none"
           /\ ConstantFed(d, f) \/ FedBy(d, f) # None
<1> DEFINE n == WalkLength
           S == {c \in Seq(Flops(d)) :
                    /\ Len(c) >= 1 /\ \A i \in 1..(Len(c) - 1) : FedBy(d, c[i]) # None
                    /\ \A i \in 1..Len(c) : ResetType(d, c[i]) # "none"}
           next(c) == IF ConstantFed(d, c[Len(c)]) \/ FedBy(d, c[Len(c)]) = None THEN c
                      ELSE Append(c, FedBy(d, c[Len(c)]))
           step == [c \in S |-> next(c)]
           walk[k \in 1..n] ==
               IF k = 1 THEN <<t>>
               ELSE LET c == walk[k - 1]
                        g == FedBy(d, c[Len(c)])
                    IN  IF ConstantFed(d, c[Len(c)]) \/ g = None THEN c ELSE Append(c, g)
<1>1. n \in Nat /\ n >= 1  BY StageAssumption DEF WalkLength
<1>2. \A g : FedBy(d, g) # None =>
                FedBy(d, g) \in Flops(d) /\ ResetType(d, FedBy(d, g)) # "none"
  <2> SUFFICES ASSUME NEW g, FedBy(d, g) # None
               PROVE  FedBy(d, g) \in Flops(d) /\ ResetType(d, FedBy(d, g)) # "none"
    OBVIOUS
  <2> QED  BY DEF FedBy
<1>3. step \in [S -> S]
  <2> SUFFICES ASSUME NEW c \in S PROVE next(c) \in S
    OBVIOUS
  <2>1. CASE ConstantFed(d, c[Len(c)]) \/ FedBy(d, c[Len(c)]) = None  BY <2>1
  <2>2. CASE ~(ConstantFed(d, c[Len(c)]) \/ FedBy(d, c[Len(c)]) = None)
    <3> DEFINE g == FedBy(d, c[Len(c)])
    <3>1. g \in Flops(d) /\ g # None /\ ResetType(d, g) # "none"  BY <1>2, <2>2
    <3>2. next(c) = Append(c, g)  BY <2>2
    <3>3. c \in Seq(Flops(d)) /\ Len(c) \in Nat /\ Len(c) >= 1  OBVIOUS
    <3>4. \A i \in 1..Len(c) : FedBy(d, c[i]) # None
      <4> SUFFICES ASSUME NEW i \in 1..Len(c) PROVE FedBy(d, c[i]) # None
        OBVIOUS
      <4>1. CASE i = Len(c)  BY <3>1, <4>1
      <4>2. CASE i # Len(c)
        <5>1. i \in 1..(Len(c) - 1)  BY <3>3, <4>2
        <5> QED  BY <5>1
      <4> QED  BY <4>1, <4>2
    <3> HIDE DEF g
    <3>5. /\ Append(c, g) \in Seq(Flops(d)) /\ Len(Append(c, g)) = Len(c) + 1
          /\ \A i \in 1..Len(c) : Append(c, g)[i] = c[i]
          /\ Append(c, g)[Len(c) + 1] = g
      BY <3>1, <3>3
    <3>6. \A i \in 1..(Len(Append(c, g)) - 1) : FedBy(d, Append(c, g)[i]) # None
      <4>1. Len(Append(c, g)) - 1 = Len(c)  BY <3>3, <3>5
      <4> QED  BY <3>4, <3>5, <4>1
    <3>7. Len(Append(c, g)) >= 1  BY <3>3, <3>5
    <3>8. \A i \in 1..Len(Append(c, g)) : ResetType(d, Append(c, g)[i]) # "none"
      <4>1. \A i \in 1..Len(c) : ResetType(d, c[i]) # "none"  OBVIOUS
      <4>2. \A i \in 1..(Len(c) + 1) : i \in 1..Len(c) \/ i = Len(c) + 1  BY <3>3
      <4> QED  BY <3>1, <3>5, <4>1, <4>2
    <3> QED  BY <3>2, <3>5, <3>6, <3>7, <3>8
  <2> QED  BY <2>1, <2>2
<1>4. <<t>> \in S  OBVIOUS
<1>5. PICK h \in [1..n -> S] : h = [k \in 1..n |-> IF k = 1 THEN <<t>> ELSE step[h[k - 1]]]
  <2>1. 1 \in Nat  OBVIOUS
  <2> HIDE DEF step, S, n
  <2>2. \E h \in [1..n -> S] : Recurs(h, <<t>>, step, 1, n)
    BY <1>1, <1>3, <1>4, <2>1, RecursionExists
  <2> QED  BY <2>2 DEF Recurs
<1>6. h = [k \in 1..n |-> IF k = 1 THEN <<t>> ELSE next(h[k - 1])]
  <2>1. \A k \in 1..n : k # 1 => step[h[k - 1]] = next(h[k - 1])
    <3> SUFFICES ASSUME NEW k \in 1..n, k # 1 PROVE step[h[k - 1]] = next(h[k - 1])
      OBVIOUS
    <3>1. k - 1 \in 1..n  BY <1>1
    <3>2. h[k - 1] \in S  BY <3>1
    <3> HIDE DEF next, S
    <3> QED  BY <3>2
  <2> HIDE DEF step, next
  <2> QED  BY <1>5, <2>1
<1>7. walk = [k \in 1..n |-> IF k = 1 THEN <<t>> ELSE next(walk[k - 1])]
  BY <1>6
<1>8. ResetChain(d, t) = IF ConstantFed(d, walk[n][Len(walk[n])]) THEN walk[n] ELSE <<>>
  BY DEF ResetChain
<1> HIDE DEF walk, next
<1>9. walk[n] \in S
  <2> DEFINE bad == {k \in 1..n : walk[k] # h[k]}
  <2>1. bad = {}
    <3> SUFFICES ASSUME bad # {} PROVE FALSE
      OBVIOUS
    <3>1. PICK k \in bad : \A i \in bad : k <= i
      <4>1. bad \in SUBSET Nat  OBVIOUS
      <4> QED  BY <4>1, LeastNat
    <3>2. k # 1  BY <1>6, <1>7, <3>1
    <3>3. k - 1 \in 1..n /\ ~(k <= k - 1)  BY <1>1, <3>2
    <3>4. walk[k - 1] = h[k - 1]  BY <3>1, <3>3
    <3>5. walk[k] = next(walk[k - 1]) /\ h[k] = next(h[k - 1])  BY <1>6, <1>7, <3>2
    <3> QED  BY <3>4, <3>5
  <2>2. n \in 1..n  BY <1>1
  <2>3. walk[n] = h[n]  BY <2>1, <2>2
  <2> HIDE DEF S
  <2> QED  BY <2>2, <2>3
<1>10. PICK i \in 1..Len(walk[n]) : f = walk[n][i] /\ ConstantFed(d, walk[n][Len(walk[n])])
  <2>1. ResetChain(d, t) = walk[n] /\ ConstantFed(d, walk[n][Len(walk[n])])
    <3>1. Range(<<>>) = {}  BY DEF Range
    <3> QED  BY <1>8, <3>1
  <2>2. DOMAIN walk[n] = 1..Len(walk[n])  BY <1>9
  <2> QED  BY <2>1, <2>2 DEF Range
<1>11. f \in Flops(d) /\ ResetType(d, f) # "none"  BY <1>9, <1>10
<1>12. i = Len(walk[n]) \/ i \in 1..(Len(walk[n]) - 1)  BY <1>9, <1>10
<1> QED  BY <1>9, <1>10, <1>11, <1>12

(* The walk from the last register of a chain it has room for goes through *)
(* the whole chain.                                                        *)
LEMMA ChainRecognised ==
    ASSUME NEW d, IsDesign(d), NEW k \in 1..WalkLength, NEW c \in [1..k -> InReset(d)],
           StageChain(d, c)
    PROVE  Len(ResetChain(d, c[k])) = k /\ Range(ResetChain(d, c[k])) = Range(c)
<1> DEFINE n == WalkLength
           walk[j \in 1..n] ==
               IF j = 1 THEN <<c[k]>>
               ELSE LET w == walk[j - 1]
                        g == FedBy(d, w[Len(w)])
                    IN  IF ConstantFed(d, w[Len(w)]) \/ g = None THEN w ELSE Append(w, g)
           back(j) == [i \in 1..j |-> c[k + 1 - i]]
<1>1. n \in Nat /\ n >= 1 /\ k \in Nat /\ k >= 1 /\ k <= n
  BY StageAssumption DEF WalkLength
<1>2. ASSUME NEW i \in 2..k
      PROVE  FedBy(d, c[i]) = c[i - 1] /\ ~ConstantFed(d, c[i]) /\ c[i - 1] # None
  <2>1. i \in 1..k /\ i - 1 \in 1..k /\ i # 1  BY <1>1
  <2>2. SoleFeed(d, c[i - 1], c[i])  BY <2>1 DEF StageChain
  <2>3. c[i - 1] \in InReset(d)  BY <2>1
  <2>4. c[i - 1] \in Flops(d) /\ ResetType(d, c[i - 1]) # "none" /\ Clocked(d, c[i - 1])
    BY <2>3 DEF InReset
  <2>5. LastOf(DriversOf(d, D(d, c[i])[1])) = c[i - 1]
    <3>1. {c[i - 1]} \in SUBSET Sites(d)  BY <2>4 DEF Sites
    <3>2. Max({c[i - 1]}) \in {c[i - 1]}  BY <3>1, NamesAreNumbers
    <3> QED  BY <2>2, <3>2 DEF SoleFeed, LastOf
  <2>6. c[i - 1] # None  BY <2>4, NamesAreNumbers
  <2> QED  BY <2>2, <2>4, <2>5, <2>6 DEF SoleFeed, FedBy, ConstantFed
<1>3. ASSUME NEW j \in 1..k
      PROVE  /\ back(j) \in Seq(Flops(d)) /\ Len(back(j)) = j
             /\ \A i \in 1..j : back(j)[i] = c[k + 1 - i]
  <2>1. \A i \in 1..j : k + 1 - i \in 1..k  BY <1>1
  <2>2. \A i \in 1..k : c[i] \in Flops(d)  BY DEF InReset
  <2> QED  BY <2>1, <2>2
<1> DEFINE next(w) == IF ConstantFed(d, w[Len(w)]) \/ FedBy(d, w[Len(w)]) = None THEN w
                      ELSE Append(w, FedBy(d, w[Len(w)]))
<1>4. back(1) = <<c[k]>>
  <2>1. c[k + 1 - 1] = c[k] /\ 1..1 = {1}  BY <1>1
  <2> QED  BY <2>1
<1>5. ASSUME NEW j \in 1..k, j < k PROVE next(back(j)) = back(j + 1)
  <2>1. k + 1 - j \in 2..k /\ (k + 1 - j) - 1 = k - j /\ j + 1 \in 1..k /\ j \in Nat
    BY <1>1, <1>5
  <2>2. back(j)[Len(back(j))] = c[k + 1 - j]  BY <1>3
  <2>3. /\ FedBy(d, c[k + 1 - j]) = c[k - j] /\ ~ConstantFed(d, c[k + 1 - j])
        /\ c[k - j] # None
    BY <1>2, <2>1
  <2> HIDE DEF back
  <2>4. next(back(j)) = Append(back(j), c[k - j])  BY <2>2, <2>3
  <2>5. Append(back(j), c[k - j]) = back(j + 1)
    <3>1. /\ back(j) \in Seq(Flops(d)) /\ Len(back(j)) = j
          /\ \A i \in 1..j : back(j)[i] = c[k + 1 - i]
      BY <1>3
    <3>2. /\ back(j + 1) \in Seq(Flops(d)) /\ Len(back(j + 1)) = j + 1
          /\ \A i \in 1..(j + 1) : back(j + 1)[i] = c[k + 1 - i]
      BY <1>3, <2>1
    <3>3. k + 1 - (j + 1) = k - j  BY <1>1, <2>1
    <3>4. c[k - j] \in Flops(d)
      <4>1. k - j \in 1..k  BY <1>1, <2>1
      <4> QED  BY <4>1 DEF InReset
    <3>5. /\ Append(back(j), c[k - j]) \in Seq(Flops(d))
          /\ Len(Append(back(j), c[k - j])) = j + 1
          /\ \A i \in 1..j : Append(back(j), c[k - j])[i] = back(j)[i]
          /\ Append(back(j), c[k - j])[j + 1] = c[k - j]
      BY <2>1, <3>1, <3>4
    <3>6. \A i \in 1..(j + 1) : Append(back(j), c[k - j])[i] = back(j + 1)[i]
      <4>1. \A i \in 1..(j + 1) : i \in 1..j \/ i = j + 1  BY <2>1
      <4> QED  BY <3>1, <3>2, <3>3, <3>5, <4>1
    <3>7. DOMAIN Append(back(j), c[k - j]) = 1..(j + 1) /\ DOMAIN back(j + 1) = 1..(j + 1)
      BY <3>2, <3>5
    <3>8. \A v, w \in Seq(Flops(d)) :
             Len(v) = j + 1 /\ Len(w) = j + 1 /\ (\A i \in 1..(j + 1) : v[i] = w[i]) => v = w
      BY <2>1
    <3> QED  BY <3>2, <3>5, <3>6, <3>8
  <2> QED  BY <2>4, <2>5
<1>6. next(back(k)) = back(k)
  <2>1. back(k)[Len(back(k))] = c[1]
    <3>1. k \in 1..k /\ k + 1 - k = 1  BY <1>1
    <3> HIDE DEF back
    <3> QED  BY <1>3, <3>1
  <2>2. ConstantFed(d, c[1])  BY DEF StageChain
  <2> HIDE DEF back
  <2> QED  BY <2>1, <2>2
<1> DEFINE at(j) == IF j <= k THEN j ELSE k
           h == [j \in 1..n |-> back(at(j))]
<1>7. ASSUME NEW j \in 1..n
      PROVE  h[j] = IF j = 1 THEN <<c[k]>> ELSE next(h[j - 1])
  <2> HIDE DEF back, next
  <2>1. CASE j = 1
    <3>1. at(1) = 1  BY <1>1
    <3> QED  BY <1>4, <2>1, <3>1
  <2>2. CASE j # 1
    <3>1. j - 1 \in 1..n /\ j \in Nat  BY <1>1, <2>2
    <3>2. CASE j <= k
      <4>1. j - 1 \in 1..k /\ j - 1 < k /\ (j - 1) + 1 = j /\ at(j) = j /\ at(j - 1) = j - 1
        BY <1>1, <2>2, <3>1, <3>2
      <4> HIDE DEF at
      <4>2. next(back(j - 1)) = back((j - 1) + 1)  BY <1>5, <4>1
      <4> QED  BY <2>2, <3>1, <4>1, <4>2
    <3>3. CASE ~(j <= k)
      <4>1. at(j) = k /\ at(j - 1) = k  BY <1>1, <3>1, <3>3
      <4> HIDE DEF at
      <4> QED  BY <1>6, <2>2, <3>1, <4>1
    <3> QED  BY <3>2, <3>3
  <2> QED  BY <2>1, <2>2
<1>8. h = [j \in 1..n |-> IF j = 1 THEN <<c[k]>> ELSE next(h[j - 1])]
  <2> DEFINE r == [j \in 1..n |-> IF j = 1 THEN <<c[k]>> ELSE next(h[j - 1])]
  <2>1. h = [j \in 1..n |-> h[j]] /\ r = [j \in 1..n |-> r[j]]  OBVIOUS
  <2>2. \A j \in 1..n : r[j] = IF j = 1 THEN <<c[k]>> ELSE next(h[j - 1])
    BY Zenon
  <2> HIDE DEF h, r, next
  <2>3. \A j \in 1..n : h[j] = r[j]  BY <1>7, <2>2
  <2>4. h = r  BY <2>1, <2>3
  <2> QED  BY <2>4 DEF r
<1>9. walk = [j \in 1..n |-> IF j = 1 THEN <<c[k]>> ELSE next(walk[j - 1])]
  <2> HIDE DEF h
  <2> QED  BY <1>8
<1>10. ResetChain(d, c[k]) = IF ConstantFed(d, walk[n][Len(walk[n])]) THEN walk[n] ELSE <<>>
  BY DEF ResetChain
<1> HIDE DEF walk, next
<1>11. walk[n] = h[n]
  <2> DEFINE bad == {j \in 1..n : walk[j] # h[j]}
  <2> HIDE DEF h
  <2>1. bad = {}
    <3> SUFFICES ASSUME bad # {} PROVE FALSE
      OBVIOUS
    <3>1. PICK j \in bad : \A i \in bad : j <= i
      <4>1. bad \in SUBSET Nat  OBVIOUS
      <4> QED  BY <4>1, LeastNat
    <3>2. j # 1  BY <1>8, <1>9, <3>1
    <3>3. j - 1 \in 1..n /\ ~(j <= j - 1)  BY <1>1, <3>2
    <3>4. walk[j - 1] = h[j - 1]  BY <3>1, <3>3
    <3>5. walk[j] = next(walk[j - 1]) /\ h[j] = next(h[j - 1])  BY <1>8, <1>9, <3>2
    <3> QED  BY <3>4, <3>5
  <2>2. n \in 1..n  BY <1>1
  <2> QED  BY <2>1, <2>2
<1>12. walk[n] = back(k)
  <2>1. n \in 1..n /\ at(n) = k  BY <1>1
  <2> HIDE DEF at, back
  <2> QED  BY <1>11, <2>1
<1>13. /\ back(k) \in Seq(Flops(d)) /\ Len(back(k)) = k
       /\ \A i \in 1..k : back(k)[i] = c[k + 1 - i]
  <2>1. k \in 1..k  BY <1>1
  <2> HIDE DEF back
  <2> QED  BY <1>3, <2>1
<1>14. ConstantFed(d, back(k)[Len(back(k))])
  <2>1. k \in 1..k /\ k + 1 - k = 1  BY <1>1
  <2> HIDE DEF back
  <2>2. back(k)[k] = c[1]  BY <1>13, <2>1
  <2> QED  BY <1>13, <2>2 DEF StageChain
<1> HIDE DEF back
<1>15. ResetChain(d, c[k]) = back(k)  BY <1>10, <1>12, <1>14
<1>16. Range(back(k)) = Range(c)
  <2>1. DOMAIN back(k) = 1..k /\ DOMAIN c = 1..k  BY <1>13
  <2>2. \A i \in 1..k : k + 1 - i \in 1..k /\ k + 1 - (k + 1 - i) = i  BY <1>1
  <2>3. \A i \in 1..k : back(k)[i] = c[k + 1 - i] /\ c[i] = back(k)[k + 1 - i]
    BY <1>13, <2>2
  <2> QED  BY <2>1, <2>2, <2>3 DEF Range
<1> QED  BY <1>13, <1>15, <1>16

(* No two bits of one register or latch reset registers: the code names a  *)
(* reset by the register that drives it, whichever bit of it is used.      *)
ResetIsOneBit(d) ==
    \A f, g \in {h \in Flops(d) : ResetType(d, h) # "none"} :
        StateDriving(d, ResetPin(d, f)[1]) \cap StateDriving(d, ResetPin(d, g)[1]) # {} =>
            ResetPin(d, f)[1] = ResetPin(d, g)[1]

LEMMA SameResetHeld ==
    ASSUME NEW d, IsDesign(d), ResetIsOneBit(d), NEW f \in Flops(d), NEW g \in Flops(d),
           ResetType(d, f) # "none", ResetType(d, g) # "none",
           ResetSource(d, f) = ResetSource(d, g), ResetSource(d, f).kind # "comb"
    PROVE  LET a == ResetPin(d, f)[1]
               b == ResetPin(d, g)[1]
           IN  a = b \/ \E p \in DOMAIN d.ports : {a, b} \subseteq d.ports[p].bits
<1> DEFINE a == ResetPin(d, f)[1]
           b == ResetPin(d, g)[1]
<1>1. Source(d, a) = Source(d, b) /\ Source(d, a).kind # "comb"  BY DEF ResetSource
<1>2. \A w : /\ PortDriving(d, w) \in SUBSET DOMAIN d.ports
             /\ StateDriving(d, w) \in SUBSET Sites(d)
  BY DEF PortDriving, StateDriving, Sites
<1>3. \A w : /\ PortDriving(d, w) # {} => Min(PortDriving(d, w)) \in PortDriving(d, w)
             /\ StateDriving(d, w) # {} => Max(StateDriving(d, w)) \in StateDriving(d, w)
  BY <1>2, NamesAreNumbers
<1>4. ASSUME NEW w
      PROVE  /\ Source(d, w).kind = "constant" => Source(d, w).name = w
             /\ Source(d, w).kind = "port" =>
                   PortDriving(d, w) # {} /\ Source(d, w).name = Min(PortDriving(d, w))
             /\ Source(d, w).kind = "inferred" =>
                   StateDriving(d, w) # {} /\ Source(d, w).name = Max(StateDriving(d, w))
             /\ Source(d, w).kind \in {"constant", "port", "inferred", "comb"}
  <2>1. CASE w \notin Bit
    <3>1. Source(d, w) = [name |-> w, kind |-> "constant"]  BY <2>1 DEF Source
    <3> QED  BY <3>1
  <2>2. CASE w \in Bit /\ PortDriving(d, w) # {}
    <3>1. Source(d, w) = [name |-> Min(PortDriving(d, w)), kind |-> "port"]  BY <2>2 DEF Source
    <3> QED  BY <2>2, <3>1
  <2>3. CASE w \in Bit /\ PortDriving(d, w) = {} /\ StateDriving(d, w) # {}
    <3>1. Source(d, w) = [name |-> Max(StateDriving(d, w)), kind |-> "inferred"]
      BY <2>3 DEF Source
    <3> QED  BY <2>3, <3>1
  <2>4. CASE w \in Bit /\ PortDriving(d, w) = {} /\ StateDriving(d, w) = {}
    <3>1. Source(d, w) = [name |-> None, kind |-> "comb"]  BY <2>4 DEF Source
    <3> QED  BY <3>1
  <2> QED  BY <2>1, <2>2, <2>3, <2>4
<1>5. Source(d, a).name = Source(d, b).name /\ Source(d, a).kind = Source(d, b).kind
  BY <1>1
<1> HIDE DEF a, b
<1>6. CASE Source(d, a).kind = "constant"
  <2>1. Source(d, a).name = a /\ Source(d, b).name = b  BY <1>4, <1>5, <1>6
  <2> QED  BY <1>5, <2>1 DEF a, b
<1>7. CASE Source(d, a).kind = "port"
  <2>1. /\ PortDriving(d, a) # {} /\ Source(d, a).name = Min(PortDriving(d, a))
        /\ PortDriving(d, b) # {} /\ Source(d, b).name = Min(PortDriving(d, b))
    BY <1>4, <1>5, <1>7
  <2>2. Min(PortDriving(d, a)) \in PortDriving(d, a) \cap PortDriving(d, b)
    BY <1>3, <1>5, <2>1
  <2> QED  BY <2>2 DEF PortDriving, a, b
<1>8. CASE Source(d, a).kind = "inferred"
  <2>1. /\ StateDriving(d, a) # {} /\ Source(d, a).name = Max(StateDriving(d, a))
        /\ StateDriving(d, b) # {} /\ Source(d, b).name = Max(StateDriving(d, b))
    BY <1>4, <1>5, <1>8
  <2>2. StateDriving(d, a) \cap StateDriving(d, b) # {}
    BY <1>3, <1>5, <2>1
  <2>3. a = b  BY <2>2 DEF ResetIsOneBit, a, b
  <2> QED  BY <2>3 DEF a, b
<1>9. Source(d, a).kind \in {"constant", "port", "inferred"}
  BY <1>1, <1>4 DEF a
<1> QED  BY <1>6, <1>7, <1>8, <1>9

(***************************************************************************)
(* QuietOnRelease: a register the analyzer takes for a stage of a reset    *)
(* synchronizer is fed by a constant or by a register of the same clock    *)
(* that the same reset holds, for every design in which no two bits of one *)
(* register are resets.                                                    *)
(***************************************************************************)
THEOREM SynchronizersAreQuiet ==
    ASSUME \A d \in Design : ResetIsOneBit(d)
    PROVE  Spec => []QuietOnRelease
<1>1. RunInv => QuietOnRelease
  <2> SUFFICES ASSUME RunInv, NEW f \in ResetSyncs(design) \ UserResetSyncs(design),
                      ResetSource(design, f).kind # "comb"
               PROVE  /\ Len(D(design, f)) = 1
                      /\ \/ D(design, f)[1] \notin Bit
                         \/ \E g \in Flops(design) : /\ D(design, f)[1] \in Range(Q(design, g))
                                                     /\ HeldAlike(design, f, g)
    BY DEF QuietOnRelease
  <2>1. IsDesign(design) /\ ResetIsOneBit(design)
    BY DesignAssumption DEF RunInv, GivenInv
  <2>2. PICK t \in ChainTails(design) : f \in Range(ResetChain(design, t))
    BY DEF ResetSyncs
  <2>3. t \in Flops(design) /\ ResetType(design, t) # "none"  BY DEF ChainTails
  <2>4. /\ f \in Flops(design) /\ ResetType(design, f) # "none"
        /\ ConstantFed(design, f) \/ FedBy(design, f) # None
    BY <2>1, <2>2, <2>3, StageFed
  <2>5. CASE ConstantFed(design, f)  BY <2>5 DEF ConstantFed
  <2>6. CASE FedBy(design, f) # None
    <3> DEFINE g == FedBy(design, f)
    <3>1. /\ Len(D(design, f)) = 1
          /\ g = LastOf(DriversOf(design, D(design, f)[1])) /\ g \in Flops(design) /\ g # None
          /\ ResetType(design, g) # "none" /\ ClockOf(design, g) = ClockOf(design, f)
          /\ ResetSource(design, g) = ResetSource(design, f)
      BY <2>6 DEF FedBy
    <3> HIDE DEF g
    <3>2. D(design, f)[1] \in Range(Q(design, g))  BY <2>1, <3>1, RecordedDrives
    <3>3. \/ ResetPin(design, f)[1] = ResetPin(design, g)[1]
          \/ \E p \in DOMAIN design.ports :
                {ResetPin(design, f)[1], ResetPin(design, g)[1]} \subseteq design.ports[p].bits
      BY <2>1, <2>4, <3>1, SameResetHeld
    <3> QED  BY <3>1, <3>2, <3>3 DEF HeldAlike
  <2> QED  BY <2>4, <2>5, <2>6
<1> QED  BY <1>1, RunInvariant, PTL

(***************************************************************************)
(* StagesExcused: every chain of MinStages to WalkLength registers that    *)
(* the release of one reset walks through is excused whole, for every      *)
(* design, however the chain goes on.                                      *)
(***************************************************************************)
THEOREM ChainsAreExcused == Spec => []StagesExcused
<1>1. RunInv => StagesExcused
  <2> SUFFICES ASSUME RunInv, NEW k \in MinStages..(MinStages + ExtraStages),
                      NEW c \in [1..k -> InReset(design)], StageChain(design, c),
                      ResetType(design, c[k]) = "async"
               PROVE  Range(c) \subseteq ResetSyncs(design)
    BY DEF StagesExcused
  <2>1. IsDesign(design)  BY DesignAssumption DEF RunInv, GivenInv
  <2>2. k \in 1..WalkLength /\ k \in 1..k /\ k >= MinStages /\ MinStages \in Nat
    BY StageAssumption DEF WalkLength
  <2>3. Len(ResetChain(design, c[k])) = k /\ Range(ResetChain(design, c[k])) = Range(c)
    BY <2>1, <2>2, ChainRecognised
  <2>4. c[k] \in InReset(design)  BY <2>2
  <2>5. c[k] \in ChainTails(design)  BY <2>2, <2>3, <2>4 DEF ChainTails, InReset
  <2> QED  BY <2>3, <2>5 DEF ResetSyncs
<1> QED  BY <1>1, RunInvariant, PTL
------------------------------------------------------------------------------
(* The registers whose value or clock the clock rules look at.             *)
OnClockNetwork(d, f) ==
    \E x \in ClockNetwork(d) :
        f \in FaninFlops(d, Bits(Control(d, x))) \cup FaninFlops(d, GatedInputs(d, x))

(* The SDC does not confuse the clock rules: such a register carries the   *)
(* name of its root (no trace of theirs is declined), a name is not        *)
(* renamed again nor taken for no clock at all, and no clock is            *)
(* asynchronous to itself.                                                 *)
NamesAgree(d) ==
    /\ \A f \in Flops(d) :
          OnClockNetwork(d, f) => d.flops[f].clock = Named(d, d.flops[f].root)
    /\ NoClock \notin DOMAIN d.named
    /\ \A r \in DOMAIN d.named : d.named[r] # NoClock /\ d.named[r] \notin DOMAIN d.named
    /\ \A x : {x} \notin d.async

LEMMA NamingKeeps ==
    ASSUME NEW d, NamesAgree(d)
    PROVE  /\ \A x : Named(d, Named(d, x)) = Named(d, x)
           /\ \A x : Named(d, x) = NoClock <=> x = NoClock
           /\ \A x, y : Async(d, x, y) => Named(d, x) # Named(d, y) /\ x # y
<1>1. \A x : Named(d, Named(d, x)) = Named(d, x)
  BY DEF NamesAgree, Named
<1>2. \A x : Named(d, x) = NoClock <=> x = NoClock
  BY DEF NamesAgree, Named
<1>3. ASSUME NEW x, NEW y, Async(d, x, y)
      PROVE  Named(d, x) # Named(d, y) /\ x # y
  <2>1. {Named(d, x), Named(d, y)} \in d.async  BY <1>3 DEF Async
  <2>2. Named(d, x) # Named(d, y)
    <3> SUFFICES ASSUME Named(d, x) = Named(d, y) PROVE FALSE
      OBVIOUS
    <3>1. {Named(d, x), Named(d, y)} = {Named(d, x)}  OBVIOUS
    <3> QED  BY <2>1, <3>1 DEF NamesAgree
  <2> QED  BY <2>2
<1> QED  BY <1>1, <1>2, <1>3

LEMMA SteeringAgrees ==
    ASSUME NEW d, NamesAgree(d), NEW x \in ClockNetwork(d)
    PROVE  Steering(d, x, Clocks(d)) = Steering(d, x, Roots(d))
<1> DEFINE gated == FaninFlops(d, GatedInputs(d, x)) \cap Flops(d)
           given == {d.ports[p].clock :
                        p \in {q \in FaninPorts(d, GatedInputs(d, x)) : d.ports[q].isClock}}
           roots == {Roots(d)[f] : f \in gated} \ {NoClock}
           clocks == {Clocks(d)[f] : f \in gated} \ {NoClock}
<1>1. GatedClocks(d, x, Roots(d)) = roots \cup given
  BY Zenon DEF GatedClocks
<1>2. GatedClocks(d, x, Clocks(d)) = clocks \cup given
  BY Zenon DEF GatedClocks
<1> DEFINE steers == FaninFlops(d, Bits(Control(d, x))) \cap Flops(d)
<1>3. \A f \in gated \cup steers : Clocks(d)[f] = Named(d, Roots(d)[f])
  BY DEF Clocks, Roots, ClockOf, NamesAgree, OnClockNetwork
<1>4. \A c \in clocks : \E r \in roots : c = Named(d, r)
  BY <1>3, NamingKeeps
<1>5. \A r \in roots : Named(d, r) \in clocks
  BY <1>3, NamingKeeps
<1> HIDE DEF gated, given, roots, clocks, steers
<1>6. ASSUME NEW f \in steers
      PROVE  (/\ Clocks(d)[f] # NoClock
              /\ clocks \cup given # {}
              /\ \A c \in clocks \cup given :
                    c # Clocks(d)[f] /\ Async(d, Clocks(d)[f], c)) <=>
             (/\ Roots(d)[f] # NoClock
              /\ roots \cup given # {}
              /\ \A c \in roots \cup given :
                    c # Roots(d)[f] /\ Async(d, Roots(d)[f], c))
  <2>1. Clocks(d)[f] = Named(d, Roots(d)[f])  BY <1>3
  <2>2. \A c : Async(d, Clocks(d)[f], c) <=> Async(d, Roots(d)[f], c)
    BY <2>1, NamingKeeps DEF Async
  <2>3. \A c : Async(d, Roots(d)[f], Named(d, c)) <=> Async(d, Roots(d)[f], c)
    BY NamingKeeps DEF Async
  <2>4. \A c : Async(d, Clocks(d)[f], c) => c # Clocks(d)[f]
    BY NamingKeeps
  <2>5. \A c : Async(d, Roots(d)[f], c) => c # Roots(d)[f]
    BY NamingKeeps
  <2>6. Clocks(d)[f] = NoClock <=> Roots(d)[f] = NoClock
    BY <2>1, NamingKeeps
  <2>7. clocks \cup given = {} <=> roots \cup given = {}
    BY <1>4, <1>5
  <2>8. (\A c \in clocks \cup given : Async(d, Clocks(d)[f], c)) <=>
        (\A c \in roots \cup given : Async(d, Roots(d)[f], c))
    BY <1>4, <1>5, <2>2, <2>3
  <2> QED  BY <2>4, <2>5, <2>6, <2>7, <2>8
<1>7. Steering(d, x, Clocks(d)) =
        {f \in steers : /\ Clocks(d)[f] # NoClock
                        /\ clocks \cup given # {}
                        /\ \A c \in clocks \cup given :
                              c # Clocks(d)[f] /\ Async(d, Clocks(d)[f], c)}
  BY <1>2, Zenon DEF Steering, steers
<1>8. Steering(d, x, Roots(d)) =
        {f \in steers : /\ Roots(d)[f] # NoClock
                        /\ roots \cup given # {}
                        /\ \A c \in roots \cup given :
                              c # Roots(d)[f] /\ Async(d, Roots(d)[f], c)}
  BY <1>1, Zenon DEF Steering, steers
<1> QED  BY <1>6, <1>7, <1>8

(***************************************************************************)
(* ClockViewMatchesLint: the clock-network view, which reads the clocks of *)
(* the registers, and CDC-010, which reads their roots, name the same      *)
(* registers, for every design in which the SDC's names do not confuse the *)
(* clock rules.                                                            *)
(***************************************************************************)
THEOREM ViewAgrees ==
    ASSUME \A d \in Design : NamesAgree(d)
    PROVE  Spec => []ClockViewMatchesLint
<1>1. RunInv => ClockViewMatchesLint
  <2> SUFFICES ASSUME RunInv, Done PROVE ClockViewMatchesLint
    BY DEF ClockViewMatchesLint
  <2>1. NamesAgree(design)  BY DEF RunInv, GivenInv
  <2>2. 17 \in (DOMAIN RULES) \ {HoldRule} /\ RULES[17] = "CDC-010"
        /\ Verdict(RULES[17], design, crossings) = CDC010(design)
    BY VerdictsOf
  <2>3. \A r, k, y, s : Grouped(r, k, y, s).key = k /\ Grouped(r, k, y, s).cell = y
    BY DEF Grouped
  <2>4. ASSUME NEW x \in ClockCrossings(design), x.synchronizer = None
        PROVE  \E f \in Grouping("CDC-010", <<x.src>>) : f.cell = x.cell
    <3>1. PICK y \in ClockNetwork(design) :
             \E p \in Steering(design, y, Clocks(design)) \X ClockedThrough(design, y) :
                x = [src |-> p[1], dst |-> p[2], cell |-> y,
                     kind |-> IF y \in DOMAIN design.cells /\ design.cells[y].type = "mux"
                              THEN "mux-select" ELSE "gate-enable",
                     synchronizer |-> IF Glitchless(design, y) THEN "glitchless" ELSE None]
      BY DEF ClockCrossings
    <3>2. x.cell = y /\ x.src \in Steering(design, y, Clocks(design))
      BY <3>1
    <3>3. ~Glitchless(design, y)
      <4>1. x.synchronizer = IF Glitchless(design, y) THEN "glitchless" ELSE None  BY <3>1
      <4> QED  BY <2>4, <4>1, NoneAssumption
    <3>4. x.src \in Steering(design, y, Roots(design))
      BY <2>1, <3>2, SteeringAgrees
    <3>5. Grouped("CDC-010", <<x.src>>, y, "error") \in CDC010(design)
      BY <3>3, <3>4 DEF CDC010
    <3>6. \E g \in Grouping("CDC-010", Grouped("CDC-010", <<x.src>>, y, "error").key) :
             g.cell = Grouped("CDC-010", <<x.src>>, y, "error").cell
      BY <2>2, <3>5, GroupedBy
    <3> QED  BY <2>3, <3>2, <3>6
  <2>5. ASSUME NEW f \in findings, f.rule = "CDC-010",
               ClockedThrough(design, f.cell) \ Range(f.key) # {}
        PROVE  \E x \in ClockCrossings(design) :
                  x.cell = f.cell /\ <<x.src>> = f.key /\ x.synchronizer = None
    <3>1. PICK v \in CDC010(design) : Body(f) = Body(v)
      BY <2>2, <2>5, AllSaid
    <3>2. f.key = v.key /\ f.cell = v.cell  BY <3>1 DEF Body
    <3>3. PICK y \in {z \in ClockNetwork(design) : ~Glitchless(design, z)} :
             \E h \in Steering(design, y, Roots(design)) :
                v = Grouped("CDC-010", <<h>>, y, "error")
      BY DEF CDC010
    <3>4. PICK h \in Steering(design, y, Roots(design)) : v = Grouped("CDC-010", <<h>>, y, "error")
      BY <3>3
    <3>5. f.key = <<h>> /\ f.cell = y  BY <2>3, <3>2, <3>4
    <3>6. PICK g \in ClockedThrough(design, y) : g # h
      <4>1. Range(<<h>>) = {h}  BY DEF Range
      <4> QED  BY <2>5, <3>5, <4>1
    <3>7. h \in Steering(design, y, Clocks(design))  BY <2>1, SteeringAgrees
    <3> DEFINE x == [src |-> h, dst |-> g, cell |-> y,
                     kind |-> IF y \in DOMAIN design.cells /\ design.cells[y].type = "mux"
                              THEN "mux-select" ELSE "gate-enable",
                     synchronizer |-> IF Glitchless(design, y) THEN "glitchless" ELSE None]
    <3>8. x \in ClockCrossings(design)
      <4>1. <<h, g>> \in {q \in Steering(design, y, Clocks(design)) \X ClockedThrough(design, y) :
                             q[1] # q[2]}
        BY <3>6, <3>7
      <4>2. <<h, g>>[1] = h /\ <<h, g>>[2] = g  OBVIOUS
      <4>3. PICK q \in {r \in Steering(design, y, Clocks(design)) \X ClockedThrough(design, y) :
                           r[1] # r[2]} : q[1] = h /\ q[2] = g
        BY <4>1, <4>2
      <4>4. x = [src |-> q[1], dst |-> q[2], cell |-> y,
                 kind |-> IF y \in DOMAIN design.cells /\ design.cells[y].type = "mux"
                          THEN "mux-select" ELSE "gate-enable",
                 synchronizer |-> IF Glitchless(design, y) THEN "glitchless" ELSE None]
        BY <4>3
      <4> HIDE DEF x
      <4> QED  BY <3>3, <4>4 DEF ClockCrossings
    <3> QED  BY <3>3, <3>5, <3>8
  <2> QED  BY <2>4, <2>5 DEF ClockViewMatchesLint
<1> QED  BY <1>1, RunInvariant, PTL
------------------------------------------------------------------------------
(***************************************************************************)
(* UntypedPortTold: what the walk forward from the port finds and what the *)
(* cone of a register meets going back are the same.                       *)
(***************************************************************************)
LEMMA LaneSteps ==
    ASSUME NEW d, IsDesign(d)
    PROVE  /\ LaneStep(d) \in [Bit -> SUBSET Bit] /\ LaneFaninStep(d) \in [Bit -> SUBSET Bit]
           /\ \A x, y \in Bit : x \in LaneFaninStep(d)[y] <=> y \in LaneStep(d)[x]
<1> DEFINE ends(r) == IF LanePort(d.cells[r[1]], r[2]) THEN {d.cells[r[1]].pin["Y"][r[3]]} \cap Bit
                      ELSE CellOutputs(d, r[1])
<1>1. \A r : ends(r) \subseteq Bit  BY DEF CellOutputs, Bits
<1>2. LaneStep(d) = [b \in Bit |-> UNION {ends(r) : r \in CellReaders(d, b)}]  BY DEF LaneStep
<1>3. LaneStep(d) \in [Bit -> SUBSET Bit]
  <2> HIDE DEF ends
  <2> QED  BY <1>1, <1>2
<1>4. LaneFaninStep(d) \in [Bit -> SUBSET Bit]  BY DEF LaneFaninStep
<1>5. ASSUME NEW x \in Bit, NEW y \in Bit, x \in LaneFaninStep(d)[y]
      PROVE  y \in LaneStep(d)[x]
  <2>1. PICK c \in CellDriving(d, y), p \in CellInput : \E i \in DOMAIN d.cells[c].pin[p] :
            /\ d.cells[c].pin[p][i] = x
            /\ LanePort(d.cells[c], p) => d.cells[c].pin["Y"][i] = y
    BY <1>5 DEF LaneFaninStep
  <2>2. PICK i \in DOMAIN d.cells[c].pin[p] :
            /\ d.cells[c].pin[p][i] = x
            /\ LanePort(d.cells[c], p) => d.cells[c].pin["Y"][i] = y
    BY <2>1
  <2>3. c \in DOMAIN d.cells /\ y \in CellOutputs(d, c)
    BY DEF CellDriving, CellOutputs, Bits
  <2>4. <<c, p, i>> \in CellReaders(d, x)  BY <2>2, <2>3, ReadersOf
  <2>5. <<c, p, i>>[1] = c /\ <<c, p, i>>[2] = p /\ <<c, p, i>>[3] = i  OBVIOUS
  <2>6. y \in ends(<<c, p, i>>)  BY <2>2, <2>3, <2>5
  <2> HIDE DEF ends
  <2> QED  BY <1>2, <2>4, <2>6
<1>6. ASSUME NEW x \in Bit, NEW y \in Bit, y \in LaneStep(d)[x]
      PROVE  x \in LaneFaninStep(d)[y]
  <2>1. PICK r \in CellReaders(d, x) : y \in ends(r)
    <3> HIDE DEF ends
    <3> QED  BY <1>2, <1>6
  <2>2. PICK c \in DOMAIN d.cells, p \in CellInput : \E i \in DOMAIN d.cells[c].pin[p] :
            d.cells[c].pin[p][i] = x /\ r = <<c, p, i>>
    BY <2>1 DEF CellReaders
  <2>3. PICK i \in DOMAIN d.cells[c].pin[p] : d.cells[c].pin[p][i] = x /\ r = <<c, p, i>>
    BY <2>2
  <2>4. r[1] = c /\ r[2] = p /\ r[3] = i  BY <2>3
  <2>5. LanePort(d.cells[c], p) => d.cells[c].pin["Y"][i] = y  BY <2>1, <2>4
  <2>6. y \in Range(d.cells[c].pin["Y"])
    <3>1. CASE LanePort(d.cells[c], p)
      <4>1. d.cells[c].pin[p] \in Word /\ d.cells[c].pin["Y"] \in Word
        BY DEF IsDesign, PinName, CellInput
      <4>2. i \in DOMAIN d.cells[c].pin["Y"]  BY <2>3, <3>1, <4>1, WordFacts DEF LanePort
      <4> QED  BY <2>5, <3>1, <4>2 DEF Range
    <3>2. CASE ~LanePort(d.cells[c], p)
      BY <2>1, <2>4, <3>2 DEF CellOutputs, Bits
    <3> QED  BY <3>1, <3>2
  <2>7. c \in CellDriving(d, y)  BY <2>6 DEF CellDriving
  <2> QED  BY <2>3, <2>5, <2>7 DEF LaneFaninStep
<1> QED  BY <1>3, <1>4, <1>5, <1>6

LEMMA LanesMeet ==
    ASSUME NEW d, IsDesign(d), NEW A \in SUBSET Bit, NEW B \in SUBSET Bit, NEW n \in Nat
    PROVE  Within(LaneStep(d), A, n) \cap B # {} <=> Within(LaneFaninStep(d), B, n) \cap A # {}
<1> DEFINE next == LaneStep(d)
           prev == LaneFaninStep(d)
<1>1. /\ next \in [Bit -> SUBSET Bit] /\ prev \in [Bit -> SUBSET Bit]
      /\ \A x, y \in Bit : x \in prev[y] => y \in next[x]
      /\ \A x, y \in Bit : x \in next[y] => y \in prev[x]
  BY LaneSteps
<1> HIDE DEF next, prev
<1>2. ASSUME NEW w \in Within(prev, B, n) \cap A PROVE Within(next, A, n) \cap B # {}
  <2>1. PICK b \in B : b \in Within(next, {w}, n)  BY <1>1, WithinReverse
  <2>2. {w} \in SUBSET Bit /\ {w} \subseteq A  OBVIOUS
  <2>3. Within(next, {w}, n) \subseteq Within(next, A, n)  BY <1>1, <2>2, WithinMore
  <2> QED  BY <2>1, <2>3
<1>3. ASSUME NEW w \in Within(next, A, n) \cap B PROVE Within(prev, B, n) \cap A # {}
  <2>1. PICK a \in A : a \in Within(prev, {w}, n)  BY <1>1, WithinReverse
  <2>2. {w} \in SUBSET Bit /\ {w} \subseteq B  OBVIOUS
  <2>3. Within(prev, {w}, n) \subseteq Within(prev, B, n)  BY <1>1, <2>2, WithinMore
  <2> QED  BY <2>1, <2>3
<1> QED  BY <1>2, <1>3 DEF next, prev

(* The crossings of an untyped port are the registers that take it by D.   *)
LEMMA PortCrossings ==
    ASSUME NEW d, IsDesign(d), NEW p \in DOMAIN d.ports, d.ports[p].clock = Untyped
    PROVE  {<<c.dstClock, c.dst>> : c \in {k \in CrossingsOf(d) : k.port = p /\ k.srcClock = Untyped}} =
               {<<d.flops[f].clock, f>> : f \in {g \in Flops(d) : TakesData(d, p, g)}}
<1> DEFINE bits == d.ports[p].bits
           landed(f, k) == Within(LaneStep(d), bits \cap Bit, k) \cap Bits(D(d, f))
           mine == CrossingsFrom(d, None, p, bits, d.ports[p].clock)
<1>1. bits \in SUBSET Bit /\ bits \cap Bit = bits /\ p # None /\ ~d.ports[p].isClock
  BY NoneAssumption DEF IsDesign, WellTyped
<1>2. \A f \in Flops(d) : (KeptPair(d, Untyped, f) /\ landed(f, MaxHops) # {}) <=> TakesData(d, p, f)
  <2> SUFFICES ASSUME NEW f \in Flops(d)
               PROVE  (KeptPair(d, Untyped, f) /\ landed(f, MaxHops) # {}) <=> TakesData(d, p, f)
    OBVIOUS
  <2>1. KeptPair(d, Untyped, f) <=> d.flops[f].clock \notin {NoClock, Untyped}
    BY DEF IsDesign, WellTyped, KeptPair
  <2>2. Bits(D(d, f)) \in SUBSET Bit  BY DEF Bits
  <2>3. landed(f, MaxHops) # {} <=> Within(LaneFaninStep(d), Bits(D(d, f)), MaxHops) \cap bits # {}
    BY <1>1, <2>2, ConeAssumption, LanesMeet
  <2> HIDE DEF landed, bits
  <2> QED  BY <2>1, <2>3 DEF TakesData, bits
<1>3. \A c \in mine : /\ c.port = p /\ c.srcClock = Untyped /\ c.dst \in Flops(d)
                      /\ c.dstClock = d.flops[c.dst].clock /\ TakesData(d, p, c.dst)
  <2> SUFFICES ASSUME NEW c \in mine
               PROVE  /\ c.port = p /\ c.srcClock = Untyped /\ c.dst \in Flops(d)
                      /\ c.dstClock = d.flops[c.dst].clock /\ TakesData(d, p, c.dst)
    OBVIOUS
  <2> DEFINE nearest(f) == Min({k \in 0..MaxHops : landed(f, k) # {}})
  <2>1. c \in {[src |-> None, port |-> p, srcClock |-> d.ports[p].clock, dst |-> f,
               dstClock |-> d.flops[f].clock, hops |-> nearest(f),
               width |-> Cardinality(landed(f, MaxHops))] :
                 f \in {g \in Flops(d) : KeptPair(d, d.ports[p].clock, g) /\ landed(g, MaxHops) # {}}}
    BY Zenon DEF CrossingsFrom
  <2> HIDE DEF nearest, landed, bits, mine
  <2>2. PICK f \in Flops(d) :
            /\ KeptPair(d, Untyped, f) /\ landed(f, MaxHops) # {}
            /\ c.port = p /\ c.srcClock = Untyped /\ c.dst = f /\ c.dstClock = d.flops[f].clock
    BY <2>1
  <2> QED  BY <1>2, <2>2
<1>4. ASSUME NEW f \in Flops(d), TakesData(d, p, f)
      PROVE  \E c \in mine : c.port = p /\ c.srcClock = Untyped /\ c.dst = f
                             /\ c.dstClock = d.flops[f].clock
  <2> DEFINE nearest(g) == Min({k \in 0..MaxHops : landed(g, k) # {}})
             c == [src |-> None, port |-> p, srcClock |-> d.ports[p].clock, dst |-> f,
                   dstClock |-> d.flops[f].clock, hops |-> nearest(f),
                   width |-> Cardinality(landed(f, MaxHops))]
  <2>1. KeptPair(d, d.ports[p].clock, f) /\ landed(f, MaxHops) # {}  BY <1>2, <1>4
  <2>2. c \in mine  BY <2>1, Zenon DEF CrossingsFrom
  <2> HIDE DEF mine, nearest, landed
  <2> QED  BY <2>2
<1>5. mine \subseteq CrossingsOf(d)  BY <1>1 DEF CrossingsOf
<1>6. \A c \in CrossingsOf(d) : c.port = p => c \in mine
  <2> SUFFICES ASSUME NEW c \in CrossingsOf(d), c.port = p PROVE c \in mine
    OBVIOUS
  <2>1. ASSUME NEW src, NEW port, NEW bs, NEW clock, c \in CrossingsFrom(d, src, port, bs, clock)
        PROVE  c.port = port
    <3>1. PICK f, h, w :
              c = [src |-> src, port |-> port, srcClock |-> clock, dst |-> f,
                   dstClock |-> d.flops[f].clock, hops |-> h, width |-> w]
      BY <2>1 DEF CrossingsFrom
    <3> QED  BY <3>1
  <2>2. \/ \E f \in Flops(d) : c \in CrossingsFrom(d, f, None, Bits(Q(d, f)), d.flops[f].clock)
        \/ \E q \in DOMAIN d.ports :
              c \in CrossingsFrom(d, None, q, d.ports[q].bits, d.ports[q].clock)
    BY DEF CrossingsOf
  <2> HIDE DEF mine
  <2>3. PICK q \in DOMAIN d.ports :
            c \in CrossingsFrom(d, None, q, d.ports[q].bits, d.ports[q].clock)
    BY <1>1, <2>1, <2>2
  <2>4. q = p  BY <2>1, <2>3
  <2> QED  BY <2>3, <2>4 DEF mine
<1> HIDE DEF mine
<1>7. {k \in CrossingsOf(d) : k.port = p /\ k.srcClock = Untyped} = mine  BY <1>3, <1>5, <1>6
<1>8. {<<c.dstClock, c.dst>> : c \in mine} =
          {<<d.flops[f].clock, f>> : f \in {g \in Flops(d) : TakesData(d, p, g)}}
  BY <1>3, <1>4
<1> QED  BY <1>7, <1>8

LEMMA CapturesAreTakers ==
    ASSUME NEW d, IsDesign(d), NEW p \in DOMAIN d.ports, d.ports[p].clock = Untyped
    PROVE  LET cs == Captures(d, CrossingsOf(d), p)
           IN  /\ cs # {} <=> Takers(d, p) # {}
               /\ (\A g \in Takers(d, p) : d.flops[g].clock = ClockOf(d, g)) =>
                      {x[1] : x \in cs} = {ClockOf(d, g) : g \in Takers(d, p)}
<1> DEFINE cs == Captures(d, CrossingsOf(d), p)
           byData == {g \in Flops(d) : TakesData(d, p, g)}
           byReset == {g \in Flops(d) : TakesReset(d, p, g)}
<1>1. cs = {<<d.flops[f].clock, f>> : f \in byData} \cup {<<ClockOf(d, f), f>> : f \in byReset}
  BY PortCrossings DEF Captures, TakesReset
<1>2. Takers(d, p) = byData \cup byReset  BY DEF Takers
<1> HIDE DEF cs, byData, byReset
<1>3. cs # {} <=> Takers(d, p) # {}  BY <1>1, <1>2
<1>4. ASSUME \A g \in Takers(d, p) : d.flops[g].clock = ClockOf(d, g)
      PROVE  {x[1] : x \in cs} = {ClockOf(d, g) : g \in Takers(d, p)}
  <2>1. cs = {<<ClockOf(d, f), f>> : f \in Takers(d, p)}  BY <1>1, <1>2, <1>4
  <2>2. \A f : <<ClockOf(d, f), f>>[1] = ClockOf(d, f)  OBVIOUS
  <2> QED  BY <2>1, <2>2
<1> QED  BY <1>3, <1>4 DEF cs

THEOREM UntypedIsTold == Spec => []UntypedPortTold
<1>1. RunInv => UntypedPortTold
  <2> SUFFICES ASSUME RunInv, Done, NEW p \in DOMAIN design.ports
               PROVE  /\ Grouping("CDC-011", <<p>>) # {} <=>
                             design.ports[p].clock = Untyped /\ Takers(design, p) # {}
                      /\ (\A g \in Takers(design, p) : design.flops[g].clock = ClockOf(design, g)) =>
                             \A f \in Grouping("CDC-011", <<p>>) :
                                 f.severity = "error" <=>
                                     Cardinality({ClockOf(design, g) : g \in Takers(design, p)}) > 1
    BY DEF UntypedPortTold
  <2> DEFINE caught(q) == Captures(design, crossings, q)
             severity(q) == IF Cardinality({x[1] : x \in caught(q)}) > 1 THEN "error" ELSE "warning"
             verdict(q) == Grouped("CDC-011", <<q>>, Min({x[2] : x \in caught(q)}), severity(q))
             untyped == {q \in DOMAIN design.ports : design.ports[q].clock = Untyped /\ caught(q) # {}}
  <2>1. IsDesign(design) /\ crossings = CrossingsOf(design)
    BY DesignAssumption DEF RunInv, GivenInv
  <2>2. /\ 18 \in (DOMAIN RULES) \ {HoldRule} /\ RULES[18] = "CDC-011"
        /\ Verdict(RULES[18], design, crossings) = CDC011(design, crossings)
    <3>1. 18 \in (DOMAIN RULES) \ {HoldRule}  BY OtherRules DEF HoldRule
    <3>2. RULES[18] = "CDC-011"  BY DEF RULES
    <3> QED  BY <3>1, <3>2 DEF Verdict
  <2>3. CDC011(design, crossings) = {verdict(q) : q \in untyped}  BY Zenon DEF CDC011
  <2>4. \A q : verdict(q).key = <<q>> /\ verdict(q).severity = severity(q)  BY DEF Grouped
  <2> HIDE DEF verdict, severity
  <2>5. ASSUME NEW f \in Grouping("CDC-011", <<p>>)
        PROVE  p \in untyped /\ f.severity = severity(p)
    <3>1. f \in findings /\ f.rule = RULES[18] /\ f.key = <<p>>  BY <2>2 DEF Grouping
    <3>2. PICK v \in CDC011(design, crossings) : Body(f) = Body(v)  BY <2>2, <3>1, AllSaid
    <3>3. PICK q \in untyped : v = verdict(q)  BY <2>3
    <3>4. f.key = v.key /\ f.severity = v.severity  BY <3>2 DEF Body
    <3>5. p = q
      <4>1. <<p>>[1] = p /\ <<q>>[1] = q  OBVIOUS
      <4> QED  BY <2>4, <3>1, <3>3, <3>4, <4>1
    <3> QED  BY <2>4, <3>3, <3>4, <3>5
  <2>6. ASSUME p \in untyped PROVE Grouping("CDC-011", <<p>>) # {}
    <3>1. verdict(p) \in Verdict(RULES[18], design, crossings)  BY <2>2, <2>3, <2>6
    <3>2. PICK g \in Grouping(RULES[18], verdict(p).key) : TRUE  BY <2>2, <3>1, GroupedBy
    <3> QED  BY <2>2, <2>4, <3>2
  <2>7. p \in untyped <=> design.ports[p].clock = Untyped /\ Takers(design, p) # {}
    BY <2>1, CapturesAreTakers
  <2>8. Grouping("CDC-011", <<p>>) # {} <=> p \in untyped
    <3> HIDE DEF untyped
    <3> QED  BY <2>5, <2>6
  <2>9. ASSUME \A g \in Takers(design, p) : design.flops[g].clock = ClockOf(design, g),
               NEW f \in Grouping("CDC-011", <<p>>)
        PROVE  f.severity = "error" <=>
                   Cardinality({ClockOf(design, g) : g \in Takers(design, p)}) > 1
    <3>1. p \in untyped /\ f.severity = severity(p)  BY <2>5
    <3>2. {x[1] : x \in caught(p)} = {ClockOf(design, g) : g \in Takers(design, p)}
      BY <2>1, <2>9, <3>1, CapturesAreTakers
    <3> HIDE DEF caught
    <3> QED  BY <3>1, <3>2 DEF severity
  <2> QED  BY <2>7, <2>8, <2>9
<1> QED  BY <1>1, RunInvariant, PTL

(***************************************************************************)
(* Where clocks are named as their roots, CDC-001 keeps to what it says.   *)
(***************************************************************************)
LanesAt(R, S, P, pin) ==
    \A r \in R : \E x \in S, p \in P : \E i \in DOMAIN pin[x][p] : r = <<x, p, i>>

LEMMA PinsFinite ==
    ASSUME NEW S, IsFiniteSet(S), NEW P, IsFiniteSet(P),
           NEW pin, \A x \in S : \A p \in P : IsFiniteSet(DOMAIN pin[x][p]),
           NEW R, LanesAt(R, S, P, pin)
    PROVE  IsFiniteSet(R)
<1> DEFINE at(x, p) == DOMAIN pin[x][p]
           reads(x, p) == {<<x, p, i>> : i \in at(x, p)}
           all == {reads(x, p) : x \in S, p \in P}
<1>1. ASSUME NEW x \in S, NEW p \in P PROVE IsFiniteSet(reads(x, p))
  <2>5. IsFiniteSet(at(x, p))  OBVIOUS
  <2> DEFINE f == [i \in at(x, p) |-> <<x, p, i>>]
  <2> HIDE DEF at
  <2>6. f \in Surjection(at(x, p), reads(x, p))  BY DEF Surjection
  <2> QED  BY <2>5, <2>6, FS_Surjection
<1> HIDE DEF reads
<1> DEFINE g == [r \in S \X P |-> reads(r[1], r[2])]
<1>2. IsFiniteSet(S \X P)  BY FS_Product
<1>3. g \in Surjection(S \X P, all)
  <2>1. ASSUME NEW r \in S \X P PROVE g[r] \in all
    <3>1. r[1] \in S /\ r[2] \in P  OBVIOUS
    <3> QED  BY <3>1
  <2>2. ASSUME NEW T \in all PROVE \E r \in S \X P : g[r] = T
    <3>1. PICK x \in S, p \in P : T = reads(x, p)  OBVIOUS
    <3>2. <<x, p>> \in S \X P /\ g[<<x, p>>] = reads(x, p)  OBVIOUS
    <3> QED  BY <3>1, <3>2
  <2> HIDE DEF all
  <2>3. DOMAIN g = S \X P  OBVIOUS
  <2>4. g \in [S \X P -> all]  BY <2>1
  <2> HIDE DEF g
  <2> QED  BY <2>2, <2>3, <2>4 DEF Surjection
<1>4. IsFiniteSet(all)  BY <1>2, <1>3, FS_Surjection
<1>5. \A T \in all : IsFiniteSet(T)  BY <1>1
<1>6. IsFiniteSet(UNION all)
  <2> HIDE DEF all
  <2> QED  BY <1>4, <1>5, FS_UNION
<1>7. R \in SUBSET UNION all
  <2> SUFFICES ASSUME NEW r \in R PROVE \E T \in all : r \in T
    OBVIOUS
  <2>1. PICK x \in S, p \in P : \E i \in DOMAIN pin[x][p] : r = <<x, p, i>>
    BY DEF LanesAt
  <2>2. r \in reads(x, p)  BY <2>1 DEF reads
  <2> QED  BY <2>2
<1> QED  BY <1>6, <1>7, FS_Subset

LEMMA WordFinite == \A w, T : w \in Seq(T) => IsFiniteSet(DOMAIN w)
<1> SUFFICES ASSUME NEW T, NEW w \in Seq(T) PROVE IsFiniteSet(DOMAIN w)
  OBVIOUS
<1>1. DOMAIN w = 1..Len(w) /\ Len(w) \in Nat  OBVIOUS
<1>2. \A n \in Nat : IsFiniteSet(1..n)  BY FS_Interval
<1> QED  BY <1>1, <1>2

LEMMA ReadersFinite ==
    ASSUME NEW d, IsDesign(d), NEW b
    PROVE  IsFiniteSet(Readers(d, b))
<1>1. IsFiniteSet(DOMAIN d.cells) /\ IsFiniteSet(Flops(d)) /\ IsFiniteSet(DOMAIN d.latches)
  <2>1. /\ IsFiniteSet(Sites(d)) /\ DOMAIN d.cells \in SUBSET Sites(d)
        /\ Flops(d) \in SUBSET Sites(d) /\ DOMAIN d.latches \in SUBSET Sites(d)
    BY DEF IsDesign, Sites
  <2> QED  BY <2>1, FS_Subset
<1>2. IsFiniteSet(CellInput) /\ IsFiniteSet(FlopInput) /\ IsFiniteSet(LatchInput)
  <2>1. IsFiniteSet({})  BY FS_EmptySet
  <2>2. /\ CellInput = (({} \cup {"A"}) \cup {"B"}) \cup {"S"}
        /\ FlopInput = (((({} \cup {"d"}) \cup {"en"}) \cup {"srst"}) \cup {"arst"}) \cup {"clr"}
        /\ LatchInput = ({} \cup {"d"}) \cup {"en"}
    BY DEF CellInput, FlopInput, LatchInput
  <2>3. \A S, x : IsFiniteSet(S) => IsFiniteSet(S \cup {x})  BY FS_AddElement
  <2> QED  BY <2>1, <2>2, <2>3
<1>3. IsFiniteSet(CellReaders(d, b))
  <2> DEFINE S == DOMAIN d.cells
             pin == [x \in S |-> d.cells[x].pin]
             R == CellReaders(d, b)
  <2>1. \A x \in S : pin[x] = d.cells[x].pin  OBVIOUS
  <2>2. \A x \in S : \A p \in CellInput : d.cells[x].pin[p] \in Seq(Wire \cup {One})
    BY DEF IsDesign, Word, CellInput, PinName
  <2>3. \A r \in R : \E x \in S, p \in CellInput : \E i \in DOMAIN d.cells[x].pin[p] : r = <<x, p, i>>
    BY DEF CellReaders
  <2>4. IsFiniteSet(S)  BY <1>1
  <2> HIDE DEF S, pin, R
  <2>5. \A x \in S : \A p \in CellInput : IsFiniteSet(DOMAIN pin[x][p])
    BY <2>1, <2>2, WordFinite
  <2>6. LanesAt(R, S, CellInput, pin)  BY <2>1, <2>3 DEF LanesAt
  <2>7. IsFiniteSet(R)  BY <1>2, <2>4, <2>5, <2>6, PinsFinite
  <2> QED  BY <2>7 DEF R
<1>4. IsFiniteSet(FlopReaders(d, b))
  <2> DEFINE S == Flops(d)
             pin == [x \in S |-> d.flops[x].pin]
             R == FlopReaders(d, b)
  <2>1. \A x \in S : pin[x] = d.flops[x].pin  OBVIOUS
  <2>2. \A x \in S : \A p \in FlopInput : d.flops[x].pin[p] \in Seq(Wire \cup {One})
    BY DEF IsDesign, Word, CellInput, PinName
  <2>3. \A r \in R : \E x \in S, p \in FlopInput : \E i \in DOMAIN d.flops[x].pin[p] : r = <<x, p, i>>
    BY DEF FlopReaders
  <2>4. IsFiniteSet(S)  BY <1>1
  <2> HIDE DEF S, pin, R
  <2>5. \A x \in S : \A p \in FlopInput : IsFiniteSet(DOMAIN pin[x][p])
    BY <2>1, <2>2, WordFinite
  <2>6. LanesAt(R, S, FlopInput, pin)  BY <2>1, <2>3 DEF LanesAt
  <2>7. IsFiniteSet(R)  BY <1>2, <2>4, <2>5, <2>6, PinsFinite
  <2> QED  BY <2>7 DEF R
<1>5. IsFiniteSet(LatchReaders(d, b))
  <2> DEFINE S == DOMAIN d.latches
             pin == [x \in S |-> d.latches[x].pin]
             R == LatchReaders(d, b)
  <2>1. \A x \in S : pin[x] = d.latches[x].pin  OBVIOUS
  <2>2. \A x \in S : \A p \in LatchInput : d.latches[x].pin[p] \in Seq(Wire \cup {One})
    BY DEF IsDesign, Word, CellInput, PinName
  <2>3. \A r \in R : \E x \in S, p \in LatchInput : \E i \in DOMAIN d.latches[x].pin[p] : r = <<x, p, i>>
    BY DEF LatchReaders
  <2>4. IsFiniteSet(S)  BY <1>1
  <2> HIDE DEF S, pin, R
  <2>5. \A x \in S : \A p \in LatchInput : IsFiniteSet(DOMAIN pin[x][p])
    BY <2>1, <2>2, WordFinite
  <2>6. LanesAt(R, S, LatchInput, pin)  BY <2>1, <2>3 DEF LanesAt
  <2>7. IsFiniteSet(R)  BY <1>2, <2>4, <2>5, <2>6, PinsFinite
  <2> QED  BY <2>7 DEF R
<1> QED  BY <1>3, <1>4, <1>5, FS_Union DEF Readers

(* The one register whose D alone reads the head is what follows it.       *)
LEMMA SoleReaderFollows ==
    ASSUME NEW d, IsDesign(d), NEW head \in Flops(d), NEW f \in Flops(d), NEW clock,
           Len(Q(d, head)) = 1, Len(D(d, head)) = 1, Q(d, head)[1] \in Bit,
           ReadOnce(d, Q(d, head)[1]), D(d, f) = Q(d, head), ClockOf(d, f) = clock
    PROVE  Follows(d, head, f, clock)
<1> DEFINE b == Q(d, head)[1]
<1>1. Q(d, head) \in Seq(Wire \cup {One}) /\ D(d, f) = <<b>>  BY DEF IsDesign, Word
<1>2. PICK r : Readers(d, b) = {r}  BY ReadersFinite, FS_Singleton DEF ReadOnce
<1> HIDE DEF b
<1>3. ASSUME NEW g \in Samplers(d, b) PROVE g \in Flops(d) /\ <<g, "d", 1>> \in Readers(d, b)
  <2>1. g \in Flops(d) /\ d.flops[g].pin["d"] = <<b>>  BY DEF Samplers, D
  <2>2. 1 \in {j \in DOMAIN d.flops[g].pin["d"] : d.flops[g].pin["d"][j] = b}  BY <2>1
  <2>3. "d" \in FlopInput  BY DEF FlopInput
  <2>4. <<g, "d", 1>> \in FlopReaders(d, b)  BY <2>1, <2>2, <2>3, ReadersOf
  <2> QED  BY <2>1, <2>4 DEF Readers
<1>4. f \in Samplers(d, b)  BY <1>1 DEF Samplers, b
<1>5. Samplers(d, b) = {f}
  <2> SUFFICES ASSUME NEW g \in Samplers(d, b) PROVE g = f
    BY <1>4
  <2>1. <<g, "d", 1>> = <<f, "d", 1>>  BY <1>2, <1>3, <1>4
  <2>2. <<g, "d", 1>>[1] = g /\ <<f, "d", 1>>[1] = f  OBVIOUS
  <2> QED  BY <2>1, <2>2
<1>6. LastOf({f}) = f
  <2>1. {f} \in SUBSET Sites(d) /\ {f} # {}  BY DEF Sites
  <2>2. Max({f}) \in {f}  BY <2>1, NamesAreNumbers
  <2> QED  BY <2>1, <2>2 DEF LastOf
<1>7. f = Sampler(d, b)  BY <1>5, <1>6 DEF Sampler, SingleBitFlop
<1> QED  BY <1>7 DEF Follows, b

(* The SDC names no clock of a register otherwise than its root.           *)
NamedByRoot(d) == \A f \in Flops(d) : d.flops[f].clock = ClockOf(d, f)

(* For every design: CDC-001 reports no register whose one reader is a     *)
(* register of its domain, unless the SDC renames a clock.                 *)
THEOREM FollowedUpAccepted == Spec => [](NamedByRoot(design) => FollowedUpIsAccepted)
<1>1. RunInv => (NamedByRoot(design) => FollowedUpIsAccepted)
  <2> SUFFICES ASSUME RunInv, NamedByRoot(design), Done,
                      NEW c \in crossings, FollowedUp(design, c)
               PROVE  ~Told("CDC-001", c)
    BY DEF FollowedUpIsAccepted
  <2>1. IsDesign(design) /\ c.dst \in Flops(design)
    BY DesignAssumption, CrossingEnds DEF RunInv, GivenInv
  <2>2. PICK f \in Flops(design) \ {c.dst} :
           D(design, f) = Q(design, c.dst) /\ design.flops[f].clock = c.dstClock
    BY DEF FollowedUp
  <2>3. Follows(design, c.dst, f, c.dstClock)
    <3>1. ClockOf(design, f) = c.dstClock  BY <2>2 DEF NamedByRoot
    <3>2. /\ Len(Q(design, c.dst)) = 1 /\ Len(D(design, c.dst)) = 1
          /\ Q(design, c.dst)[1] \in Bit /\ ReadOnce(design, Q(design, c.dst)[1])
      BY DEF FollowedUp, ReadOnce
    <3> QED  BY <2>1, <2>2, <3>1, <3>2, SoleReaderFollows
  <2>4. Len(Chain(design, c.dst, c.dstClock)) >= 2  BY <2>1, <2>2, <2>3, ChainOfTwo
  <2>5. ~(Depth(design, c) < 2)
    <3>1. CASE PackedDepth(design, c.dst) > 0
      <4> DEFINE q == Q(design, c.dst)
                 data == ShiftData(ResetMuxLeg(design, c.dst), D(design, c.dst))
      <4>1. PackedDepth(design, c.dst) = ShiftDepth(design, q, data) /\ ShiftDepth(design, q, data) >= 2
        BY <3>1 DEF PackedDepth, PackedAs
      <4>2. Len(q) \in Nat  BY <2>1 DEF IsDesign, Word
      <4> HIDE DEF q, data
      <4>3. ShiftDepth(design, q, data) \in Nat
        <5>1. IsFiniteSet(1..Len(q))  BY <4>2, FS_Interval
        <5>2. \A T \in SUBSET (1..Len(q)) : Cardinality(T) \in Nat
          BY <5>1, FS_Subset, FS_CardinalityType
        <5> QED  BY <5>2 DEF ShiftDepth
      <4> QED  BY <3>1, <4>1, <4>3 DEF Depth, ChainDepth
    <3>2. CASE ~(PackedDepth(design, c.dst) > 0)
      BY <2>4, <3>2 DEF Depth, ChainDepth
    <3> QED  BY <3>1, <3>2
  <2> QED  BY <2>5, ToldRules
<1> QED  BY <1>1, RunInvariant, PTL
=============================================================================
