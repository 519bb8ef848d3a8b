------------------------------ MODULE RulePack ------------------------------
(***************************************************************************)
(* run_all: the rules one after the other over one design, each adding its *)
(* findings; CDC-012 goes crossing by crossing and remembers, from one to  *)
(* the next, which sources have an acknowledge; a last pass links the      *)
(* findings of one incomplete handshake.  CDC-023 is the decline of the    *)
(* clock tracer, module ClockTrace.                                        *)
(***************************************************************************)
EXTENDS ResetRules, ClockRules

CONSTANT Design     \* the designs the analyzer may be given

(* What the SDC does to clocks and ports: only ports it names no clock for *)
(* are untyped (synthesize_unconstrained_inputs), an untyped port is       *)
(* asynchronous to every clock (are_async) but the one of registers whose  *)
(* clock is itself an untyped port.                                        *)
WellTyped(d) ==
    /\ \A p \in DOMAIN d.ports : d.ports[p].isClock => d.ports[p].clock # Untyped
    /\ \A f \in Flops(d) :
          d.flops[f].clock \notin {NoClock, Untyped} <=> {Untyped, d.flops[f].clock} \in d.async

(* What the loader hands over: finitely many named sites, one name space,  *)
(* a word of lanes at every pin.                                           *)
Word == Seq(Wire \cup {One})
IsDesign(d) ==
    /\ IsFiniteSet(Sites(d)) /\ Sites(d) \subseteq Nat
    /\ (DOMAIN d.cells) \cap Flops(d) = {} /\ (DOMAIN d.latches) \cap Flops(d) = {}
    /\ IsFiniteSet(DOMAIN d.ports) /\ DOMAIN d.ports \subseteq Nat
    /\ \A x \in DOMAIN d.cells : d.cells[x].pin \in [PinName -> Word]
    /\ \A f \in Flops(d) : d.flops[f].pin \in [FlopInput -> Word] /\ Q(d, f) \in Word
    /\ \A l \in DOMAIN d.latches :
          d.latches[l].pin \in [LatchInput -> Word] /\ d.latches[l].q \in Word
    /\ \A p \in DOMAIN d.ports : d.ports[p].bits \subseteq Bit
    /\ WellTyped(d)

ASSUME DesignAssumption == \A d \in Design : IsDesign(d)

VARIABLES
    design,
    crossings,      \* what find_crossings and filter_async hand over
    turn,           \* index into RULES; one more: the pass that links
    todo,           \* crossings CDC-012 has yet to look at
    cache,          \* feedback_cache
    findings

vars == <<design, crossings, turn, todo, cache, findings>>

RULES == <<"CDC-001", "CDC-002", "CDC-003", "CDC-004", "CDC-005", "CDC-006",
           "RDC-001", "RDC-002", "RDC-003", "RDC-004", "RDC-005", "RDC-006", "RDC-007", "RDC-008",
           "CDC-008", "CDC-009", "CDC-010", "CDC-011", "CDC-012", "CDC-013", "CDC-014", "CDC-015",
           "CDC-016", "CDC-017", "CDC-018", "CDC-019", "CDC-020", "CDC-021", "CDC-022">>
HoldRule == 19

Verdict(rule, d, cs) ==
    CASE rule = "CDC-001" -> CDC001(d, cs) [] rule = "CDC-002" -> CDC002(d, cs)
      [] rule = "CDC-003" -> CDC003(d, cs) [] rule = "CDC-004" -> CDC004(d, cs)
      [] rule = "CDC-005" -> CDC005(d, cs) [] rule = "CDC-006" -> CDC006(d)
      [] rule = "RDC-001" -> RDC001(d)     [] rule = "RDC-002" -> RDC002(d)
      [] rule = "RDC-003" -> RDC003(d)     [] rule = "RDC-004" -> RDC004(d)
      [] rule = "RDC-005" -> RDC005(d)     [] rule = "RDC-006" -> RDC006(d)
      [] rule = "RDC-007" -> RDC007(d)     [] rule = "RDC-008" -> RDC008(d)
      [] rule = "CDC-008" -> CDC008(d)     [] rule = "CDC-009" -> CDC009(d, cs)
      [] rule = "CDC-010" -> CDC010(d)     [] rule = "CDC-011" -> CDC011(d, cs)
      [] rule = "CDC-013" -> CDC013(d, cs) [] rule = "CDC-014" -> CDC014(d, cs)
      [] rule = "CDC-015" -> CDC015(d, cs) [] rule = "CDC-016" -> CDC016(d, cs)
      [] rule = "CDC-017" -> CDC017(d)     [] rule = "CDC-018" -> CDC018(d, cs)
      [] rule = "CDC-019" -> CDC019(d, cs) [] rule = "CDC-020" -> CDC020(d, cs)
      [] rule = "CDC-021" -> CDC021(d)     [] rule = "CDC-022" -> CDC022(d)

Init ==
    /\ design \in Design
    /\ crossings = CrossingsOf(design)
    /\ turn = 1
    /\ todo = crossings
    /\ cache = <<>>
    /\ findings = {}

Check ==
    /\ turn \in (DOMAIN RULES) \ {HoldRule}
    /\ findings' = findings \cup Verdict(RULES[turn], design, crossings)
    /\ turn' = turn + 1
    /\ UNCHANGED <<design, crossings, todo, cache>>

(***************************************************************************)
(* check_cdc_012: a gated bus whose source nothing holds.                  *)
(***************************************************************************)
GatedBus(d, c) ==
    /\ c.srcClock # Untyped /\ c.src # None /\ c.width > 1
    /\ Gated(d, c)
    /\ c.src \notin UserGrays(d) /\ ~GrayCoded(d, c.src)
    /\ {c.src, c.dst} \cap UserHandshakes(d) = {}

(* A wrong variant of CacheKey: one answer for each pair of clocks.        *)
CacheKeyByClocks(c) == <<c.srcClock, c.dstClock>>

CacheKey(c) == c.src

Acknowledges(d, c) == Feedback(d, c.src, c.srcClock, c.dstClock)
Remembered(c) == CacheKey(c) \in DOMAIN cache
Held(c) == IF Remembered(c) THEN cache[CacheKey(c)] ELSE Acknowledges(design, c)

HoldCheck(c) ==
    /\ turn = HoldRule
    /\ todo' = todo \ {c}
    /\ IF GatedBus(design, c)
       THEN /\ cache' = [k \in (DOMAIN cache) \cup {CacheKey(c)} |->
                            IF k = CacheKey(c) THEN Held(c) ELSE cache[k]]
            /\ findings' = findings \cup
                   (IF Held(c) THEN {} ELSE {Finding("CDC-012", c, c.src, "warning")})
       ELSE UNCHANGED <<cache, findings>>
    /\ UNCHANGED <<design, crossings, turn>>

HoldChecked ==
    /\ turn = HoldRule
    /\ todo = {}
    /\ turn' = turn + 1
    /\ UNCHANGED <<design, crossings, todo, cache, findings>>

(***************************************************************************)
(* _tag_handshake_related: CDC-001 and CDC-002 on a pair of clocks that a  *)
(* CDC-012 finding is about, in either direction.                          *)
(***************************************************************************)
OnPair(f) == {f.on.srcClock, f.on.dstClock}
Linked(f) ==
    /\ f.rule \in {"CDC-001", "CDC-002"}
    /\ \E g \in findings : g.rule = "CDC-012" /\ OnPair(g) = OnPair(f)
Tag ==
    /\ turn = Len(RULES) + 1
    /\ findings' = {[f EXCEPT !.related = Linked(f)] : f \in findings}
    /\ turn' = turn + 1
    /\ UNCHANGED <<design, crossings, todo, cache>>

Next == Check \/ (\E c \in todo : HoldCheck(c)) \/ HoldChecked \/ Tag

Spec == Init /\ [][Next]_vars

(***************************************************************************)
(* Properties, of the list of findings when the run is over                *)
(***************************************************************************)
Done == turn = Len(RULES) + 2
Told(rule, c) == \E f \in findings : f.rule = rule /\ f.on = c
Grouping(rule, key) == {f \in findings : f.rule = rule /\ f.key = key}

(* Bit b is what lane i of flop f takes at the next edge, or takes unless  *)
(* the constant on the other leg of a mux resets it.                       *)
Feeds(d, b, f, i) ==
    \/ D(d, f)[i] = b
    \/ \E x \in CellDriving(d, D(d, f)[i]) :
          /\ d.cells[x].type = "mux"
          /\ \E j \in DOMAIN d.cells[x].pin["Y"] :
                LET leg == {d.cells[x].pin["A"][j], d.cells[x].pin["B"][j]}
                IN  d.cells[x].pin["Y"][j] = D(d, f)[i] /\ b \in leg /\ leg \cap Bit = {b}

(* A bit that may hang between two levels has one reader, and that reader  *)
(* is the register itself or another of the clock, so nothing else can see *)
(* it hang.                                                                *)
Settles(d, c, b) ==
    /\ Cardinality(Readers(d, b)) = 1
    /\ \E f \in Flops(d) : /\ f = c.dst \/ ClockOf(d, f) = c.dstClock
                           /\ \E i \in DOMAIN D(d, f) : Feeds(d, b, f, i)

Vouched(d, c) ==
    \/ c.dst \in UserSyncs(d) \cup UserHandshakes(d)
    \/ c.src \in UserStatics(d)
    \/ c.srcClock = Untyped

(***************************************************************************)
(* A one-bit crossing that neither CDC-001 nor CDC-014 reports, and nobody *)
(* vouches for, is contained: every lane that may go metastable is seen by *)
(* one register of the same clock and by nothing else (the walks of        *)
(* _sync_chain_depth and _packed_shift_register_depth).                    *)
(***************************************************************************)
SilentIsContained ==
    Done => \A c \in Single(crossings) :
        \/ Told("CDC-001", c) \/ Told("CDC-014", c) \/ Vouched(design, c)
        \/ \A i \in DOMAIN Q(design, c.dst) :
              \/ \E b \in Bits(Q(design, c.dst)) : Feeds(design, b, c.dst, i)
              \/ Settles(design, c, Q(design, c.dst)[i])

(***************************************************************************)
(* The domain map and the lint agree (crossing_synchronizer is written     *)
(* apart from the rules): what the map shows without a synchronizer is     *)
(* reported, what CDC-001 or CDC-004 reports has none in the map, and a    *)
(* bus the map calls a plain mux is one CDC-012 warns about, unless the    *)
(* takers of the source are not alike (the map looks at each crossing,     *)
(* CDC-012 at the first of a source).                                      *)
(***************************************************************************)
Siblings(c) == {k \in crossings : k.src = c.src /\ GatedBus(design, k)}
Agreed(c) ==
    \A k \in Siblings(c) : Acknowledges(design, k) <=> Acknowledges(design, c)

SchemeTold(c, scheme) ==
    /\ c.width = 1 => /\ scheme = None => Told("CDC-001", c) \/ Told("CDC-014", c)
                      /\ Told("CDC-001", c) => scheme = None
    /\ c.width > 1 => (scheme = None <=> Told("CDC-004", c))
    /\ c.src # None /\ Agreed(c) =>
           /\ scheme = "mux" => Told("CDC-012", c)
           /\ Told("CDC-012", c) => scheme \in {"mux", "static"}

MapMatchesLint == Done => \A c \in Typed(crossings) : SchemeTold(c, Scheme(design, c))

(***************************************************************************)
(* CDC-012 judges the gated buses of one source alike, by the answer of    *)
(* one of them (feedback_cache): no other register's answer is mixed in,   *)
(* in whatever order the crossings are looked at.                          *)
(***************************************************************************)
JudgedBySource ==
    Done => \A c \in crossings : GatedBus(design, c) =>
        \E k \in Siblings(c) :
            \A x \in Siblings(c) : Told("CDC-012", x) <=> ~Acknowledges(design, k)

(***************************************************************************)
(* CDC-012 is silent on a gated bus exactly when an acknowledge comes back *)
(* from its own destination (the docstring of check_cdc_012).  The code    *)
(* does not keep to it where two domains take one source and only one of   *)
(* them acknowledges.                                                      *)
(***************************************************************************)
HoldExact ==
    Done => \A c \in crossings :
        GatedBus(design, c) => (Told("CDC-012", c) <=> ~Acknowledges(design, c))

(***************************************************************************)
(* Two synchronized copies of one register never meet again unsaid: when a *)
(* register outside both chains computes from both ends, CDC-005 tells.    *)
(***************************************************************************)
EndsIn(d, chain, f) ==
    /\ f \notin Range(chain)
    /\ Fanin(d, Bits(D(d, f))) \cap Bits(Q(d, chain[Len(chain)])) # {}
Computes(d, c, f) == EndsIn(d, Chain(d, c.dst, c.dstClock), f)

ReconvergenceTold ==
    Done => \A c, k \in Synchronized(design, crossings) :
        c # k /\ c.src = k.src /\ c.dstClock = k.dstClock =>
            \A f \in Flops(design) :
                Computes(design, c, f) /\ Computes(design, k, f) =>
                    Grouping("CDC-005", <<c.src, c.dstClock>>) # {}

(***************************************************************************)
(* A port the SDC says nothing of is reported if and only if a register    *)
(* takes it, by D along the lanes of the logic or by a synchronous reset,  *)
(* and as an error when registers of two clocks do (check_cdc_011).  Where *)
(* a clock has another name than its root the count mixes the two, names   *)
(* for D and roots for resets: nothing is said of the severity there.  By  *)
(* D a register counts when the SDC declares its clock (are_async).        *)
(***************************************************************************)
LaneFaninStep(d) ==
    [b \in Bit |->
        {w \in Bit : \E x \in CellDriving(d, b), p \in CellInput :
            \E i \in DOMAIN d.cells[x].pin[p] :
                /\ d.cells[x].pin[p][i] = w
                /\ LanePort(d.cells[x], p) => d.cells[x].pin["Y"][i] = b}]

TakesData(d, p, f) ==
    /\ d.flops[f].clock \notin {NoClock, Untyped}
    /\ Within(LaneFaninStep(d), Bits(D(d, f)), MaxHops) \cap d.ports[p].bits # {}
TakesReset(d, p, f) ==
    Clocked(d, f) /\ p \in FaninPorts(d, Bits(d.flops[f].pin["srst"]))
Takers(d, p) == {f \in Flops(d) : TakesData(d, p, f) \/ TakesReset(d, p, f)}

UntypedPortTold ==
    Done => \A p \in DOMAIN design.ports :
        /\ Grouping("CDC-011", <<p>>) # {} <=>
               design.ports[p].clock = Untyped /\ Takers(design, p) # {}
        /\ (\A g \in Takers(design, p) : design.flops[g].clock = ClockOf(design, g)) =>
               \A f \in Grouping("CDC-011", <<p>>) :
                   f.severity = "error" <=>
                       Cardinality({ClockOf(design, g) : g \in Takers(design, p)}) > 1

(***************************************************************************)
(* The stages find_reset_synchronizers excuses from every reset rule do    *)
(* not race the release of the reset: what feeds such a stage is a         *)
(* constant or a register of the same clock that the same reset holds, so  *)
(* its D does not move in the cycle of the release.  Resets that logic     *)
(* drives are all alike to the code, and are left out.                     *)
(***************************************************************************)
HeldAlike(d, f, g) ==
    /\ ClockOf(d, f) = ClockOf(d, g)
    /\ ResetType(d, g) # "none"
    /\ \/ ResetPin(d, f)[1] = ResetPin(d, g)[1]
       \/ \E p \in DOMAIN d.ports : {ResetPin(d, f)[1], ResetPin(d, g)[1]} \subseteq d.ports[p].bits

QuietOnRelease ==
    Done => \A f \in ResetSyncs(design) \ UserResetSyncs(design) :
        ResetSource(design, f).kind # "comb" =>
            /\ Len(D(design, f)) = 1
            /\ \/ D(design, f)[1] \notin Bit
               \/ \E g \in Flops(design) : /\ D(design, f)[1] \in Range(Q(design, g))
                                           /\ HeldAlike(design, f, g)

(***************************************************************************)
(* Chains the walk has room for are excused whole: registers that one      *)
(* reset holds on one clock, each fed by the one before it alone, the      *)
(* first by a constant, are stages of a reset synchronizer when the last   *)
(* is reset asynchronously, however much longer the chain goes on.         *)
(***************************************************************************)
SoleFeed(d, g, f) ==
    /\ Len(D(d, f)) = 1 /\ D(d, f)[1] \in Bit
    /\ DriversOf(d, D(d, f)[1]) = {g}
    /\ ClockOf(d, f) = ClockOf(d, g) /\ ResetSource(d, f) = ResetSource(d, g)
StageChain(d, c) ==
    ConstantFed(d, c[1]) /\ \A i \in (DOMAIN c) \ {1} : SoleFeed(d, c[i - 1], c[i])
InReset(d) == {f \in Flops(d) : ResetType(d, f) # "none" /\ Clocked(d, f)}

StagesExcused ==
    Done => \A k \in MinStages..(MinStages + ExtraStages) : \A c \in [1..k -> InReset(design)] :
        StageChain(design, c) /\ ResetType(design, c[k]) = "async" =>
            Range(c) \subseteq ResetSyncs(design)

(***************************************************************************)
(* The clock-network view and CDC-010 name the same registers: a record    *)
(* the view shows unprotected is reported, and a report is in the view,    *)
(* unprotected, as long as some other register is clocked through the      *)
(* cell.                                                                   *)
(***************************************************************************)
ClockViewMatchesLint ==
    Done =>
        /\ \A x \in ClockCrossings(design) :
              x.synchronizer = None => \E f \in Grouping("CDC-010", <<x.src>>) : f.cell = x.cell
        /\ \A f \in {g \in findings : g.rule = "CDC-010"} :
              ClockedThrough(design, f.cell) \ Range(f.key) # {} =>
                  \E x \in ClockCrossings(design) :
                      x.cell = f.cell /\ <<x.src>> = f.key /\ x.synchronizer = None

(***************************************************************************)
(* CDC-001 is for a register without a follow-on register in the same      *)
(* domain: it never reports one whose only reader is the D of a register   *)
(* on the clock the crossing itself names.  The code does not keep to it   *)
(* when the SDC gives a clock another name than its port's.                *)
(***************************************************************************)
FollowedUp(d, c) ==
    /\ Len(Q(d, c.dst)) = 1 /\ Len(D(d, c.dst)) = 1
    /\ Q(d, c.dst)[1] \in Bit /\ Cardinality(Readers(d, Q(d, c.dst)[1])) = 1
    /\ \E f \in Flops(d) \ {c.dst} : D(d, f) = Q(d, c.dst) /\ d.flops[f].clock = c.dstClock

FollowedUpIsAccepted ==
    Done => \A c \in crossings : FollowedUp(design, c) => ~Told("CDC-001", c)
=============================================================================
