----------------------------- MODULE ClockSpec -----------------------------
(***************************************************************************)
(* The clock constraints (sdc.py): the handlers that fold SDC commands     *)
(* into a ClockSpec, the diagnostics over the whole clock graph, the       *)
(* typing of the remaining input ports, and the relations the rest of the  *)
(* tool asks for: clock_for_port, resolve, are_async,                      *)
(* is_unreachable_crossing and filter_async (domain.py).                   *)
(*                                                                         *)
(* A command is what a handler sees of it: the names its flags carry.      *)
(* Clocks and ports share one set of names, because clock_for_port is      *)
(* asked about both.  A file is a set of commands read in any order.       *)
(***************************************************************************)
EXTENDS Naturals, Sequences, FiniteSets, SequencesExt, Reach

CONSTANTS
    Name,           \* names of clocks and of top-level ports
    Pin,            \* internal pins a generated clock may be declared on
    None,
    Unconstrained,  \* the sentinel clock of an untyped input port
    InputPort,      \* the input ports of the top module
    Script          \* the files a run considers: sets of commands

VARIABLES
    unread,             \* commands parse has not come to
    stage,
    clocks,             \* the dict of clocks in insertion order
    async_groups,       \* one sequence of groups per -asynchronous statement
    exclusive_groups,   \* the same for -logically/-physically_exclusive
    false_path_pairs,
    port_clock,
    pin_clocks,
    partial_warnings

vars == <<unread, stage, clocks, async_groups, exclusive_groups,
          false_path_pairs, port_clock, pin_clocks, partial_warnings>>

ASSUME SentinelAssumption ==
    /\ None \notin Name \cup {Unconstrained} /\ Unconstrained \notin Name
    /\ InputPort \subseteq Name

(* What a handler sees of a command.  The name is the one of -name or of   *)
(* the first target; None when there is neither, or no readable -period.   *)
Command ==
    [op : {"create_clock"}, name : Name \cup {None}, ports : SUBSET Name]
    \cup [op : {"create_generated_clock"}, name : Name \cup {None}, ports : SUBSET Name,
          master : Name \cup {None}, source : Name \cup {None}, pins : SUBSET Pin]
    \cup [op : {"set_clock_groups"}, kinds : SUBSET {"async", "exclusive"}, groups : Seq(SUBSET Name)]
    \cup [op : {"set_false_path"}, from : SUBSET Name, to : SUBSET Name, specific : BOOLEAN]
    \cup [op : {"set_delay"}, port : Name, clock : Name \cup {None}]
ASSUME ScriptAssumption == Script \subseteq SUBSET Command

(* "source" and "pins" are not kept by the code: they are what the         *)
(* declaration said, for the properties to compare with.                   *)
Clock == [name : Name, ports : SUBSET Name, master : Name \cup {None},
          is_generated : BOOLEAN, source : Name \cup {None}, pins : SUBSET Pin]

------------------------------------------------------------------------------
(* The clock graph.                                                        *)
Declared == {clocks[i].name : i \in DOMAIN clocks}
ClockOf(n) == clocks[CHOOSE i \in DOMAIN clocks : clocks[i].name = n]

(* A port the user typed, else the first clock that lists the port. *)
clock_for_port(p) ==
    LET owners == SelectSeq(clocks, LAMBDA c : p \in c.ports)
    IN  IF p \in Name /\ port_clock[p] # None THEN port_clock[p]
        ELSE IF owners = <<>> THEN None ELSE Head(owners).name

(* A wrong variant of resolve: one step up the master chain. *)
ResolveOneStep(n) ==
    IF n \in Declared /\ ClockOf(n).master # None THEN ClockOf(n).master ELSE n

(* One step up the master chain: None above a clock without a master, and  *)
(* above a name that nothing declares.                                     *)
Masters == [c \in Name \cup {Unconstrained, None} |->
               IF c \in Declared THEN ClockOf(c).master ELSE None]

(* The walk up the master chain from n, a turn of the code's loops per     *)
(* step.  It ends, or meets a clock again, in as many steps as there are   *)
(* clocks.                                                                 *)
Climb(n) ==
    LET at[k \in 0..Cardinality(Declared)] == IF k = 0 THEN n ELSE Masters[at[k - 1]]
    IN  at

MetBefore(at, k) == \E j \in 0..(k - 1) : at[j] = at[k]
First(steps) == CHOOSE k \in steps : \A j \in steps : k <= j

(* The root of a master chain; the first clock seen twice ends the walk. *)
resolve(n) ==
    LET at == Climb(n)
    IN  at[First({k \in DOMAIN at : Masters[at[k]] = None \/ MetBefore(at, k)})]

(* The first group of a statement that holds one of the names, 0 if none. *)
GroupOf(groups, names) ==
    LET hit == {i \in DOMAIN groups : groups[i] \cap names # {}}
    IN  IF hit = {} THEN 0 ELSE First(hit)

(* A wrong variant of Separates: a name in no group is in a group apart. *)
SeparatesUnlisted(groups, as, bs) == GroupOf(groups, as) # GroupOf(groups, bs)

Separates(groups, as, bs) ==
    /\ GroupOf(groups, as) # 0 /\ GroupOf(groups, bs) # 0
    /\ GroupOf(groups, as) # GroupOf(groups, bs)

(* A wrong variant of are_async: only the names themselves are looked up. *)
AreAsyncByName(a, b) ==
    /\ a # b
    /\ \/ Unconstrained \in {a, b}
       \/ \E g \in async_groups : Separates(g, {a}, {b})
       \/ {a, b} \in false_path_pairs

are_async(a, b) ==
    /\ a # b
    /\ \/ Unconstrained \in {a, b}
       \/ \E g \in async_groups : Separates(g, {a}, {b})
       \/ /\ resolve(a) # resolve(b)
          /\ \/ {{resolve(a), resolve(b)}, {a, b}} \cap false_path_pairs # {}
             \/ \E g \in async_groups : Separates(g, {resolve(a)}, {resolve(b)})

is_unreachable_crossing(a, b) ==
    /\ a # b /\ resolve(a) # resolve(b)
    /\ \E g \in exclusive_groups : Separates(g, {a, resolve(a)}, {b, resolve(b)})

(* filter_async: is a crossing from clock a to clock b shown to the rules? *)
Kept(a, b) ==
    LET Named(c) == IF clock_for_port(c) = None THEN c ELSE clock_for_port(c)
    IN  /\ ~is_unreachable_crossing(Named(a), Named(b))
        /\ are_async(Named(a), Named(b))

------------------------------------------------------------------------------
(* The handlers.                                                           *)
Warn(what, about) == partial_warnings' = partial_warnings \cup {<<what, about>>}

(* A wrong variant of Store: a clock is overridden without a word.         *)
StoreUnsaid(clock) ==
    /\ clocks' = IF clock.name \in Declared
                 THEN [i \in DOMAIN clocks |->
                         IF clocks[i].name = clock.name THEN clock ELSE clocks[i]]
                 ELSE Append(clocks, clock)
    /\ UNCHANGED partial_warnings

(* spec.clocks[name] = Clock(...): a new name is appended, a known one     *)
(* keeps its place.                                                        *)
Store(clock) ==
    IF clock.name \in Declared
    THEN /\ clocks' = [i \in DOMAIN clocks |->
                         IF clocks[i].name = clock.name THEN clock ELSE clocks[i]]
         /\ Warn("duplicate", clock.name)
    ELSE /\ clocks' = Append(clocks, clock)
         /\ UNCHANGED partial_warnings

(* Without a period or a name the command is dropped, silently.            *)
CreateClock(cmd) ==
    /\ cmd.op = "create_clock"
    /\ IF cmd.name = None THEN UNCHANGED <<clocks, partial_warnings>>
       ELSE Store([name |-> cmd.name, ports |-> cmd.ports, master |-> None,
                   is_generated |-> FALSE, source |-> None, pins |-> {}])
    /\ UNCHANGED <<async_groups, exclusive_groups, false_path_pairs, port_clock, pin_clocks>>

(* -source is sliced off and never looked at. *)
CreateGeneratedClock(cmd) ==
    /\ cmd.op = "create_generated_clock"
    /\ IF cmd.name = None
       THEN Warn("ignored", cmd) /\ UNCHANGED <<clocks, pin_clocks>>
       ELSE /\ pin_clocks' = [p \in Pin |-> IF p \in cmd.pins THEN cmd.name ELSE pin_clocks[p]]
            /\ Store([name |-> cmd.name, ports |-> cmd.ports, master |-> cmd.master,
                      is_generated |-> TRUE, source |-> cmd.source, pins |-> cmd.pins])
    /\ UNCHANGED <<async_groups, exclusive_groups, false_path_pairs, port_clock>>

(* The groups that name a clock, in their order. *)
Filled(groups) ==
    LET ks == {i \in DOMAIN groups : groups[i] # {}}
        nth(k) == CHOOSE i \in ks : Cardinality({j \in ks : j < i}) = k - 1
    IN  [k \in 1..Cardinality(ks) |-> groups[nth(k)]]

SetClockGroups(cmd) ==
    LET groups == Filled(cmd.groups)
    IN  /\ cmd.op = "set_clock_groups"
        /\ IF cmd.kinds = {} \/ Len(groups) < 2
           THEN Warn("ignored", cmd) /\ UNCHANGED <<async_groups, exclusive_groups>>
           ELSE /\ async_groups' = async_groups \cup
                     (IF "async" \in cmd.kinds THEN {groups} ELSE {})
                /\ exclusive_groups' = exclusive_groups \cup
                     (IF "exclusive" \in cmd.kinds THEN {groups} ELSE {})
                /\ UNCHANGED partial_warnings
        /\ UNCHANGED <<clocks, false_path_pairs, port_clock, pin_clocks>>

Pairs(cmd) == {{a, b} : a \in cmd.from, b \in cmd.to} \ {{a} : a \in Name}

(* Paths through cells or between pins say nothing about a pair of clocks. *)
SetFalsePath(cmd) ==
    /\ cmd.op = "set_false_path"
    /\ IF cmd.specific \/ cmd.from = {} \/ cmd.to = {}
       THEN Warn("ignored", cmd) /\ UNCHANGED false_path_pairs
       ELSE /\ false_path_pairs' = false_path_pairs \cup Pairs(cmd)
            /\ UNCHANGED partial_warnings
    /\ UNCHANGED <<clocks, async_groups, exclusive_groups, port_clock, pin_clocks>>

SetDelay(cmd) ==
    /\ cmd.op = "set_delay"
    /\ IF cmd.clock = None
       THEN Warn("ignored", cmd) /\ UNCHANGED port_clock
       ELSE /\ port_clock' = [port_clock EXCEPT ![cmd.port] = cmd.clock]
            /\ UNCHANGED partial_warnings
    /\ UNCHANGED <<clocks, async_groups, exclusive_groups, false_path_pairs, pin_clocks>>

------------------------------------------------------------------------------
(* synthesize_unconstrained_inputs: input ports nothing types yet. *)
Synthesize ==
    /\ stage = "reading" /\ unread = {}
    /\ stage' = "typed"
    /\ port_clock' = [p \in Name |->
                        IF p \in InputPort /\ clock_for_port(p) = None
                        THEN Unconstrained ELSE port_clock[p]]
    /\ UNCHANGED <<unread, clocks, async_groups, exclusive_groups,
                   false_path_pairs, pin_clocks, partial_warnings>>

SharedPorts == {p \in Name : Cardinality({n \in Declared : p \in ClockOf(n).ports}) >= 2}

UnknownMasters ==
    {n \in Declared : ClockOf(n).master # None /\ ClockOf(n).master \notin Declared}

(* The steps of a walk at which it is back at a clock it has met.          *)
Back(at) ==
    {k \in DOMAIN at : /\ at[k] # None /\ MetBefore(at, k)
                       /\ \A j \in 0..(k - 1) : ClockOf(at[j]).is_generated}

(* A wrong variant of CycleFrom: the way into the cycle is reported too. *)
CycleFromWholeWalk(start) ==
    LET at == Climb(start)
    IN  IF Back(at) = {} THEN {} ELSE {at[j] : j \in 0..(First(Back(at)) - 1)}

(* Check 3 of validate_clock_graph: the cycle a walk up the master chain   *)
(* from start runs into, without the way into it.  {} if there is none.    *)
CycleFrom(start) ==
    LET at == Climb(start)
        back == First(Back(at))
    IN  IF Back(at) = {} THEN {}
        ELSE {at[j] : j \in {i \in 0..(back - 1) : \E h \in 0..i : at[h] = at[back]}}

Cycles == {CycleFrom(n) : n \in {m \in Declared : ClockOf(m).is_generated}} \ {{}}

(* validate_clock_graph, merged into the warnings. *)
Validate ==
    /\ stage = "typed"
    /\ stage' = "done"
    /\ partial_warnings' = partial_warnings
            \cup {<<"shared port", p>> : p \in SharedPorts}
            \cup {<<"unknown master", n>> : n \in UnknownMasters}
            \cup {<<"cycle", c>> : c \in Cycles}
    /\ UNCHANGED <<unread, clocks, async_groups, exclusive_groups,
                   false_path_pairs, port_clock, pin_clocks>>

Init ==
    /\ unread \in Script
    /\ stage = "reading"
    /\ clocks = <<>>
    /\ async_groups = {} /\ exclusive_groups = {} /\ false_path_pairs = {}
    /\ port_clock = [p \in Name |-> None]
    /\ pin_clocks = [p \in Pin |-> None]
    /\ partial_warnings = {}

(* One turn of the loop of parse. *)
Read(cmd) ==
    /\ stage = "reading" /\ cmd \in unread
    /\ unread' = unread \ {cmd}
    /\ \/ CreateClock(cmd)
       \/ CreateGeneratedClock(cmd)
       \/ SetClockGroups(cmd)
       \/ SetFalsePath(cmd)
       \/ SetDelay(cmd)
    /\ UNCHANGED stage

Next ==
    \/ \E cmd \in unread : Read(cmd)
    \/ Synthesize
    \/ Validate
    \/ stage = "done" /\ UNCHANGED vars

Spec == Init /\ [][Next]_vars

------------------------------------------------------------------------------
(* The clocks a clock is derived from, itself included. *)
Derives == [c \in Name |-> {Masters[c]} \ {None}]
Lineage(n) == Within(Derives, {n}, Cardinality(Declared))

Complaints(kind) == {w \in partial_warnings : w[1] = kind}

(***************************************************************************)
(* Whatever the order of the commands, whichever of them override others:  *)
(* if the run printed no clock-graph diagnostic, every clock resolves to a *)
(* declared clock that has no master, and that is the one it is derived    *)
(* from.  The relations compare those roots.  A pin that stops the clock   *)
(* trace stops it at a clock there is, declared on that very pin unless a  *)
(* warning said that the clock was declared twice (what the first          *)
(* declaration left in pin_clocks stays), and no pin a clock is declared   *)
(* on is without one.                                                      *)
(***************************************************************************)
PinIsCurrent(p) ==
    /\ pin_clocks[p] \in Declared
    /\ \/ p \in ClockOf(pin_clocks[p]).pins
       \/ <<"duplicate", pin_clocks[p]>> \in partial_warnings

RootsArePrimary ==
    stage = "done" =>
        /\ \A p \in Pin : pin_clocks[p] # None => PinIsCurrent(p)
        /\ \A n \in Declared : \A p \in ClockOf(n).pins : pin_clocks[p] # None
        /\ Complaints("unknown master") \cup Complaints("cycle") = {} =>
               \A n \in Declared :
                   /\ resolve(n) \in Declared \cap Lineage(n)
                   /\ ClockOf(resolve(n)).master = None

(***************************************************************************)
(* validate_clock_graph reports exactly the cycles there are: a set of     *)
(* clocks is reported iff each of its members is derived from itself and   *)
(* from every other member and nothing else (the walk may enter the cycle  *)
(* from outside, at any member, several times).                            *)
(***************************************************************************)
CyclesReportedExactly ==
    stage = "done" =>
        {w[2] : w \in Complaints("cycle")} =
            {Lineage(n) : n \in {m \in Declared :
                \E c \in Declared : ClockOf(c).master = m /\ c \in Lineage(m)}}

(***************************************************************************)
(* README: a generated clock is synchronous to its master "unless the SDC  *)
(* explicitly overrides via set_clock_groups -asynchronous", up the whole  *)
(* chain: no false path and no group that names a relative changes that.   *)
(***************************************************************************)
GeneratedSyncToMaster ==
    \A n \in Declared :
        \A m \in Lineage(n) :
            (are_async(n, m) \/ is_unreachable_crossing(n, m)) /\ Cycles = {} =>
                \E g \in async_groups : Separates(g, {n}, {m})

(***************************************************************************)
(* No relation is invented: two clocks are asynchronous, or exclusive,     *)
(* only if some statement puts a clock one is derived from apart from a    *)
(* clock the other is derived from.                                        *)
(***************************************************************************)
SeparationIsDeclared ==
    \A a, b \in Declared :
        /\ are_async(a, b) =>
              \E x \in Lineage(a), y \in Lineage(b) :
                  \/ {x, y} \in false_path_pairs
                  \/ \E g \in async_groups : \E i, j \in DOMAIN g :
                        i # j /\ x \in g[i] /\ y \in g[j]
        /\ is_unreachable_crossing(a, b) =>
              \E x \in Lineage(a), y \in Lineage(b) : \E g \in exclusive_groups :
                  \E i, j \in DOMAIN g : i # j /\ x \in g[i] /\ y \in g[j]

(***************************************************************************)
(* And none is lost: when a -asynchronous statement puts the primaries of  *)
(* two clocks apart, crossings between everything derived from them reach  *)
(* the rules, unless an exclusive statement names a relative, or a clock   *)
(* has the name of a port (filter_async looks clock names up as ports).    *)
(***************************************************************************)
Primaries(n) == {p \in Lineage(n) \cap Declared : ClockOf(p).master = None}
Exclusive == UNION {UNION ToSet(g) : g \in exclusive_groups}

DeclaredAsyncIsKept ==
    stage = "done" /\ Complaints("unknown master") \cup Complaints("cycle") = {} =>
        \A a, b \in Declared :
            /\ \E g \in async_groups : \E x \in Primaries(a), y \in Primaries(b) :
                  /\ x # y
                  /\ \E i, j \in DOMAIN g : x \in g[i] /\ y \in g[j]
                  /\ \A i \in DOMAIN g : ~({x, y} \subseteq g[i])
            /\ (Lineage(a) \cup Lineage(b)) \cap Exclusive = {}
            /\ clock_for_port(a) = None /\ clock_for_port(b) = None
            => Kept(a, b)
=============================================================================
