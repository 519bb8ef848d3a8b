# A TLA+ model of rtl-buddy-cdc

rtl-buddy-cdc is a static clock-domain-crossing checker. It elaborates a
SystemVerilog design to a netlist of cells, decides which clock every register
belongs to, reads the clock relations from an SDC file, searches the netlist
for paths from a register of one clock to a register of another, applies rules
to the crossings it found and reports what waivers and the baseline leave.

A checker of this kind is wrong in two ways. It may report what is not there,
which is noise, or it may be silent about a crossing that exists, which is a
bug nobody sees: the report is shorter, the exit code is 0, and no test of the
surrounding design fails. Nearly all properties here are about the second way,
and the ones about the first ask for exactness, so that they cover both.

## The system

All paths are under `src/src/rtl_buddy_cdc/`.

| part | code | state it keeps | operations |
|---|---|---|---|
| netlist loader | netlist.py, flops.py | the module: cells, ports, bit lists | load, find_flops |
| clock-domain tracing | domain.py `_trace`, `assign_domains`, `find_clock_combines` | visited bits and remaining hops per walk; combines met | trace the CLK pin of each flop to a root |
| crossing search | domain.py `find_crossings`, `_make_fanout_filter` | distances per clock, visited bits per source, grouped records | backward walk per clock, forward walk per source, for flops, ports and instance pins |
| clock specification | sdc.py `ClockSpec`, the handlers, the validators | clocks, pin clocks, async groups, exclusive groups, false-path pairs, warnings | one handler per SDC command; resolve, are_async, is_unreachable_crossing |
| SDC reader | sdc.py `parse`, tcl_worker.py | probe cache, "warned" flag, the worker process | choose a backend, probe, run the worker under two time limits, fall back |
| pragmas | pragma.py | open regions | disable-rule, enable-rule, end of file |
| hierarchical composition | hierarchy.py, compositional.py, abstract.py | summary cache, declined types, lifted findings | summarise an instance, decline it, analyse its inside once, refuse it for reconvergence |
| rule pack | rules.py | a context of shared indices; the violations | some thirty rules over crossings and netlist |
| reset domains | reset_domain.py | per-flop reset source, chains | classify, recognise reset synchronizers, list reset crossings |
| clock-network crossings | clock_network.py | none | control pins in clock paths |
| waivers, baseline, exit code | waivers.py, cli.py | the finding buckets, the report on disk | suppress, carry over, promote, write, exit |
| maps, reports, rendering | domain_map.py, reset_domain_map.py, reporter.py, render.py | none | format |
| frontends | frontend.py, frontends/ | none that survives a run | elaborate with slang or yosys |

How they interact. The CLI calls them in that order in one thread; each hands
its result to the next and never looks back, with two exceptions. The search is
run a second time when an instance is refused for reconvergence (cli.py 902).
And a report written by one run is read as the baseline of a later one, so the
last part has a history that spans runs, edits of the design and crashes. The
only concurrency is with the Tcl worker process, a second program that may
finish, fail, overrun, crash or hang at any point.

What is hard here, then, is mostly not interleaving but walks: searches on
cyclic graphs with budgets, visited sets, pruning and early exits, where the
order in which things are reached must not show in the result. Concurrency,
failure and restart matter in the SDC reader and in the chain of runs.
PROJECT.json lists the hazards at their lines.

### What makes each part correct

* Search: exactly the pairs that have a path within the hop budget are
  recorded, with every landing bit and the fewest hops, however the filter
  prunes and the walk is ordered; and paths are those of the silicon.
* Tracing: a flop's clock feeds the flop; where no decision was taken the
  result is exact; cycles end; a larger budget is not worse.
* Clock specification: relations follow declarations through generated clocks,
  in both directions, whatever the order of commands; cycles are reported.
* Reader: every file is read, completely or with the loss announced; the worker
  is gone afterwards.
* Pragmas: a line is waived exactly where the text says so.
* Triage: a run that succeeds hides nothing; an old finding does not come back.
* Composition: an abstracted design reports what the flat one does, or says that
  it did not look; what a block is given does not depend on who was looked at
  before it.
* Rules: what the rules are silent about is contained by a synchronizer; the
  views that repeat a rule's work (domain map, clock network) agree with it;
  caches do not show.
* Resets: a register excused from the reset rules does not race the release.

## Modules

    Reach              what lies within k steps, for the walks to be measured by
    Netlist            the cells and the two step relations (Fwd, reverse lists)
      Crossings        find_crossings as a state machine
        CrossingsSilicon   ... together with data that travels in the silicon
        CrossingsRefine    ... implements CrossingReport
      CrossingReport   the abstract promise
    ClockTrace         the clock trace of every flop
    ClockSpec          the SDC commands and the questions asked afterwards
    SdcReader          reads, probe, worker
    Pragma             the scanner
    Triage             waivers, baseline, report, exit code
    RuleContext        what every rule reads: netlist, crossings, indices, cones
      SyncShapes       chains, shift registers, gates, gray codes, pulses
        DataRules      the CDC rules on crossings, and the domain map's verdict
          ResetRules   reset sources and chains, the RDC rules
          ClockRules   the clock network, its rules and its crossing view
            RulePack   run_all as a state machine, and its properties
    Composition        compose_boundaries, the search over summaries, refusal
      CompositionFlat  ... against the flattened design
    Induction          lemmas about the naturals, recursion and Within
    CrossingsTheorems, ClockTraceTheorems, ClockSpecTheorems, SdcReaderTheorems,
    WaiverTheorems, RulePackTheorems, CompositionTheorems
                       proofs about the modules named
    MC*                the constants of the TLC runs

### Netlist, Crossings

A design is a record of cells (kind and pins, each pin a sequence of bits), of
sources (a flop's Q, an SDC-typed input port, an output pin of a summarised
instance) and of sinks (a flop's D, or the virtual sink of a summarised
instance's input pin), with their clocks. The fifty-odd Yosys cell types are
grouped by how `_lane_targets` treats them: bitwise and mux-like cells, whose
lane i drives only `Y[i]`, cells that spread to all outputs, flops and latches,
and `$scopeinfo`. `Fwd` is the step of the flop and port walks and `FwdAll` the
step of the instance-pin walk, which does not narrow to lanes; `RevLists` are
the lists the filter reads backwards.

State corresponds to the locals of the code: `dist` is `dist_to`, `seen` and
`frontier` the visited map and queue of a walk, `expanded` the set of
`id(preds)`, `grouped` the records. `StartClock`, `BackwardLevel` and
`ClockDone` are the loop of `_make_fanout_filter`; `SkipFlop`, `StartSource`,
`WalkLevel`, `SourceDone` and `NextStage` the three loops of `find_crossings`.
A breadth-first level is one step: the code takes its queue in order, and
nothing else reads the state meanwhile. Clocks and sources are taken in any
order, where the code has the order of a dict, so the results are shown not to
depend on it.

`CrossingsSilicon` adds an environment: a source launches a change, and one
combinational cell at a time passes it on along any lane it can influence by
the semantics of the cells (`Influences`, from the Yosys cell library, not from
this code). It launches after the search has returned, because the search reads
a netlist that does not change, and the question is what the returned records
cover.

### ClockTrace

Each bit of the clock network is driven by a buffer, gate, mux, latch, divider,
port, pin with an SDC clock, or nothing. `Visit(n, below, b, path)` is one call of
`_trace` at bit b, where `path` is the set the code calls `seen` and `below` what
the recursive calls yield; `Trace(n, d, bit)` applies it d times, level by level,
and returns the root and the combines met on the way. Cycles end as they do in
the code, by the visited set and the budget. `Pick` is `_pick_combining_root`.
`TraceFlop` is one iteration of the loops of `assign_domains` and
`find_clock_combines`.

### ClockSpec

`Read` takes the next command of the file, each handler is an action
(`CreateClock`, `CreateGeneratedClock`, `SetClockGroups`, `SetFalsePath`,
`SetDelay`) with its early returns (a clock without a period, or without a name and a
target, is dropped), then `Synthesize` and `Validate` are the two passes after it.
`resolve`, `are_async`, `is_unreachable_crossing`, `clock_for_port` and `Kept`
(`filter_async`) are operators named as in the code. The loops that follow masters
(`resolve`, the third check of `validate_clock_graph`) are one function of the
turns taken, `Climb`, cut off after as many turns as there are clocks; each loop
leaves it at the first turn its own test holds. Periods, delays and the
glob expansion of `get_ports` are data that no relation looks at.

### SdcReader

One process parses several files, in any order, and keeps the probe's answer and
the "already warned" flag between them. `Parse` asks the probe if nobody did,
`Resolve` picks the backend, and a worker is spawned for the file: it arms its
limits, records commands, finishes, fails, exceeds its own limit, crashes or
wedges, while time ticks; the parent reads the answer or kills the worker when
its own limit is over, and the tokenizer reads the file again. `Timeout` is the
worker's limit plus the margin, as `_run_worker` computes it.

### Pragma

`ScanLine` is one line of `scan_text` with its list of rules (`ApplyAll`),
`EndOfFile` closes what is open and sorts. `Apply` is the effect of one rule id of
one pragma. The actions are named apart from those of `Triage`, so that one module
can prove about both.

### Triage

`Analyse` is a whole run in memory up to opening the report: rules (abstracted to
the set of findings the design has at that moment), waivers in order, baseline,
`--strict`. `Finish` writes the report and sets the exit code, `Crash` dies in
between and leaves a truncated file, `BadBaseline` is a run that cannot read
one. Findings differ in what waivers and the baseline look at. A regular
expression is the set of texts it is found in. The auxiliary variables `told` and
`standing` remember, across runs, what failed a run and what has been there
unwaived ever since.

### RuleContext, SyncShapes, DataRules, ResetRules, ClockRules, RulePack

A design for the rules is a netlist whose cells, flops and latches have typed
pins, with ports, clocks, periods, and the bits that carry an attribute.
`CrossingsOf` is the search of `Crossings` in closed form (that the search
computes it is what `Crossings` shows). Each flop has two clocks: `clock`, what
the tracer answers with the SDC at hand, which the crossings carry, and `root`,
what `run_all`'s own context answers, which the rules compare with.

Every rule is an operator from a design and its crossings to a set of findings,
named as in the code: the shapes it recognises are in SyncShapes (`Chain` is
`_sync_chain_flops`, `PackedDepth` the packed shift register, `Gated`,
`GrayCoded`, `Feedback` and the pulse shapes of pulse.py), its filters and its
order of early returns in DataRules, ResetRules and ClockRules. A finding keeps
the rule, the crossing or group it is on, the cell and the severity; messages
are left out. `Scheme` is `crossing_synchronizer`, the verdict the domain map
publishes, and `ClockCrossings` the view of clock_network.py; both repeat in
other code what a rule decides.

RulePack runs them in the order of `run_all`. `Check` is one rule, except
CDC-012, which looks at one crossing at a time (`HoldCheck`, in any order) and
remembers one answer per source; `Tag` links the findings of an incomplete
handshake. CDC-023 is the decline event of `ClockTrace` turned into a finding. A clock
is resolved to its master where a rule does so (`Primary`, CDC-006).

### Composition, CompositionFlat

A design is a graph of one-bit pins: registers of the parent, pins of instances,
data edges through the parent's cells, and for every clock pin the root that
feeds it with the number of cells between. A module has a body of the same kind.
`ClockPins` is `_instance_clocks`, `ForwardsClock` the clock-output decline,
`Summaries` what `summarise_subtree` may return (a set, because a block of two
synchronous roots takes whichever its frozenset yields first), `PrimitiveSummary`
the summary of a sanctioned synchronizer. The internal analysis of a greybox is
`InnerClock`, `InnerCrossings`, `SyncDepth`, `ReconvergentInputs`, translated
from compositional.py and the chain walk of rules.py.

`Summarise` and `Reuse` are one iteration of the loop of `compose_boundaries`,
with and without a cached answer; instances are taken in any order.
`AcceptPrimitive` and `DeclineForwarder` are its two early ways out. `Search`,
`Refuse` and `Cover` are the CLI: first search, refusal of blocks that may hide
a reconvergence with the second search, and one CDC-BBX finding for every
instance of a declined type.

CompositionFlat is the reference: the same graph with the bodies in it. A path
is `Routes` (through the parent, and combinationally through instances) between
`LaunchedAt` and `CapturedAt`; `FlatClock` is what a flat run assigns within the
same budget, looking through outputs that carry a clock.

Simplifications: data edges have no hop count (that budget is `Crossings`'
matter); asynchronous means of different families, exclusive groups are left
out; no dividers on pins that are clocks by name hint only; no inout ports; one
pin per side of a primitive, and a primitive drives its outputs from the sides
it claims; the fall-back
from instance to type name in `_boundary_for` serves hand-made maps only; the
output-side synchronizer proof is left out because no rule reads it.

## Runs

| run | instance | what it shows |
|---|---|---|
| crossings | 432 designs of two or three cells, nine bits, two clocks, hop budget 2: 240 whose cells feed one another and themselves, 192 around a two-lane cell of every kind; 37,924 states | `FilterExact`, `RecordsExact`: the pruned, level-by-level search is exact. `FirstLandingIsNearest`: no later landing improves a record. `ImplementsReport`: refinement of the abstract list, liveness included. `NoSilentCrossing`: what travels in the silicon was reported; `HwInv`: the inductive invariant of its proof, types included |
| clock_trace | 51,840 networks over eight bits with sharing, loops and legs of different depth, budgets 1 to 5 | an assigned root feeds the flop; a walk without a decision is exact; a deeper walk loses a flop only to a combine it reports |
| clock_spec | every file of three or four of twenty-two commands, in every order; 168,730 states | roots, pins that stop the trace, cycles, inheritance of synchrony, clocks are asynchronous when, and only when, a statement puts their ancestors apart |
| sdc_reader | three files (one evaluates, one has a Tcl error, one loops), limits of two ticks, all fates of a worker | no orphan, no partial capture, no silent fallback; the inner limit fires first; every read ends |
| pragma | every text of up to four lines over two rules | regions are exactly the disabled lines, with the newest reason |
| triage | four findings, five designs, four sets of waivers, ten combinations of flags, chains of any length | nothing hidden, nothing told twice |
| rules | 2949 designs of fifteen families (chains, buses, packed shift registers, words, events, ports, latches, reset chains and sources, clock nets, macros, ...), stage and cone budgets the shapes can exceed; 109,700 states | `SilentIsContained`: a crossing no rule reports and nobody vouches for is seen, where it may be metastable, by one register of its clock only. `MapMatchesLint`, `ClockViewMatchesLint`: the two other views agree with the rules. `JudgedBySource`: CDC-012 judges the buses of a source alike, by an answer of its own. `ReconvergenceTold`: two copies that meet again are told. `UntypedPortTold`: a port nobody typed is told if and only if a register takes it, and as an error when registers of two clocks do. `QuietOnRelease`: an excused reset stage does not move on the release. `StagesExcused`: a chain the walk has room for is excused whole, also when it goes on |
| compose | 3614 designs of one or two instances in nine families, clock budget 3; 24,754 states | `NothingSevered`: a path between asynchronous registers has a recorded crossing, a CDC-BBX, a sanctioned synchronizer or an inner finding on it, but for four named ways. `SummaryIsItsOwn`: the cache does not show. `ReconvergenceKept`: copies that meet inside a block outlive its abstraction. `QuietIsSynchronised`: where a proven depth silences CDC-001 there is a synchronizer |

The bounds are the smallest at which the interesting case exists: a hop budget
that ends inside the design (crossings), a network in which two gates nest and
one reconverges (clock_trace), three clocks in a generator cycle and one outside it
(clock_spec), a second file that meets the cached answer of the probe (sdc_reader), a
region reopened and closed (pragma), a report that is baseline of a baseline
(triage), chains one stage longer than each budget (rules), clock pins at, below
and beyond the clock budget, cells on either side of a pin, an instance that clocks
another or the parent, and two instances that could share a cache entry (compose). Every property has a wrong variant of the modelled code, kept in the
module beside the right one ("A wrong variant of ..."), under which TLC finds it
violated: the instances are large enough to tell them apart.

Four runs end in a violation. They state what the repository says of the
program, and the counterexample is what the code does:

* `square_pmux`: a `$pmux` with as many cases as data bits has a select as wide as
  its output, `_lane_targets` takes it for a data lane, and crossings through the
  select to other lanes are not reported.
* `rule_context`: `run_all` builds its context without the SDC's names, so a clock
  that is not named like its port makes CDC-001 report a correct synchronizer.
* `shared_source`: CDC-012 remembers one answer for each source register, while the
  walk it remembers asks for a register of the clock that takes the bus. Where two
  domains take one bus and one of them acknowledges, the crossing looked at first
  decides for both (rules.py 4310): `HoldExact`, the promise of the docstring, fails.
* `renamed_clocks`: with such a clock, the analysis of a greybox knows no
  asynchronous pair at all (`derive_sub_spec` declares the port's name, which is
  in no group), and crossings inside the block disappear without a finding.

The four ways in which `NothingSevered` lets a path be lost are what the code
does, each found as a counterexample first and repeated with the program:

* `LeavesUntyped`, `ThroughManyClocks`: a block of several clocks leaves what
  goes through it combinationally on no input and gives the output no clock; as a
  source without a clock it is skipped by CDC-001, and CDC-011 groups ports only.
  The comment at abstract.py 519 says the path is still covered.
* `ClockUnseen`: a forwarded clock into a clock-like pin of a type no instance of
  which has a resolved clock is no clock sink to anybody, so neither side is
  declined (abstract.py 787, 830).
* `Renamed`: the run `renamed_clocks`.

Other disagreements met on the way, seen as counterexamples of the same models
and not kept as runs:

* `_boundary_sink_flops` (domain.py 263) says a sink without a clock is still
  crossed into; the three walks skip it (1384, 1457, 1539). The model has the
  code's behaviour (`Foreign`).
* `_pick_combining_root` (domain.py 479) says a flop behind a combine is surfaced
  as unresolved; when the combine feeds another gate with a clock on its other
  leg, the flop gets that clock.
* `is_unreachable_crossing` (sdc.py 294) takes the first group that lists a clock
  or its root; where one clock's root is in the other's group the two count as
  coexisting.
* `filter_async` (domain.py 1629) looks clock names up as port names: a clock
  with the name of another clock's port is taken for that clock.
  `DeclaredAsyncIsKept` excludes such names.
* `--clock-trace-depth` is documented as monotone (README.md 105); a deeper walk
  may reach a second clock at a gate and resolve nothing (domain.py 793).
* A generated clock with `-source` and no `-master_clock` has no master, although
  both are documented to name it (sdc.py 1130).
* A pragma in `fifo.sv` waives findings in `async_fifo.sv` (waivers.py 212).
* A second `create_generated_clock` of a name leaves the first one's entries in
  `pin_clocks` (sdc.py 1183). The duplicate is warned of, and `RootsArePrimary` excepts
  pins of clocks with that warning only.
* Two rules of one pragma come out in the order they were closed, not written
  (pragma.py 139).

In the rules:

* Beside what `shared_source` shows, the map publishes an acknowledge of each crossing
  by itself (rules.py 5633): where the takers of a source are not alike, map and CDC-012
  part. `MapMatchesLint` asks that a "mux" is told of, and that what is told is
  a "mux" or "static", where they are (`Agreed`).
* CDC-017 keeps one register per latch output bit, so a latch that registers of
  two clocks read may go unreported; a latch enable on a clock outside the
  clock network is data to CDC-008.
* Reader counts leave out output ports and clock pins, so a stage whose value
  also leaves the design counts as read once.
* RDC-008 fires on chains of one clock as well; the walk of
  `find_reset_synchronizers` ends after a fixed number of stages and calls the
  rest of a longer chain unsynchronized.
* Two resets driven by different logic have the same signature `("", "comb")`,
  and polarity is no part of it; RDC-007 looks at one chain per head. No rule
  reads the value a stage is reset to. `QuietOnRelease` leaves such resets out.
* `find_reset_crossings` lists pairs that are not asynchronous, and clear and load
  pins that no rule reads.
* CDC-014 does not honour `cdc_static` on the source, which the map shows as
  "static"; CDC-012 warns on static sources.

In the composition:

* The first stage of an inner synchronizer may leave the block through an output
  port and still be proven (`QuietIsSynchronised` excepts it by `leaving`), though
  rules.py 1292 says CDC-001 "goes quiet exactly where the flattened design would
  be quiet".
* A block of two synchronous roots takes the first of a frozenset (abstract.py 422),
  so reports depend on the hash seed; the comment there says never a "first one
  wins" pick. `Summaries` has both.
* A listed clock pin whose trace fails leaves the block without clocks, and it is
  abstracted as combinational without a CDC-BBX, where `is_single_clock_subtree`
  says an unknown clock never counts as a single one.
* A register of an opaque block whose clock pin is not named like a clock, or has a
  declared clock at no instance of the type, has clocks nobody knows
  (`blackbox_clock_pins_by_module`): what it takes or gives across is not seen, and
  no CDC-BBX says so. `NothingSevered` and `ReconvergenceKept` except it by `ClockUnseen`.
* Inside a block the clock trace starts anew at the pin, so a composition resolves
  registers that a flat run with the same budget does not (`InnerClock`, `HopsInside`).
* The walk for clock outputs goes one cell farther than the trace it mirrors
  (abstract.py 923); `DrivesClock` and `Trace` keep the difference.
* Two proven chains that meet in the parent, behind output ports of the block, are
  not a reconvergence to the code.

### Fairness

`Crossings` has weak fairness on `Next`: one thread that runs until it returns.
`SdcReader` has it on the steps of the parent, on the passing of time and on the worker's own
limit (the Tcl interpreter checks it while it runs), and none on the worker's
finishing, crashing or wedging: the environment owes nothing, and reads end
because the parent's limit is a timer. The other modules have no liveness
property; their loops are bounded by the length of a file.

## Proofs

TLC's instances are small; these hold for all values of the constants, that is
for every netlist, clock network, budget, chain of runs or behaviour of a worker
the assumptions admit. 38 of the 40 properties of the passing runs are theorems,
every invariant among them; the other two are liveness.

| module | theorem | property | what it says |
|---|---|---|---|
| CrossingsTheorems | `TypeCorrect` | | types of the search (a conjunct of `HwInv`) |
| | `SearchInvariant` | | `IInv`: the maps of the search are closed |
| | `ReverseIsExact` | | the reverse lists are the converse of the forward step |
| | `LanesLoseNoPath` | | narrowing to lanes covers what the silicon can do |
| | `FilterMeasuresPaths` | `FilterExact` | distances are those of shortest paths, as far as the budget goes |
| | `CrossingsAreExact` | `RecordsExact` | the records are the pairs with a path in the budget, whole and nearest |
| | `NearestComesFirst` | `FirstLandingIsNearest` | no later landing improves a record |
| | `KeepsThePromise` | | the safety half of `ImplementsReport`, step by step |
| | `SearchEnds` | | a pair of naturals goes down with each step, and until the list is returned a step is due |
| | `DataNeverAhead`, `NothingSilent` | `HwInv`, `NoSilentCrossing` | what travels in the silicon was reported |
| ClockTraceTheorems | `ClockReachesFlop` | `DomainFeedsFlop` | a flop's clock feeds it, a combine is of clocks that do |
| | `CleanWalkMissesNothing` | `CleanWalkIsExact` | a walk without a decision finds the one clock there is |
| | `DepthIsSafe` | `DeeperLosesOnlyToCombine` | a deeper walk loses a flop only to a reported combine |
| ClockSpecTheorems | `ClocksAreToldOf` | | `IInv`: what the diagnostics of the clock graph say is so |
| | `ClocksResolve` | `RootsArePrimary` | a clock resolves to the one primary it is derived from; a pin names the clock declared on it |
| | `CyclesAreTold` | `CyclesReportedExactly` | the cycles reported are the cycles there are |
| | `DerivedIsSynchronous` | `GeneratedSyncToMaster` | a clock is synchronous to what it is derived from |
| | `NothingIsInvented`, `DeclarationsHold` | `SeparationIsDeclared`, `DeclaredAsyncIsKept` | the relations are those the statements declare |
| | `GroupOrderInvisible` | | where no statement lists a clock twice, the order of its groups does not show |
| SdcReaderTheorems | `SdcTypeCorrect`, `NoOrphan`, `WholeCapture`, `FallbackTold`, `InterpreterFirst` | `TypeOK`, `NoWorkerLeftBehind`, `CaptureIsWhole`, `FallbackIsSaid`, `InterpLimitFirst` | all safety properties of the reader |
| | `ReadsEnd` | | a pair of naturals goes down with each step, and until all files are read a reliable step is due |
| WaiverTheorems | `RegionsFollowText` | | `ScanInv`: the regions say what the lines read so far say |
| | `WaivedAsWritten`, `NewestWins`, `InOrderOfText` | `RegionsExact`, `NewestReasonApplies`, `OrderOfDisable` | all properties of the pragma scanner |
| | `TriageTypeCorrect`, `NothingSlipsIn`, `ChainIsStable`, `ZeroMeansClean`, `PragmaIsFirst` | `TypeOK`, `CarriedWasTold`, `FailsOnce`, `SuccessHidesNothing`, `PragmaWins` | all properties of the chain of runs |
| CompositionTheorems | `Composes` | | `ComposeInv`: what the walk over the instances has made sure of |
| | `CacheInvisible` | `SummaryIsItsOwn` | the summary cache does not show |
| | `QuietForAReason` | `QuietIsSynchronised` | a proven depth is a synchronizer of the flat design |
| | `NoPathIsSevered` | `NothingSevered` | no path between asynchronous registers is lost but in the named ways |
| | `SameInside` | (`SameAnswerInside`) | without renamed clocks an analysed block finds its own asynchronous pairs |
| | `ReconvergenceIsKept` | `ReconvergenceKept` | chains that meet inside a block are reported |
| RulePackTheorems | `CacheIsPerSource` | `JudgedBySource` | CDC-012 judges the buses of a source alike, by the answer of one of them |
| | `CacheIsExact` | (`HoldExact`) | where the takers of every source have one answer, CDC-012 is right of each crossing |
| | `MapAgrees` | `MapMatchesLint` | the domain map's verdict agrees with the rules |
| | `CopiesMeetSaid` | `ReconvergenceTold` | copies that meet again are told |
| | `UntypedIsTold` | `UntypedPortTold` | an untyped port is reported if and only if a register takes it |
| | `FollowedUpAccepted` | (`FollowedUpIsAccepted`) | without renamed clocks CDC-001 accepts what is followed up |
| | `SilenceContained` | `SilentIsContained` | what nothing reports is seen by one register |
| | `ChainsAreExcused` | `StagesExcused` | a reset chain the walk has room for is recognised |
| | `SynchronizersAreQuiet` | `QuietOnRelease` | an excused reset stage does not move on the release |
| | `ViewAgrees` | `ClockViewMatchesLint` | the clock-network view agrees with CDC-010 |

### The arguments

**Search.** `NoSilentCrossing` is about a path nobody walked in that order, so
it is not inductive. `IInv` says instead that the two maps are closed. Distances
are closed under one reverse step: a bit at distance d hands d + 1 to all its
predecessors (`DistClosedBelow`). Visited bits are closed under one forward step
that the filter lets through, and everything they land on is recorded
(`SeenClosedBelow`). While a walk is in progress this holds below its depth, and
the frontier is exactly the bits at that depth; that strengthening carries the
induction over levels. `DataInv` then follows the travelling change: it is never
ahead of the visited map, unless it is where the filter has shown that no
foreign register is left within the budget, and from there it cannot reach one,
because a distance at which the filter pruned is, by closure, inherited along
every step.

Closure gives completeness. For exactness `RealInv` adds the other direction:
a distance that is noted is that of a path (`DistReal`), a visited bit is
reached in as many steps as noted (`SeenReal`), a record has only bits the source
reaches, none earlier than its hops (`RecordReal`, `RecordTimely`). The two
together pin the maps to reachability, and the refinement of `CrossingReport`
follows: each step of the search reports pairs that cross, and the last one
returns a list that is whole.

That the search comes to its end rests on two numbers: the walks there still are
to begin (`Starts`: clocks to filter, sources to search) and, within a walk, the levels
the budget still allows (`Levels`). `SearchEnds` shows that each step makes the first
smaller, or the second with the first as it was, and that before the end some step
is due. Loops of the netlist do not enter the argument, the budget does.

**Reachability and recursion.** What lies within k steps is `Within` (Reach), a
recursive function over the naturals. Induction proves that such a function exists and
is unique (`IterationExists`, `IterationUnique`, `RecursionExists`), then that
`Within` grows, prepends, reverses and may avoid a bit. Every induction is a least
counterexample: the set of naturals that refute the statement has a least
element (`LeastNat`), and the model's own step rules it out. The clock trace, the
cones of the rules and the distances of the filter are all proved about in this
way, without a structural induction over data.

**Tracing.** `Trace` goes level by level: what all walks of d + 1 cells yield is
`Visit` of what all walks of d cells yield (`WalksExist`). Four facts about one
visit (`VisitFrom`, `VisitKeeps`, `VisitType`, `PickFrom`) carry the rest.
`WalkJustified`: by induction on d, a root or a declined clock is that of a source
within d cells. `WalkComplete`: a source t within d cells of b around the bits
already on the path is found if nothing was declined. The path grows with the
walk, and a shortest way never comes back to b, so the induction holds with
`WithinAvoids`, which is why loops and the `seen` copies of the code do no harm.
`DeeperResolves` compares two depths at once: if the shallow walk resolved
through one leg and the deep one declined nothing, the deep one's leg resolved
too. `TraceInv` says that what is recorded of a flop is what its walk yields.

**Clock relations.** What a run of `parse` leaves behind is simple (`IInv`: only a
generated clock has a master, a group has a first position, the diagnostics
say what the graph is; of the pins, `PinsInv`: each names a declared clock, and one that
is not declared there any more was redeclared, with a warning). The work is in the walk. A walk up the
master chain of more steps than there are clocks meets a clock twice, by the
pigeonhole principle (`FS_PigeonHole`), so the cut of `Climb` is never felt:
every walk ends above a clock without a master, at a name nothing declares, or
at a clock it has met (`WalkEnds`). `Lineage`, which the properties use, is the
set of what the walk passes (`LineageIsTheWalk`), so a root that ends the walk is the
only one in the lineage, and a lineage that comes back to where it started
is a cycle. Two clocks of one lineage end at one root, so only step 1 of
`are_async`, which asks for the names themselves, can part them.

`are_async` and `is_unreachable_crossing` ask for the first group that lists a clock or its root. If a
statement lists neither a clock nor its root in two groups, the first such group is
the only one, and "in different groups" can be said without an order
(`SeparatedWhenApart`); `GroupOrderInvisible` carries that to both relations.

**Reader.** `SafetyInv` ties the place the parent is at to the worker it waits for
(`ParentInv`: none between two requests), an answer to a whole capture
(`AnswerInv`), and the interpreter's clock to the parent's (`ClockInv`: it starts
later and is not overrun while a script is evaluated).

`ReadsEnd` measures what is left by `Turns` (files not begun, and how far the parse in
progress is) and, while the parent waits, by `Patience` (the time to the parent's
deadline, and what the worker can still go through). A wedged worker takes no
step, but time does, and then the parent kills it.

**Pragmas.** `Says` speaks of the lines read so far and, within a line, of the
rules of its list gone through so far (`named`): a rule has one open region at most,
no pragma has named its rule since, a closed region ended at the next
pragma that named its rule, and where a rule is off a region covers the line. One
rule of a list keeps it (`ApplySays`), then a whole list (`ApplyAllSays`, a recursion
over the naturals), a line without pragma (`NextLineSays`) and the end of the
file (`RestIsTold`). A list that names a rule twice leaves an empty region behind,
so "one region per line" needs `StartsOnce`: of two regions that start together
all but one end where they start. That the stable sort is a permutation is
counting: the number of regions before a region in the order is its place
(`SortedIsOrdered`, by `FS_Subset` and `FS_Injection`).

**Triage.** `TriageInv` relates the report on disk to what the chain has told: what
a whole report passes on is exactly what is standing, all of it told before, and
a missing or truncated report leaves nothing standing (`BaselineInv`). Of the run in
memory, the findings that no waiver takes are the new and the carried-over ones,
the latter stand and the former do not (`RunInv`), and a suppressed finding names
the first waiver that matches (`SuppressedInv`).

**Rules.** `RunInv` says that the findings are exactly what the rules before
`turn` answer, none under another rule's name, whatever `Tag` linked (`SaidInv`),
that each cached answer is that of a gated crossing of its source (`CacheInv`),
and that CDC-012 has said of each crossing it has looked at what the cache says of
its source (`HoldInv`); at the end the gated buses of a source have one answer, that
of one of them (`HeldAtEnd`), which is `CacheIsPerSource` and, where the answers agree,
`CacheIsExact`. With it
every property becomes a statement about the operators of one design: a chain
stage has one reader, so the bits of a contained crossing go nowhere else; a cone
of a cone is a cone; the walk of `find_reset_synchronizers` joins registers of
one clock and one reset.

`UntypedIsTold` compares two searches. The code walks forward from the port, by
`LaneStep`; the property looks back from the register, by `LaneFaninStep`. The two
steps are each other's converse (`LaneSteps`), hence so are the walks (`LanesMeet`), and the
crossings from an untyped port are exactly the registers that take it by D
(`PortCrossings`). What CDC-011 adds from resets it finds backwards itself, so the captures
it counts are the takers (`CapturesAreTakers`).

`FollowedUpAccepted` is about the walk of `_sync_chain_flops`: the readers of a bit are
finitely many (`ReadersFinite`), so one reader means one register takes the bit by D
(`SoleReaderFollows`), it is the next stage, and a chain with a next stage never gets
shorter (`ChainOfTwo`).

**Composition.** `ComposeInv` says that the cache holds summaries of its keys
(`CacheInv`), that an instance was given the summary its own wiring leads to
(`OwnInv`), that an instance no longer to be looked at has a boundary or a declined
type, and a type that carries a clock is declined (`LookedInv`), and, once the
search is over, that the crossings are those of the boundaries there are and no
opaque block is entered at two ports (`PhaseInv`; taking boundaries back adds no
crossing, so one refusal is enough). At the end every instance has its summary or a CDC-BBX.

`NoPathIsSevered` then is an induction along a path. A route alternates between
wires and instances (`RoutesAreWays`). The first wire leaves from the clock family
of the launching register (`RouteStarts`), a wire without a crossing stays in it
(`WireKeepsFamily`), an instance of one clock hands it on (`RoutePasses`), and the
last wire ends in the family of the capturing register (`RouteEnds`): so the two were
synchronous. What it rests on is that a register whose clock is not lost has in the
composition the clock of the flat design (`TopClocked`, `BlockClocked`), because a
clock that passes an instance makes that instance's type a declined one (`CarrierTold`).
`ReconvergenceIsKept` has the same beginning: both ports are entered by a crossing
(`PortIsEntered`), so the block was analysed; a port CDC-001 does not complain of
has one head (`QuietPort`), and the chain from it is the same under the roots of the
pins and under those of the flat design (`ChainSame`).

### Assumptions

Constants: budgets are natural numbers, sentinels differ from names. Designs are
what the loader hands over: pins are finite words of bits, constants are no bits,
names of sites are numbers, finitely many, and no flop has the name of a cell or a
latch (`DesignAssumption` of RulePack), a
flop that is both source and sink has one clock (`IsDesign` of Crossings), an
untyped port is asynchronous to every clock the SDC declares and is not itself a clock
port (`WellTyped` of RulePack: `synthesize_unconstrained_inputs` and `are_async`), a
source of the clock network has a name and a transparent cell at most one leg
(`NetworkAssumption`: `_BUFFER_TYPES` have one input `A`, a flop one clock pin),
pragma waivers carry their file (`InputAssumption` of Triage), a sanctioned
synchronizer drives each output from registers of the side its port is named after,
which is all the code knows of it (`KeepsConvention`, part of `DesignAssumption` of Composition), the commands of a
script are those the handlers parse (`ScriptAssumption` of ClockSpec). Nothing is
assumed of the graphs: they may be cyclic, and bits may have several drivers.
TLC evaluates each assumption on the instances of its run. `SearchEnds` and `ReadsEnd`
ask in addition that the clocks, the sources and the files are finitely many, and
`GroupOrderInvisible` is about two clocks that no statement lists twice
(`Unambiguous`).

Eight theorems have one of six hypotheses on the designs, and each is a place where the
code is not right without it:

* `SelectsStayWide` (`DataNeverAhead`, `NothingSilent`, `LanesLoseNoPath`): no
  select port is as wide as the output. The run `square_pmux` breaks it.
* `ResetIsOneBit` (`SynchronizersAreQuiet`): no two bits of one register are
  resets of registers, because a reset's source is the register that drives it
  (`_classify_reset_source`), whichever bit is used.
* `NamesAgree` (`ViewAgrees`): the registers that steer the clock network carry
  the name the SDC gives to their root, and a name is not renamed again. CDC-010
  reads roots and the clock-network view clocks, so an SDC name that is another
  port's name takes them apart.
* `NamedByRoot` (`FollowedUpAccepted`): the SDC names every clock as its root. The run
  `rule_context` shows the false alarm where it does not, and the theorem that a
  renamed clock is the only way to it.
* `TakersAgree` (`CacheIsExact`): the crossings of a source either all have an
  acknowledge or none has. The run `shared_source` breaks it.
* `Root(design) \subseteq design.named` (`SameInside`): the same for the clocks of a
  composition and the run `renamed_clocks`.

So each run that ends in a violation has a theorem beside it that says under which
condition on the design the statement it refutes is right. The designs of the run
`rules` satisfy the second and third; most of them, and most of `compose`, have the
names the fourth and the last ask for; those of `crossings` satisfy the first.

### Only model-checked

* Liveness: `EveryFileIsRead`, and the half of `ImplementsReport` that says the
  list is returned. `ReadsEnd` and `SearchEnds` prove the substance of both: the
  variant that goes down and the step that is due. The last inference, that a
  fair step that stays due is taken, needs ENABLED and is beyond the provers.

One disagreement is inside a property. CDC-011 counts the clocks of data captures by
the crossing's name and those of reset captures by the root (rules.py 3724), so one
renamed clock that takes an untyped port both ways counts as two. `UntypedPortTold`
therefore speaks of the severity only where the takers' clocks are named as their
roots; whether the port is reported does not depend on it.

## Not modelled

* The scan-mode list of `find_crossings` and the second root of dynamic clock
  muxes: exemptions by attribute.
* Frontends: their correctness is the semantics of SystemVerilog and of two
  external elaborators.
* The Tcl tokenizer, the waiver-file parser, the loader and the hints file:
  parsers of text; the models take what they return.
* Reporter, renderer and domain maps: formatting of a finished result.
* Rule messages. The baseline key contains the message, so a message that
  depends on something else in the design (a count, a handshake tag, the list of
  instances of a lifted finding) makes an old finding look new. `Triage` takes
  findings as given and does not show this.

* In the rules: the scan-mode filter and the parameters that describe summarised
  instances (CDC-001, 002, 005 and 008 at a boundary); the composition states what
  the summaries promise instead.
* In the composition: the lifting of inner findings other than asynchronous
  crossings, and what the section on Composition above leaves out.

## Plan

What a further development would take up, the most useful first:

1. The message part of the baseline key (cli.py 1293), with a model of the messages
   that quote counts and neighbours.
2. The parameters that describe summarised instances to CDC-001, 002, 005 and 008.
