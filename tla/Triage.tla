------------------------------- MODULE Triage -------------------------------
(***************************************************************************)
(* What becomes of the findings of the rule pack (waivers.apply and the    *)
(* tail of cli._analyze_module_and_report): pragmas and the waiver file    *)
(* suppress, the baseline carries over, --strict promotes, the report is   *)
(* written and the exit code says whether anything new is left.            *)
(*                                                                         *)
(* One behaviour is a chain of runs over a design that is edited between   *)
(* them.  The report of a run may be written to the file that later runs   *)
(* are given as --baseline; a run may die while it writes it.              *)
(***************************************************************************)
EXTENDS Naturals, Sequences, FiniteSets, SequencesExt

CONSTANTS
    Finding,    \* Violation: rule, cell, path, message, severity, file, line
    Text,       \* what a regular expression may be tried on
    Input,      \* the invocations a run considers
    NoReport, Truncated,  \* what the baseline file may hold instead of a report
    None

VARIABLES
    input,      \* the last invocation
    running,
    violations, suppressed, baseline_carryover,
    report,     \* the JSON report in the baseline file
    exit_code,
    told,       \* auxiliary: what once failed a run of the chain
    standing    \* auxiliary: what failed one and was there ever since

vars == <<input, running, violations, suppressed, baseline_carryover, report,
          exit_code, told, standing>>
buckets == <<violations, suppressed, baseline_carryover>>

Waiver == [rule_pattern : STRING, regex : SUBSET Text, origin : Text \cup {None},
           start_line : Nat \cup {None}, end_line : Nat \cup {None}]

Severity == {"error", "warning", "info"}

ASSUME NoneAssumption == None \notin Nat

ASSUME FindingAssumption ==
    Finding \subseteq [rule : STRING, cell : Text \cup {None}, path : Text \cup {None},
                      message : Text, severity : Severity, file : Text \cup {None},
                      line : Nat \cup {None}]

(* extra_waivers are pragmas: they carry the file they stand in.           *)
ASSUME InputAssumption ==
    \A i \in Input :
        /\ i.findings \subseteq Finding
        /\ i.extra_waivers \in Seq(Waiver) /\ i.waivers \in Seq(Waiver)
        /\ \A n \in DOMAIN i.extra_waivers : i.extra_waivers[n].origin # None
        /\ {i.strict, i.baseline, i.output, i.sdc, i.no_findings} \subseteq BOOLEAN

Nothing == [violations |-> {}, suppressed |-> {}, baseline_carryover |-> {}]

------------------------------------------------------------------------------
(* Waivers. *)

(* A wrong variant of AllWaivers: the broad patterns of the file come first. *)
AllWaiversFileFirst(i) == i.waivers \o i.extra_waivers

(* In-RTL pragmas lead the list. *)
AllWaivers(i) == i.extra_waivers \o i.waivers

LegacyAlias == [id \in {"CDC-007"} |-> "RDC-001"]

RuleMatches(pattern, rule) ==
    \/ pattern = rule
    \/ pattern \in DOMAIN LegacyAlias /\ LegacyAlias[pattern] = rule

Candidates(f) == {f.cell, f.path, f.message} \ {None}

InLineScope(w, line) ==
    \/ w.start_line = None \/ line = None
    \/ w.start_line <= line /\ (w.end_line = None \/ line < w.end_line)

Matches(w, f) ==
    /\ w.rule_pattern = "*" \/ RuleMatches(w.rule_pattern, f.rule)
    /\ IF w.origin = None
       THEN w.regex \cap Candidates(f) # {}
       ELSE f.file # None /\ f.file \in w.regex /\ InLineScope(w, f.line)

Waives(i, f) == {n \in DOMAIN AllWaivers(i) : Matches(AllWaivers(i)[n], f)}

(* A wrong variant of FirstWaiver: waivers are counted from zero. *)
FirstWaiverFromZero(i, f) == (CHOOSE n \in Waives(i, f) : \A k \in Waives(i, f) : n <= k) - 1

FirstWaiver(i, f) == CHOOSE n \in Waives(i, f) : \A k \in Waives(i, f) : n <= k

------------------------------------------------------------------------------
(* The baseline. *)

(* A wrong variant of Key: --strict makes another finding of a warning. *)
KeyWithSeverity(f) == <<f.rule, f.cell, f.message, f.severity>>

Key(f) == <<f.rule, f.cell, f.message>>

(* A wrong variant of BaselineKeys: what a waiver hid is taken as known. *)
BaselineKeysOfAll(r) ==
    {Key(f) : f \in r.violations \cup r.baseline_carryover \cup {s.violation : s \in r.suppressed}}

(* A wrong variant of BaselineKeys: what was carried over is new again. *)
BaselineKeysOfNew(r) == {Key(f) : f \in r.violations}

BaselineKeys(r) == {Key(f) : f \in r.violations \cup r.baseline_carryover}

Promoted(f) == [f EXCEPT !.severity = IF @ = "warning" THEN "error" ELSE @]

------------------------------------------------------------------------------
Init ==
    /\ input \in Input
    /\ running = FALSE
    /\ violations = {} /\ suppressed = {} /\ baseline_carryover = {}
    /\ report = NoReport
    /\ exit_code = None
    /\ told = {} /\ standing = {}

RulesRan(i) == i.sdc /\ ~i.no_findings

(* The whole of the analysis in memory, up to the open of the report. *)
Analyse(i) ==
    LET raw == IF RulesRan(i) THEN i.findings ELSE {}
        active == {f \in raw : Waives(i, f) = {}}
        carried == IF i.baseline THEN {f \in active : Key(f) \in BaselineKeys(report)} ELSE {}
        kept == active \ carried
    IN  /\ ~running
        /\ i.baseline => report \notin {NoReport, Truncated}
        /\ input' = i
        /\ running' = TRUE
        /\ violations' = IF i.strict THEN {Promoted(f) : f \in kept} ELSE kept
        /\ suppressed' = {[violation |-> f, waiver |-> FirstWaiver(i, f)] : f \in raw \ active}
        /\ baseline_carryover' = carried
        /\ exit_code' = None
        /\ UNCHANGED <<report, told, standing>>

(* json.load raises on half a report: nothing is analysed, nothing written. *)
BadBaseline(i) ==
    /\ ~running
    /\ i.baseline /\ report = Truncated
    /\ input' = i
    /\ exit_code' = 1
    /\ violations' = {} /\ suppressed' = {} /\ baseline_carryover' = {}
    /\ UNCHANGED <<running, report, told, standing>>

Unwaived == {f \in input.findings : RulesRan(input) /\ Waives(input, f) = {}}
Same(f) == <<f.rule, f.cell, f.message>>

(* The report, then the exit code.  --no-findings writes none. *)
Finish ==
    /\ running
    /\ running' = FALSE
    /\ exit_code' = IF violations = {} \/ input.no_findings THEN 0 ELSE 1
    /\ IF input.output /\ ~input.no_findings
       THEN /\ report' = [violations |-> violations, suppressed |-> suppressed,
                          baseline_carryover |-> baseline_carryover]
            /\ told' = told \cup {Same(f) : f \in violations}
            /\ standing' = (standing \cup {Same(f) : f \in violations})
                               \cap {Same(f) : f \in Unwaived}
       ELSE UNCHANGED <<report, told, standing>>
    /\ UNCHANGED <<input, buckets>>

(* The run dies while it writes the report. *)
Crash ==
    /\ running
    /\ running' = FALSE
    /\ exit_code' = 1
    /\ IF input.output /\ ~input.no_findings
       THEN report' = Truncated /\ standing' = {}
       ELSE UNCHANGED <<report, standing>>
    /\ UNCHANGED <<input, buckets, told>>

Next ==
    \/ \E i \in Input : Analyse(i) \/ BadBaseline(i)
    \/ Finish
    \/ Crash

Spec == Init /\ [][Next]_vars

------------------------------------------------------------------------------
Triaged == {[f EXCEPT !.severity = s] : f \in Finding, s \in Severity}

TypeOK ==
    /\ input \in Input
    /\ violations \subseteq Triaged /\ baseline_carryover \subseteq Finding
    /\ \A s \in suppressed :
          s.violation \in Finding /\ s.waiver \in DOMAIN AllWaivers(input)
    /\ report \in {NoReport, Truncated} \/ DOMAIN report = DOMAIN Nothing
    /\ exit_code \in {None, 0, 1}

(***************************************************************************)
(* Nothing slips into the baseline: a finding that is carried over once    *)
(* failed a run of the chain.  A waiver that is later removed does not     *)
(* leave its finding behind as an old one.                                 *)
(***************************************************************************)
CarriedWasTold == \A f \in baseline_carryover : Same(f) \in told

(***************************************************************************)
(* "Chained baselines stay stable" (_load_baseline_keys): a finding that   *)
(* failed a run and has been there and not waived in every run whose       *)
(* report became the baseline since, however long the chain and whatever   *)
(* --strict did in between, does not fail another run.                     *)
(***************************************************************************)
FailsOnce ==
    running /\ input.baseline => {Same(f) : f \in violations} \cap standing = {}

(***************************************************************************)
(* A run that succeeds has nothing to hide: every finding of the design is *)
(* covered by a waiver or has failed a run before.                         *)
(***************************************************************************)
SuccessHidesNothing ==
    ~running /\ exit_code = 0 =>
        \A f \in Unwaived : input.baseline /\ Same(f) \in standing

(***************************************************************************)
(* "A pragma written next to the RTL wins over a broad file regex": a      *)
(* finding some pragma covers is not suppressed in the waiver file's name. *)
(***************************************************************************)
PragmaWins ==
    \A s \in suppressed :
        (\E n \in DOMAIN input.extra_waivers : Matches(input.extra_waivers[n], s.violation)) =>
            AllWaivers(input)[s.waiver].origin # None
=============================================================================
