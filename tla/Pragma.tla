------------------------------- MODULE Pragma -------------------------------
(***************************************************************************)
(* The pragma scanner (pragma.py, scan_text): one source file is read line *)
(* by line, "disable-rule" opens a region for each rule of its list,       *)
(* "enable-rule" closes it, and each region becomes a waiver.              *)
(*                                                                         *)
(* A line is what the regular expression finds on it: a verb ("none" for a *)
(* line without a pragma) and a list of rules, in which "*" is a rule like *)
(* any other.  A region is half open: [start, end).                        *)
(***************************************************************************)
EXTENDS Naturals, Sequences, FiniteSets, SequencesExt

CONSTANTS
    Rule,       \* rule patterns
    Sources,    \* the source files a run considers: sequences of lines
    Eof         \* the end of a region nothing closed (None)

VARIABLES
    text,
    lineno,         \* the last line read
    open_regions,   \* rule -> start line, a dict in insertion order
    out,            \* the waivers, in the order the code appends them
    done

scan_vars == <<text, lineno, open_regions, out, done>>

ASSUME EofAssumption == Eof \notin Nat

Line == [verb : {"none", "disable", "enable"}, rules : Seq(Rule)]
ASSUME SourcesAssumption == Sources \subseteq Seq(Line)

IsOpen(open, rule) == \E i \in DOMAIN open : open[i].rule = rule

(* close: pop the region and append its waiver. *)
Close(s, rule, end) ==
    LET i == CHOOSE k \in DOMAIN s.open : s.open[k].rule = rule
    IN  [open |-> RemoveAt(s.open, i),
         out |-> Append(s.out, [rule |-> rule, start |-> s.open[i].start, end |-> end])]

(* A wrong variant of Apply: a second disable-rule restarts the region. *)
ApplyRestarting(s, verb, rule, line) ==
    LET rest == SelectSeq(s.open, LAMBDA r : r.rule # rule)
    IN  IF verb = "disable"
        THEN [s EXCEPT !.open = Append(rest, [rule |-> rule, start |-> line])]
        ELSE IF IsOpen(s.open, rule) THEN Close(s, rule, line) ELSE s

(* A wrong variant of Apply: a second disable-rule opens a second region. *)
ApplyNested(s, verb, rule, line) ==
    IF verb = "disable"
    THEN [s EXCEPT !.open = Append(s.open, [rule |-> rule, start |-> line])]
    ELSE IF IsOpen(s.open, rule) THEN Close(s, rule, line) ELSE s

(* One rule of the list: whatever the verb, a running region ends here. *)
Apply(s, verb, rule, line) ==
    LET closed == IF IsOpen(s.open, rule) THEN Close(s, rule, line) ELSE s
    IN  IF verb = "disable"
        THEN [closed EXCEPT !.open = Append(closed.open, [rule |-> rule, start |-> line])]
        ELSE closed

(* A wrong variant of Sorted: the order in which the regions were closed. *)
AsClosed(regions) == regions

(* out.sort by start line: regions of one line keep their order in out. *)
Sorted(regions) ==
    LET before(i, j) == \/ regions[i].start < regions[j].start
                        \/ regions[i].start = regions[j].start /\ i < j
        rank(i) == Cardinality({j \in DOMAIN regions : before(j, i)}) + 1
    IN  [k \in DOMAIN regions |->
            regions[CHOOSE i \in DOMAIN regions : rank(i) = k]]

ScanInit ==
    /\ text \in Sources
    /\ lineno = 0
    /\ open_regions = <<>> /\ out = <<>>
    /\ done = FALSE

(* Every rule of a line's list in turn. *)
ApplyAll(s, verb, rules, line) ==
    LET after[k \in 0..Len(rules)] ==
            IF k = 0 THEN s ELSE Apply(after[k - 1], verb, rules[k], line)
    IN  after[Len(rules)]

ScanLine ==
    LET line == text[lineno + 1]
        rules == IF line.verb = "none" THEN <<>> ELSE line.rules
        after == ApplyAll([open |-> open_regions, out |-> out], line.verb, rules, lineno + 1)
    IN  /\ lineno < Len(text)
        /\ lineno' = lineno + 1
        /\ open_regions' = after.open /\ out' = after.out
        /\ UNCHANGED <<text, done>>

(* What is still open runs to the end of the file, closed in dict order. *)
EndOfFile ==
    LET rest == [i \in DOMAIN open_regions |->
                    [rule |-> open_regions[i].rule, start |-> open_regions[i].start, end |-> Eof]]
    IN  /\ lineno = Len(text) /\ ~done
        /\ open_regions' = <<>> /\ out' = Sorted(out \o rest)
        /\ done' = TRUE
        /\ UNCHANGED <<text, lineno>>

ScanStep == ScanLine \/ EndOfFile \/ (done /\ UNCHANGED scan_vars)

ScanSpec == ScanInit /\ [][ScanStep]_scan_vars

------------------------------------------------------------------------------
Covers(region, rule, line) ==
    /\ region.rule = rule /\ region.start <= line
    /\ region.end = Eof \/ line < region.end

Mentions(rule, line) == text[line].verb # "none" /\ rule \in ToSet(text[line].rules)

(* The last pragma at or above a line that names the rule is a disable. *)
Disabled(rule, line) ==
    \E l \in 1..line : /\ Mentions(rule, l) /\ text[l].verb = "disable"
                       /\ \A k \in (l + 1)..line : ~Mentions(rule, k)

(***************************************************************************)
(* The regions say exactly what the file says: a line is waived for a rule *)
(* iff the nearest pragma above it that names the rule disables it.  Rules *)
(* are independent of each other, however their blocks interleave.         *)
(***************************************************************************)
RegionsExact ==
    done => \A rule \in Rule, line \in DOMAIN text :
                (\E i \in DOMAIN out : Covers(out[i], rule, line)) <=> Disabled(rule, line)

(***************************************************************************)
(* "Re-disabling a rule that is already open ends the running region and   *)
(* starts a fresh one (so the newer reason applies from there)": the       *)
(* region that covers a line, and so its reason, is the one of the nearest *)
(* disable-rule, and there is no other.                                    *)
(***************************************************************************)
NewestReasonApplies ==
    done => \A i \in DOMAIN out, line \in DOMAIN text :
                Covers(out[i], out[i].rule, line) =>
                    /\ \A k \in (out[i].start + 1)..line : ~Mentions(out[i].rule, k)
                    /\ \A j \in DOMAIN out \ {i} : ~Covers(out[j], out[i].rule, line)

(***************************************************************************)
(* Waivers are tried in order and the first match wins, so regions come in *)
(* the order their disable-rule appears.                                   *)
(***************************************************************************)
OrderOfDisable ==
    done => \A i, j \in DOMAIN out : i < j => out[i].start <= out[j].start
=============================================================================
