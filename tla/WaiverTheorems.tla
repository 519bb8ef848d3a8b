--------------------------- MODULE WaiverTheorems ---------------------------
(***************************************************************************)
(* What is waived and what becomes of it: the pragma scanner for every     *)
(* text, and the promises of Triage for every set of findings and waivers  *)
(* and for chains of runs of any length.                                   *)
(***************************************************************************)
EXTENDS Pragma, Triage, Induction, FiniteSetTheorems

(***************************************************************************)
(* The scanner.  The regions follow the text rule by rule, in the order of *)
(* its lines; Says states of the lines read so far, and of the rules of    *)
(* the line being read, what the file will have to say in the end.         *)
(***************************************************************************)
(* A region that is open, one that is closed, and what scan_text keeps of   *)
(* the lines it has read.                                                   *)
OpenRegion == [rule : Rule, start : Nat]
Region == [rule : Rule, start : Nat, end : Nat \cup {Eof}]
Scanned == [open : Seq(OpenRegion), out : Seq(Region)]

Elements(seq) == {seq[i] : i \in DOMAIN seq}

(* What has been read is a set "named" of a rule and a line for each rule   *)
(* of a pragma.  A rule is off where the last pragma that names it is a     *)
(* disable-rule.                                                            *)
Unnamed(named, rule, from, to) == \A k \in from..to : <<rule, k>> \notin named
Off(named, rule, line) ==
    \E l \in 1..line : /\ <<rule, l>> \in named /\ text[l].verb = "disable"
                       /\ Unnamed(named, rule, l + 1, line)

(* A region starts at a disable-rule of its rule, not below "last".         *)
Starts(named, region, last) ==
    /\ region.start \in 1..last
    /\ <<region.rule, region.start>> \in named /\ text[region.start].verb = "disable"

(* What the open and the closed regions say of the lines 1..top: a rule has *)
(* one open region at most; since an open region started, and while a       *)
(* closed one lasted, no pragma named its rule; where a rule is off there   *)
(* is a region; and two regions of a rule that start on one line cover no   *)
(* line together, as all but one of them end there.                         *)
OneEach(s) ==
    \A i, j \in DOMAIN s.open : s.open[i].rule = s.open[j].rule => i = j
OpenRuns(s, named, top) ==
    \A o \in Elements(s.open) : Starts(named, o, top) /\ Unnamed(named, o.rule, o.start + 1, top)
OutEnds(s, named, top) ==
    \A o \in Elements(s.out) :
        /\ Starts(named, o, top)
        /\ o.end \in o.start..top /\ <<o.rule, o.end>> \in named
        /\ Unnamed(named, o.rule, o.start + 1, o.end - 1)
OffIsCovered(s, named, top) ==
    \A rule \in Rule, line \in 1..top : Off(named, rule, line) =>
        \/ \E o \in Elements(s.out) : o.rule = rule /\ o.start <= line /\ line < o.end
        \/ \E o \in Elements(s.open) : o.rule = rule /\ o.start <= line
StartsOnce(s) ==
    /\ \A i, j \in DOMAIN s.out :
          i # j /\ s.out[i].rule = s.out[j].rule /\ s.out[i].start = s.out[j].start =>
              s.out[i].end = s.out[i].start \/ s.out[j].end = s.out[j].start
    /\ \A o \in Elements(s.out), r \in Elements(s.open) :
          o.rule = r.rule /\ o.start = r.start => o.end = o.start

Says(s, named, top) ==
    /\ s \in Scanned
    /\ OneEach(s) /\ OpenRuns(s, named, top) /\ OutEnds(s, named, top)
    /\ OffIsCovered(s, named, top) /\ StartsOnce(s)
------------------------------------------------------------------------------
(* Where the elements of two sequences are in the longer one.               *)
Joined(xy, x, y) ==
    /\ DOMAIN xy = 1..(Len(x) + Len(y))
    /\ \A i \in 1..Len(x) : xy[i] = x[i]
    /\ \A k \in 1..Len(y) : Len(x) + k \in 1..(Len(x) + Len(y)) /\ xy[Len(x) + k] = y[k]
    /\ \A i \in 1..(Len(x) + Len(y)) : i \in 1..Len(x) \/ \E k \in 1..Len(y) : i = Len(x) + k

LEMMA JoinedElements ==
    ASSUME NEW S, NEW x \in Seq(S), NEW y \in Seq(S)
    PROVE  x \o y \in Seq(S) /\ Joined(x \o y, x, y)
  <1>1. Len(x) \in Nat /\ Len(y) \in Nat  OBVIOUS
  <1>2. x \o y \in Seq(S) /\ Len(x \o y) = Len(x) + Len(y)  OBVIOUS
  <1>3. \A i \in 1..Len(x) : (x \o y)[i] = x[i]  OBVIOUS
  <1>4. ASSUME NEW k \in 1..Len(y)
        PROVE  Len(x) + k \in 1..(Len(x) + Len(y)) /\ (x \o y)[Len(x) + k] = y[k]
    <2>1. Len(x) + k \in 1..(Len(x) + Len(y)) /\ ~(Len(x) + k <= Len(x)) /\ (Len(x) + k) - Len(x) = k
      BY <1>1
    <2> QED  BY <1>1, <2>1
  <1>5. ASSUME NEW i \in 1..(Len(x) + Len(y)), i \notin 1..Len(x)
        PROVE  \E k \in 1..Len(y) : i = Len(x) + k
    <2>1. i - Len(x) \in 1..Len(y) /\ i = Len(x) + (i - Len(x))  BY <1>1, <1>5
    <2> QED  BY <2>1
  <1>6. DOMAIN (x \o y) = 1..(Len(x) + Len(y))  BY <1>1, <1>2
  <1> QED  BY <1>2, <1>3, <1>4, <1>5, <1>6 DEF Joined

(* Popping a region leaves the others.                                      *)
LEMMA RemovedIsGone ==
    ASSUME NEW S, NEW seq \in Seq(S), NEW i \in DOMAIN seq
    PROVE  LET rest == RemoveAt(seq, i)
           IN  /\ rest \in Seq(S)
               /\ Len(rest) = Len(seq) - 1
               /\ \A k \in 1..(Len(seq) - 1) : rest[k] = IF k < i THEN seq[k] ELSE seq[k + 1]
  <1> DEFINE a == SubSeq(seq, 1, i - 1)
             b == SubSeq(seq, i + 1, Len(seq))
  <1>1. Len(seq) \in Nat /\ i \in 1..Len(seq)  OBVIOUS
  <1>2. a \in Seq(S) /\ Len(a) = i - 1 /\ \A k \in 1..(i - 1) : a[k] = seq[k]  OBVIOUS
  <1>3. /\ b \in Seq(S) /\ Len(b) = Len(seq) - i
        /\ \A k \in 1..(Len(seq) - i) : b[k] = seq[i + k]
    OBVIOUS
  <1>4. RemoveAt(seq, i) = a \o b  BY DEF RemoveAt
  <1> HIDE DEF a, b
  <1>5. a \o b \in Seq(S) /\ Joined(a \o b, a, b)  BY <1>2, <1>3, JoinedElements
  <1> DEFINE ab == a \o b
  <1> HIDE DEF ab
  <1>6. ASSUME NEW k \in 1..(Len(seq) - 1)
        PROVE  ab[k] = IF k < i THEN seq[k] ELSE seq[k + 1]
    <2>1. CASE k < i
      <3>1. k \in 1..(i - 1)  BY <1>1, <2>1
      <3>2. ab[k] = a[k]  BY <1>2, <1>5, <3>1 DEF Joined, ab
      <3> QED  BY <1>2, <2>1, <3>1, <3>2
    <2>2. CASE ~(k < i)
      <3> DEFINE l == k - (i - 1)
      <3>1. l \in 1..(Len(seq) - i) /\ i + l = k + 1 /\ (i - 1) + l = k  BY <1>1, <2>2
      <3> HIDE DEF l
      <3>2. ab[k] = b[l]  BY <1>2, <1>3, <1>5, <3>1 DEF Joined, ab
      <3>3. b[l] = seq[i + l]  BY <1>3, <3>1
      <3> QED  BY <2>2, <3>1, <3>2, <3>3
    <2> QED  BY <2>1, <2>2
  <1>7. ab \in Seq(S) /\ Len(ab) = Len(seq) - 1
    <2>1. DOMAIN ab = 1..(Len(seq) - 1)  BY <1>1, <1>2, <1>3, <1>5 DEF Joined, ab
    <2>2. ab \in Seq(S)  BY <1>5 DEF ab
    <2>3. DOMAIN ab = 1..Len(ab) /\ Len(ab) \in Nat  BY <2>2
    <2> QED  BY <1>1, <2>1, <2>2, <2>3
  <1> QED  BY <1>4, <1>6, <1>7 DEF ab

(* What close does: the region of the rule leaves the dict and ends here.   *)
LEMMA CloseMoves ==
    ASSUME NEW s \in Scanned, OneEach(s), NEW rule \in Rule, IsOpen(s.open, rule), NEW end \in Nat
    PROVE  LET c == Close(s, rule, end)
           IN  /\ c \in Scanned /\ OneEach(c)
               /\ Elements(c.open) = {o \in Elements(s.open) : o.rule # rule}
               /\ \E o \in Elements(s.open) :
                     /\ o.rule = rule
                     /\ c.out = Append(s.out, [rule |-> rule, start |-> o.start, end |-> end])
  <1> DEFINE i == CHOOSE k \in DOMAIN s.open : s.open[k].rule = rule
             rest == RemoveAt(s.open, i)
             new == [rule |-> rule, start |-> s.open[i].start, end |-> end]
             c == Close(s, rule, end)
  <1>1. s.open \in Seq(OpenRegion) /\ s.out \in Seq(Region)  BY DEF Scanned
  <1>2. i \in DOMAIN s.open /\ s.open[i].rule = rule  BY DEF IsOpen
  <1>3. c = [open |-> rest, out |-> Append(s.out, new)]  BY DEF Close
  <1> HIDE DEF i, c
  <1>4. s.open[i] \in OpenRegion /\ s.open[i].start \in Nat
    <2>1. s.open[i] \in OpenRegion  BY <1>1, <1>2
    <2> QED  BY <2>1 DEF OpenRegion
  <1>5. new \in Region  BY <1>4 DEF Region
  <1>6. /\ rest \in Seq(OpenRegion) /\ Len(rest) = Len(s.open) - 1
        /\ \A k \in 1..(Len(s.open) - 1) : rest[k] = IF k < i THEN s.open[k] ELSE s.open[k + 1]
    BY <1>1, <1>2, RemovedIsGone
  <1>7. Len(s.open) \in Nat /\ DOMAIN s.open = 1..Len(s.open) /\ i \in 1..Len(s.open)
        /\ DOMAIN rest = 1..(Len(s.open) - 1)
    BY <1>1, <1>2, <1>6
  <1> HIDE DEF rest, new
  <1>8. \A j \in DOMAIN s.open : s.open[j].rule = rule => j = i  BY <1>2 DEF OneEach
  <1>9. ASSUME NEW k \in DOMAIN rest
        PROVE  \E j \in DOMAIN s.open : rest[k] = s.open[j] /\ j # i /\ j = IF k < i THEN k ELSE k + 1
    BY <1>6, <1>7
  <1>10. OneEach(c)
    <2> SUFFICES ASSUME NEW k \in DOMAIN rest, NEW l \in DOMAIN rest, rest[k].rule = rest[l].rule
                 PROVE  k = l
      BY <1>3 DEF OneEach
    <2>1. PICK p \in DOMAIN s.open : rest[k] = s.open[p] /\ p = IF k < i THEN k ELSE k + 1  BY <1>9
    <2>2. PICK q \in DOMAIN s.open : rest[l] = s.open[q] /\ q = IF l < i THEN l ELSE l + 1  BY <1>9
    <2>3. p = q  BY <2>1, <2>2 DEF OneEach
    <2>4. k \in Nat /\ l \in Nat /\ i \in Nat  BY <1>7
    <2> QED  BY <2>1, <2>2, <2>3, <2>4
  <1>11. Elements(rest) = {o \in Elements(s.open) : o.rule # rule}
    <2>1. ASSUME NEW k \in DOMAIN rest
          PROVE  rest[k] \in {o \in Elements(s.open) : o.rule # rule}
      BY <1>8, <1>9 DEF Elements
    <2>2. ASSUME NEW j \in DOMAIN s.open, s.open[j].rule # rule
          PROVE  \E k \in DOMAIN rest : rest[k] = s.open[j]
      <3>1. j # i  BY <1>2, <2>2
      <3>2. CASE j < i
        <4>1. j \in 1..(Len(s.open) - 1)  BY <1>7, <3>2
        <4> QED  BY <1>6, <1>7, <3>2, <4>1
      <3>3. CASE i < j
        <4>1. j - 1 \in 1..(Len(s.open) - 1) /\ ~(j - 1 < i) /\ (j - 1) + 1 = j  BY <1>7, <3>3
        <4> QED  BY <1>6, <1>7, <4>1
      <3> QED  BY <1>7, <3>1, <3>2, <3>3
    <2> QED  BY <2>1, <2>2 DEF Elements
  <1>12. c \in Scanned  BY <1>1, <1>3, <1>5, <1>6 DEF Scanned
  <1>13. s.open[i] \in Elements(s.open)  BY <1>2 DEF Elements
  <1> QED  BY <1>2, <1>3, <1>10, <1>11, <1>12, <1>13 DEF c, new

LEMMA AppendElements ==
    ASSUME NEW S, NEW seq \in Seq(S), NEW e \in S
    PROVE  /\ Append(seq, e) \in Seq(S) /\ Elements(Append(seq, e)) = Elements(seq) \cup {e}
           /\ DOMAIN Append(seq, e) = DOMAIN seq \cup {Len(seq) + 1}
           /\ Append(seq, e)[Len(seq) + 1] = e /\ Len(seq) + 1 \notin DOMAIN seq
           /\ \A k \in DOMAIN seq : Append(seq, e)[k] = seq[k]
  <1> DEFINE longer == Append(seq, e)
  <1>1. Len(seq) \in Nat /\ DOMAIN seq = 1..Len(seq)  OBVIOUS
  <1>2. /\ longer \in Seq(S) /\ Len(longer) = Len(seq) + 1
        /\ longer[Len(seq) + 1] = e
        /\ \A k \in 1..Len(seq) : longer[k] = seq[k]
    OBVIOUS
  <1> HIDE DEF longer
  <1>3. DOMAIN longer = DOMAIN seq \cup {Len(seq) + 1} /\ Len(seq) + 1 \notin DOMAIN seq
    BY <1>1, <1>2
  <1>4. Elements(longer) = Elements(seq) \cup {e}  BY <1>1, <1>2, <1>3 DEF Elements
  <1> QED  BY <1>1, <1>2, <1>3, <1>4 DEF longer

(* One rule of a pragma: its region ends here, and another one starts here  *)
(* if it is disabled.                                                       *)
Moved(s, r, verb, rule, line) ==
    /\ r \in Scanned /\ OneEach(r)
    /\ Elements(r.open) = {o \in Elements(s.open) : o.rule # rule}
          \cup (IF verb = "disable" THEN {[rule |-> rule, start |-> line]} ELSE {})
    /\ \/ r.out = s.out /\ \A o \in Elements(s.open) : o.rule # rule
       \/ \E o \in Elements(s.open) :
             /\ o.rule = rule
             /\ r.out = Append(s.out, [rule |-> rule, start |-> o.start, end |-> line])

LEMMA ApplyMoves ==
    ASSUME NEW s \in Scanned, OneEach(s), NEW verb, NEW rule \in Rule, NEW line \in Nat
    PROVE  Moved(s, Apply(s, verb, rule, line), verb, rule, line)
  <1> DEFINE c == IF IsOpen(s.open, rule) THEN Close(s, rule, line) ELSE s
             new == [rule |-> rule, start |-> line]
             r == Apply(s, verb, rule, line)
  <1>1. /\ c \in Scanned /\ OneEach(c)
        /\ Elements(c.open) = {o \in Elements(s.open) : o.rule # rule}
        /\ \/ c.out = s.out /\ \A o \in Elements(s.open) : o.rule # rule
           \/ \E o \in Elements(s.open) :
                 /\ o.rule = rule
                 /\ c.out = Append(s.out, [rule |-> rule, start |-> o.start, end |-> line])
    <2>1. CASE IsOpen(s.open, rule)
      <3>1. c = Close(s, rule, line)  BY <2>1
      <3>2. LET d == Close(s, rule, line)
            IN  /\ d \in Scanned /\ OneEach(d)
                /\ Elements(d.open) = {o \in Elements(s.open) : o.rule # rule}
                /\ \E o \in Elements(s.open) :
                      /\ o.rule = rule
                      /\ d.out = Append(s.out, [rule |-> rule, start |-> o.start, end |-> line])
        BY <2>1, CloseMoves
      <3> HIDE DEF c
      <3> QED  BY <3>1, <3>2
    <2>2. CASE ~IsOpen(s.open, rule)
      <3>1. \A o \in Elements(s.open) : o.rule # rule  BY <2>2 DEF IsOpen, Elements
      <3>2. c = s  BY <2>2
      <3> HIDE DEF c
      <3>3. Elements(s.open) = {o \in Elements(s.open) : o.rule # rule}  BY <3>1
      <3> QED  BY <3>1, <3>2, <3>3
    <2> QED  BY <2>1, <2>2
  <1>2. r = IF verb = "disable" THEN [c EXCEPT !.open = Append(c.open, new)] ELSE c
    BY DEF Apply
  <1> HIDE DEF c, r
  <1>3. CASE verb = "disable"
    <2>1. c.open \in Seq(OpenRegion) /\ c.out \in Seq(Region)  BY <1>1 DEF Scanned
    <2>2. new \in OpenRegion  BY DEF OpenRegion
    <2>3. r.open = Append(c.open, new) /\ r.out = c.out /\ r = [open |-> r.open, out |-> r.out]
      BY <1>1, <1>2, <1>3 DEF Scanned
    <2> HIDE DEF new
    <2>4. /\ r.open \in Seq(OpenRegion) /\ Elements(r.open) = Elements(c.open) \cup {new}
          /\ DOMAIN r.open = DOMAIN c.open \cup {Len(c.open) + 1}
          /\ r.open[Len(c.open) + 1] = new
          /\ \A k \in DOMAIN c.open : r.open[k] = c.open[k]
      BY <2>1, <2>2, <2>3, AppendElements
    <2>5. r \in Scanned  BY <2>1, <2>3, <2>4 DEF Scanned
    <2>6. \A k \in DOMAIN c.open : c.open[k].rule # rule
      <3>1. \A k \in DOMAIN c.open : c.open[k] \in Elements(c.open)  BY DEF Elements
      <3> QED  BY <1>1, <3>1
    <2>7. new.rule = rule  BY DEF new
    <2>8. OneEach(r)
      <3> SUFFICES ASSUME NEW i \in DOMAIN r.open, NEW j \in DOMAIN r.open,
                          r.open[i].rule = r.open[j].rule
                   PROVE  i = j
        BY DEF OneEach
      <3>1. CASE i \in DOMAIN c.open /\ j \in DOMAIN c.open
        BY <1>1, <2>4, <3>1 DEF OneEach
      <3>2. CASE i \in DOMAIN c.open /\ j = Len(c.open) + 1  BY <2>4, <2>6, <2>7, <3>2
      <3>3. CASE j \in DOMAIN c.open /\ i = Len(c.open) + 1  BY <2>4, <2>6, <2>7, <3>3
      <3>4. CASE i = j  BY <3>4
      <3> QED  BY <2>4, <3>1, <3>2, <3>3, <3>4
    <2> QED  BY <1>1, <1>3, <2>3, <2>4, <2>5, <2>8 DEF r, new, Moved
  <1>4. CASE verb # "disable"
    <2>1. r = c  BY <1>2, <1>4
    <2> QED  BY <1>1, <1>4, <2>1 DEF r, Moved
  <1> QED  BY <1>3, <1>4

(* A rule is off as before, wherever it is not named anew.                  *)
LEMMA OffElsewhere ==
    ASSUME NEW named, NEW top \in Nat, NEW rule, NEW other, NEW line \in Nat,
           other # rule \/ line < top
    PROVE  LET more == named \cup {<<rule, top>>}
           IN  /\ Off(more, other, line) <=> Off(named, other, line)
               /\ \A from \in Nat : Unnamed(named, other, from, line) => Unnamed(more, other, from, line)
  <1> DEFINE more == named \cup {<<rule, top>>}
  <1>1. \A k \in Nat : k <= line => (<<other, k>> \in more <=> <<other, k>> \in named)
    <2> TAKE k \in Nat
    <2> HAVE k <= line
    <2>1. <<other, k>> # <<rule, top>>  OBVIOUS
    <2> QED  BY <2>1
  <1> HIDE DEF more
  <1>2. \A from \in Nat : Unnamed(more, other, from, line) <=> Unnamed(named, other, from, line)
    BY <1>1 DEF Unnamed
  <1>3. \A l \in 1..line : l \in Nat /\ l + 1 \in Nat /\ l <= line  OBVIOUS
  <1>4. Off(more, other, line) <=> Off(named, other, line)
    BY <1>1, <1>2, <1>3 DEF Off
  <1> QED  BY <1>2, <1>4 DEF more

(* One rule of a pragma on line top: the regions say what the text says     *)
(* with this rule named there as well.                                      *)
LEMMA ApplySays ==
    ASSUME NEW s, NEW named, NEW top \in Nat \ {0}, Says(s, named, top), NEW rule \in Rule,
           text[top].verb \in {"disable", "enable"}
    PROVE  Says(Apply(s, text[top].verb, rule, top), named \cup {<<rule, top>>}, top)
  <1> DEFINE verb == text[top].verb
             r == Apply(s, verb, rule, top)
             more == named \cup {<<rule, top>>}
             new == [rule |-> rule, start |-> top]
             Ended(o) == [rule |-> rule, start |-> o.start, end |-> top]
  <1>0. /\ s \in Scanned /\ OneEach(s) /\ OpenRuns(s, named, top) /\ OutEnds(s, named, top)
        /\ OffIsCovered(s, named, top) /\ StartsOnce(s)
    BY DEF Says
  <1>1. /\ r \in Scanned /\ OneEach(r)
        /\ Elements(r.open) = {o \in Elements(s.open) : o.rule # rule}
               \cup (IF verb = "disable" THEN {new} ELSE {})
        /\ \/ r.out = s.out /\ \A o \in Elements(s.open) : o.rule # rule
           \/ \E o \in Elements(s.open) : o.rule = rule /\ r.out = Append(s.out, Ended(o))
    <2>1. top \in Nat  OBVIOUS
    <2>2. Moved(s, r, verb, rule, top)  BY <1>0, <2>1, ApplyMoves
    <2> QED  BY <2>2 DEF Moved
  <1>2. verb = text[top].verb /\ new.rule = rule /\ new.start = top
    OBVIOUS
  <1>3. <<rule, top>> \in more /\ named \subseteq more  OBVIOUS
  <1>4. \A o : /\ Ended(o).rule = rule /\ Ended(o).start = o.start /\ Ended(o).end = top
    OBVIOUS
  <1>5. \A other : \A line \in Nat : other # rule \/ line < top =>
           /\ Off(more, other, line) <=> Off(named, other, line)
           /\ \A from \in Nat : Unnamed(named, other, from, line) => Unnamed(more, other, from, line)
    BY OffElsewhere
  <1>6. /\ \A o \in Elements(s.open) : o \in OpenRegion
        /\ \A o \in Elements(s.out) : o \in Region
    BY <1>0 DEF Scanned, Elements
  <1> HIDE DEF verb, r, more, new, Ended
  (* What was open, or is closed, now. *)
  <1>7. \A o \in Elements(r.open) :
           \/ o \in Elements(s.open) /\ o.rule # rule
           \/ o = new /\ verb = "disable"
    BY <1>1
  <1>8. /\ \A o \in Elements(s.out) : o \in Elements(r.out)
        /\ \A o \in Elements(s.open) : o.rule = rule => Ended(o) \in Elements(r.out)
        /\ \A o \in Elements(r.out) :
               \/ o \in Elements(s.out)
               \/ \E q \in Elements(s.open) : q.rule = rule /\ o = Ended(q)
    <2>1. CASE r.out = s.out /\ \A o \in Elements(s.open) : o.rule # rule  BY <2>1
    <2>2. ASSUME NEW q \in Elements(s.open), q.rule = rule, r.out = Append(s.out, Ended(q))
          PROVE  <1>8!1 /\ <1>8!2 /\ <1>8!3
      <3>1. s.out \in Seq(Region)  BY <1>0 DEF Scanned
      <3>2. Ended(q) \in Region  BY <1>6 DEF Ended, OpenRegion, Region
      <3>3. Elements(r.out) = Elements(s.out) \cup {Ended(q)}  BY <2>2, <3>1, <3>2, AppendElements
      <3>4. \A o \in Elements(s.open) : o.rule = rule => o = q
        BY <1>0, <2>2 DEF OneEach, Elements
      <3> QED  BY <2>2, <3>3, <3>4
    <2> QED  BY <1>1, <2>1, <2>2
  <1>9. OpenRuns(r, more, top)
    <2> SUFFICES ASSUME NEW o \in Elements(r.open)
                 PROVE  Starts(more, o, top) /\ Unnamed(more, o.rule, o.start + 1, top)
      BY DEF OpenRuns
    <2>1. CASE o \in Elements(s.open) /\ o.rule # rule
      <3>1. Starts(named, o, top) /\ Unnamed(named, o.rule, o.start + 1, top)
        BY <1>0, <2>1 DEF OpenRuns
      <3>2. o.start + 1 \in Nat /\ top \in Nat  BY <3>1 DEF Starts
      <3> QED  BY <1>3, <1>5, <2>1, <3>1, <3>2 DEF Starts
    <2>2. CASE o = new /\ verb = "disable"
      <3>1. top \in 1..top /\ ~ \E k \in (top + 1)..top : TRUE  OBVIOUS
      <3> QED  BY <1>2, <1>3, <2>2, <3>1 DEF Starts, Unnamed
    <2> QED  BY <1>7, <2>1, <2>2
  <1>10. OutEnds(r, more, top)
    <2> SUFFICES ASSUME NEW o \in Elements(r.out)
                 PROVE  /\ Starts(more, o, top)
                        /\ o.end \in o.start..top /\ <<o.rule, o.end>> \in more
                        /\ Unnamed(more, o.rule, o.start + 1, o.end - 1)
      BY DEF OutEnds
    <2>1. CASE o \in Elements(s.out)
      <3>1. /\ Starts(named, o, top)
            /\ o.end \in o.start..top /\ <<o.rule, o.end>> \in named
            /\ Unnamed(named, o.rule, o.start + 1, o.end - 1)
        BY <1>0, <2>1 DEF OutEnds
      <3>2. o.start \in 1..top  BY <3>1 DEF Starts
      <3>3. o.start + 1 \in Nat /\ o.end - 1 \in Nat /\ o.end - 1 < top  BY <3>1, <3>2
      <3> QED  BY <1>3, <1>5, <3>1, <3>3 DEF Starts
    <2>2. ASSUME NEW q \in Elements(s.open), q.rule = rule, o = Ended(q)
          PROVE  /\ Starts(more, o, top)
                 /\ o.end \in o.start..top /\ <<o.rule, o.end>> \in more
                 /\ Unnamed(more, o.rule, o.start + 1, o.end - 1)
      <3>1. Starts(named, q, top) /\ Unnamed(named, q.rule, q.start + 1, top)
        BY <1>0, <2>2 DEF OpenRuns
      <3>2. q.start \in 1..top  BY <3>1 DEF Starts
      <3>3. Unnamed(named, rule, q.start + 1, top - 1)  BY <2>2, <3>1, <3>2 DEF Unnamed
      <3>4. q.start + 1 \in Nat /\ top - 1 \in Nat /\ top - 1 < top /\ top \in q.start..top
        BY <3>2
      <3>5. Unnamed(more, rule, q.start + 1, top - 1)  BY <1>5, <3>3, <3>4
      <3> QED  BY <1>3, <1>4, <2>2, <3>1, <3>4, <3>5 DEF Starts
    <2> QED  BY <1>8, <2>1, <2>2
  <1>11. OffIsCovered(r, more, top)
    <2> SUFFICES ASSUME NEW other \in Rule, NEW line \in 1..top, Off(more, other, line)
                 PROVE  \/ \E o \in Elements(r.out) : o.rule = other /\ o.start <= line /\ line < o.end
                        \/ \E o \in Elements(r.open) : o.rule = other /\ o.start <= line
      BY DEF OffIsCovered
    <2>1. CASE other # rule \/ line < top
      <3>1. Off(named, other, line)  BY <1>5, <2>1
      <3>2. CASE \E o \in Elements(s.out) : o.rule = other /\ o.start <= line /\ line < o.end
        BY <1>8, <3>2
      <3>3. ASSUME NEW o \in Elements(s.open), o.rule = other, o.start <= line
            PROVE  \/ \E q \in Elements(r.out) : q.rule = other /\ q.start <= line /\ line < q.end
                   \/ \E q \in Elements(r.open) : q.rule = other /\ q.start <= line
        <4>1. CASE other # rule
          <5>1. o \in Elements(r.open)  BY <1>1, <3>3, <4>1
          <5> QED  BY <3>3, <5>1
        <4>2. CASE other = rule /\ line < top
          <5>1. Ended(o) \in Elements(r.out)  BY <1>8, <3>3, <4>2
          <5> QED  BY <1>4, <3>3, <4>2, <5>1
        <4> QED  BY <2>1, <4>1, <4>2
      <3> QED  BY <1>0, <3>1, <3>2, <3>3 DEF OffIsCovered
    <2>2. CASE other = rule /\ line = top
      <3>1. PICK l \in 1..top : text[l].verb = "disable" /\ Unnamed(more, rule, l + 1, top)
        BY <2>2 DEF Off
      <3>2. l = top
        <4>1. SUFFICES ASSUME l # top PROVE FALSE
          OBVIOUS
        <4>2. top \in (l + 1)..top  BY <4>1
        <4> QED  BY <1>3, <3>1, <4>2 DEF Unnamed
      <3>3. new \in Elements(r.open)  BY <1>1, <1>2, <3>1, <3>2
      <3> QED  BY <1>2, <2>2, <3>3
    <2>3. line < top \/ line = top  OBVIOUS
    <2> QED  BY <2>1, <2>2, <2>3
  <1>12. StartsOnce(r)
    <2>1. ASSUME NEW o \in Elements(r.out), NEW q \in Elements(r.open),
                 o.rule = q.rule, o.start = q.start
          PROVE  o.end = o.start
      <3>1. CASE q \in Elements(s.open) /\ q.rule # rule
        <4>1. o \in Elements(s.out)  BY <1>4, <1>8, <2>1, <3>1
        <4> QED  BY <1>0, <2>1, <3>1, <4>1 DEF StartsOnce
      <3>2. CASE q = new
        <4>1. o.start = top /\ o.end \in o.start..top  BY <1>2, <1>10, <2>1, <3>2 DEF OutEnds
        <4> QED  BY <4>1
      <3> QED  BY <1>7, <3>1, <3>2
    <2>2. ASSUME NEW i \in DOMAIN r.out, NEW j \in DOMAIN r.out, i # j,
                 r.out[i].rule = r.out[j].rule, r.out[i].start = r.out[j].start
          PROVE  r.out[i].end = r.out[i].start \/ r.out[j].end = r.out[j].start
      <3>1. CASE r.out = s.out  BY <1>0, <2>2, <3>1 DEF StartsOnce
      <3>2. ASSUME NEW q \in Elements(s.open), q.rule = rule, r.out = Append(s.out, Ended(q))
            PROVE  r.out[i].end = r.out[i].start \/ r.out[j].end = r.out[j].start
        <4>1. s.out \in Seq(Region)  BY <1>0 DEF Scanned
        <4>2. Ended(q) \in Region  BY <1>6 DEF Ended, OpenRegion, Region
        <4> DEFINE last == Len(s.out) + 1
        <4>3. /\ DOMAIN r.out = DOMAIN s.out \cup {last}
              /\ r.out[last] = Ended(q)
              /\ \A k \in DOMAIN s.out : r.out[k] = s.out[k]
          BY <3>2, <4>1, <4>2, AppendElements
        <4> HIDE DEF last
        <4>4. ASSUME NEW k \in DOMAIN s.out, s.out[k].rule = rule, s.out[k].start = q.start
              PROVE  s.out[k].end = s.out[k].start
          <5>1. s.out[k] \in Elements(s.out)  BY DEF Elements
          <5> QED  BY <1>0, <3>2, <4>4, <5>1 DEF StartsOnce
        <4>5. CASE i \in DOMAIN s.out /\ j \in DOMAIN s.out
          BY <1>0, <2>2, <4>3, <4>5 DEF StartsOnce
        <4>6. CASE i \in DOMAIN s.out /\ j = last  BY <1>4, <2>2, <4>3, <4>4, <4>6
        <4>7. CASE j \in DOMAIN s.out /\ i = last  BY <1>4, <2>2, <4>3, <4>4, <4>7
        <4> QED  BY <2>2, <4>3, <4>5, <4>6, <4>7
      <3> QED  BY <1>1, <3>1, <3>2
    <2> QED  BY <2>1, <2>2 DEF StartsOnce
  <1>13. Says(r, more, top)  BY <1>1, <1>9, <1>10, <1>11, <1>12 DEF Says
  <1> QED  BY <1>13 DEF r, more, verb

(* Nothing is named on the next line: what was said still holds there.      *)
LEMMA NextLineSays ==
    ASSUME NEW s, NEW named, NEW top \in Nat, Says(s, named, top),
           \A rule : <<rule, top + 1>> \notin named
    PROVE  Says(s, named, top + 1)
  <1>1. /\ s \in Scanned /\ OneEach(s) /\ OpenRuns(s, named, top) /\ OutEnds(s, named, top)
        /\ OffIsCovered(s, named, top) /\ StartsOnce(s)
    BY DEF Says
  <1>2. 1..top \subseteq 1..(top + 1) /\ \A k \in 1..(top + 1) : k = top + 1 \/ k \in 1..top
    OBVIOUS
  <1>3. \A o : Starts(named, o, top) => Starts(named, o, top + 1)  BY <1>2 DEF Starts
  <1>4. OpenRuns(s, named, top + 1)
    <2> SUFFICES ASSUME NEW o \in Elements(s.open)
                 PROVE  Starts(named, o, top + 1) /\ Unnamed(named, o.rule, o.start + 1, top + 1)
      BY DEF OpenRuns
    <2>1. Starts(named, o, top) /\ Unnamed(named, o.rule, o.start + 1, top)  BY <1>1 DEF OpenRuns
    <2>2. o.start \in 1..top  BY <2>1 DEF Starts
    <2>3. ASSUME NEW k \in (o.start + 1)..(top + 1) PROVE <<o.rule, k>> \notin named
      <3>1. CASE k = top + 1  BY <3>1
      <3>2. CASE k # top + 1
        <4>1. k \in (o.start + 1)..top  BY <2>2, <3>2
        <4> QED  BY <2>1, <4>1 DEF Unnamed
      <3> QED  BY <3>1, <3>2
    <2> QED  BY <1>3, <2>1, <2>3 DEF Unnamed
  <1>5. OutEnds(s, named, top + 1)
    <2> SUFFICES ASSUME NEW o \in Elements(s.out)
                 PROVE  /\ Starts(named, o, top + 1)
                        /\ o.end \in o.start..(top + 1) /\ <<o.rule, o.end>> \in named
                        /\ Unnamed(named, o.rule, o.start + 1, o.end - 1)
      BY DEF OutEnds
    <2>1. /\ Starts(named, o, top)
          /\ o.end \in o.start..top /\ <<o.rule, o.end>> \in named
          /\ Unnamed(named, o.rule, o.start + 1, o.end - 1)
      BY <1>1 DEF OutEnds
    <2>2. o.start \in 1..top  BY <2>1 DEF Starts
    <2>3. o.end \in o.start..(top + 1)  BY <2>1, <2>2
    <2> QED  BY <1>3, <2>1, <2>3
  <1>6. OffIsCovered(s, named, top + 1)
    <2> SUFFICES ASSUME NEW rule \in Rule, NEW line \in 1..(top + 1), Off(named, rule, line)
                 PROVE  \/ \E o \in Elements(s.out) : o.rule = rule /\ o.start <= line /\ line < o.end
                        \/ \E o \in Elements(s.open) : o.rule = rule /\ o.start <= line
      BY DEF OffIsCovered
    <2>1. CASE line \in 1..top  BY <1>1, <2>1 DEF OffIsCovered
    <2>2. CASE line = top + 1
      <3>1. PICK l \in 1..(top + 1) : /\ <<rule, l>> \in named /\ text[l].verb = "disable"
                                      /\ Unnamed(named, rule, l + 1, top + 1)
        BY <2>2 DEF Off
      <3>2. l \in 1..top  BY <1>2, <3>1
      <3>3. (l + 1)..top \subseteq (l + 1)..(top + 1)  BY <3>2
      <3>4. Unnamed(named, rule, l + 1, top)  BY <3>1, <3>3 DEF Unnamed
      <3>5. Off(named, rule, top) /\ top \in 1..top  BY <3>1, <3>2, <3>4 DEF Off
      <3>6. ~ \E o \in Elements(s.out) : top < o.end
        <4> SUFFICES ASSUME NEW o \in Elements(s.out), top < o.end PROVE FALSE
          OBVIOUS
        <4>1. o.end \in o.start..top /\ Starts(named, o, top)  BY <1>1 DEF OutEnds
        <4>2. o.start \in 1..top  BY <4>1 DEF Starts
        <4> QED  BY <4>1, <4>2
      <3>7. PICK o \in Elements(s.open) : o.rule = rule /\ o.start <= top
        BY <1>1, <3>5, <3>6 DEF OffIsCovered
      <3>8. Starts(named, o, top)  BY <1>1 DEF OpenRuns
      <3>9. o.start \in 1..top  BY <3>8 DEF Starts
      <3>10. o.start <= line  BY <2>2, <3>9
      <3> QED  BY <3>7, <3>10
    <2> QED  BY <1>2, <2>1, <2>2
  <1> QED  BY <1>1, <1>4, <1>5, <1>6 DEF Says

(* The equations of the loop over the rules of a line.                      *)
Upto(named, rules, line, k) == named \cup {<<rules[j], line>> : j \in 1..k}

LEMMA ApplyAllSays ==
    ASSUME NEW s, NEW named, NEW top \in Nat \ {0}, Says(s, named, top), NEW rules \in Seq(Rule),
           text[top].verb \in {"disable", "enable"}
    PROVE  Says(ApplyAll(s, text[top].verb, rules, top), Upto(named, rules, top, Len(rules)), top)
  <1> DEFINE verb == text[top].verb
             n == Len(rules)
             S == {v \in Scanned : OneEach(v)}
             step == [t \in Nat \X S |->
                        IF t[1] \in 1..n THEN Apply(t[2], verb, rules[t[1]], top) ELSE t[2]]
             after[k \in 0..n] == IF k = 0 THEN s ELSE Apply(after[k - 1], verb, rules[k], top)
  <1>1. ApplyAll(s, verb, rules, top) = after[n]  BY DEF ApplyAll
  <1>2. n \in Nat /\ \A k \in 1..n : rules[k] \in Rule  OBVIOUS
  <1>3. s \in S  BY DEF Says
  <1>4. step \in [Nat \X S -> S]
    <2> SUFFICES ASSUME NEW v \in S, NEW k \in 1..n PROVE Apply(v, verb, rules[k], top) \in S
      BY <1>2
    <2>1. v \in Scanned /\ OneEach(v) /\ rules[k] \in Rule /\ top \in Nat  BY <1>2
    <2> HIDE DEF verb
    <2>2. Moved(v, Apply(v, verb, rules[k], top), verb, rules[k], top)  BY <2>1, ApplyMoves
    <2> QED  BY <2>2 DEF Moved
  <1>5. \A k \in 1..n : \A v \in S : step[<<k, v>>] = Apply(v, verb, rules[k], top)
    OBVIOUS
  <1> HIDE DEF step, verb, n
  <1>6. PICK f \in [0..n -> S] : RecursAt(f, s, step, n)
    <2> HIDE DEF S
    <2> QED  BY <1>2, <1>3, <1>4, RecursionAtExists
  <1>7. ASSUME NEW k \in 0..n, k # 0 PROVE f[k] = Apply(f[k - 1], verb, rules[k], top)
    <2>1. k - 1 \in 0..n /\ k \in 1..n  BY <1>2, <1>7
    <2>2. f[k] = step[<<k, f[k - 1]>>]  BY <1>6, <1>7 DEF RecursAt
    <2>3. f[k - 1] \in S  BY <2>1
    <2> QED  BY <1>5, <2>1, <2>2, <2>3
  <1>8. f[0] = s  BY <1>2, <1>6 DEF RecursAt
  <1>9. f = [k \in 0..n |-> IF k = 0 THEN s ELSE Apply(f[k - 1], verb, rules[k], top)]
    <2> DEFINE h == [k \in 0..n |-> IF k = 0 THEN s ELSE Apply(f[k - 1], verb, rules[k], top)]
    <2>1. ASSUME NEW k \in 0..n PROVE f[k] = h[k]
      <3>1. CASE k = 0  BY <1>8, <3>1
      <3>2. CASE k # 0  BY <1>7, <3>2
      <3> QED  BY <3>1, <3>2
    <2>2. h = [k \in 0..n |-> h[k]] /\ f = [k \in 0..n |-> f[k]]  OBVIOUS
    <2> HIDE DEF h
    <2>3. f = h  BY <2>1, <2>2
    <2> QED  BY <2>3 DEF h
  <1>10. after = [k \in 0..n |-> IF k = 0 THEN s ELSE Apply(after[k - 1], verb, rules[k], top)]
    BY <1>9
  <1> HIDE DEF after
  <1>11. after[0] = s  BY <1>2, <1>10
  <1>12. \A k \in 0..n : k # 0 => after[k] = Apply(after[k - 1], verb, rules[k], top)
    BY <1>10
  <1>13. \A k \in 0..n : Says(after[k], Upto(named, rules, top, k), top)
    <2> DEFINE bad == {k \in 0..n : ~Says(after[k], Upto(named, rules, top, k), top)}
    <2> SUFFICES ASSUME bad # {} PROVE FALSE
      OBVIOUS
    <2>1. PICK k \in bad : \A i \in bad : k <= i
      <3>1. bad \in SUBSET Nat  OBVIOUS
      <3> QED  BY <3>1, LeastNat
    <2>2. k # 0
      <3>1. Upto(named, rules, top, 0) = named  BY DEF Upto
      <3>2. Says(after[0], Upto(named, rules, top, 0), top)  BY <1>11, <3>1
      <3> QED  BY <2>1, <3>2
    <2>3. k - 1 \in 0..n /\ ~(k <= k - 1) /\ k \in 1..n  BY <1>2, <2>2
    <2>4. Says(after[k - 1], Upto(named, rules, top, k - 1), top)  BY <2>1, <2>3
    <2>5. Upto(named, rules, top, k) = Upto(named, rules, top, k - 1) \cup {<<rules[k], top>>}
      <3>1. 1..k = 1..(k - 1) \cup {k}  BY <2>3, <1>2
      <3> QED  BY <3>1 DEF Upto
    <2>6. Says(Apply(after[k - 1], verb, rules[k], top),
               Upto(named, rules, top, k - 1) \cup {<<rules[k], top>>}, top)
      BY <1>2, <2>3, <2>4, ApplySays DEF verb
    <2>7. Says(after[k], Upto(named, rules, top, k), top)  BY <1>12, <2>2, <2>5, <2>6
    <2> QED  BY <2>1, <2>7
  <1>14. Says(after[n], Upto(named, rules, top, n), top)  BY <1>2, <1>13
  <1> QED  BY <1>1, <1>14 DEF verb, n, after

(* Sorting loses nothing, doubles nothing, and puts the starts in order.    *)
Shuffles(sorted, regions, pi) ==
    /\ pi \in [DOMAIN regions -> DOMAIN regions]
    /\ DOMAIN sorted = DOMAIN regions
    /\ \A k \in DOMAIN regions : sorted[k] = regions[pi[k]]
    /\ \A k, l \in DOMAIN regions : pi[k] = pi[l] => k = l
    /\ \A i \in DOMAIN regions : \E k \in DOMAIN regions : pi[k] = i

LEMMA SortedIsOrdered ==
    ASSUME NEW regions, NEW n \in Nat, DOMAIN regions = 1..n,
           \A i \in 1..n : regions[i].start \in Nat
    PROVE  /\ \E pi : Shuffles(Sorted(regions), regions, pi)
           /\ \A k, l \in 1..n : k < l => Sorted(regions)[k].start <= Sorted(regions)[l].start
  <1> DEFINE before(i, j) == \/ regions[i].start < regions[j].start
                             \/ regions[i].start = regions[j].start /\ i < j
             first(i) == {j \in 1..n : before(j, i)}
             rank(i) == Cardinality(first(i)) + 1
             pi == [k \in 1..n |-> CHOOSE i \in 1..n : rank(i) = k]
  <1>1. Sorted(regions) = [k \in 1..n |-> regions[CHOOSE i \in 1..n : rank(i) = k]]
    BY DEF Sorted
  <1>2. /\ \A i \in 1..n : ~before(i, i)
        /\ \A i, j \in 1..n : i # j => before(i, j) \/ before(j, i)
        /\ \A i, j, k \in 1..n : before(i, j) /\ before(j, k) => before(i, k)
        /\ \A i, j \in 1..n : before(i, j) => regions[i].start <= regions[j].start
    OBVIOUS
  <1> HIDE DEF before
  <1>3. IsFiniteSet(1..n) /\ Cardinality(1..n) = n  BY FS_Interval
  <1>4. \A i \in 1..n : first(i) \in SUBSET (1..n) /\ i \notin first(i)  BY <1>2
  <1>5. \A i, j \in 1..n : before(i, j) => first(i) \in SUBSET first(j) /\ i \in first(j)
    BY <1>2
  <1> HIDE DEF first
  <1>6. ASSUME NEW i \in 1..n
        PROVE  IsFiniteSet(first(i)) /\ Cardinality(first(i)) \in Nat /\ rank(i) \in 1..n
    <2>1. /\ IsFiniteSet(first(i)) /\ Cardinality(first(i)) <= Cardinality(1..n)
          /\ Cardinality(1..n) = Cardinality(first(i)) => 1..n = first(i)
      BY <1>3, <1>4, FS_Subset
    <2>2. Cardinality(first(i)) \in Nat  BY <2>1, FS_CardinalityType
    <2>3. Cardinality(first(i)) # n  BY <1>3, <1>4, <2>1
    <2> QED  BY <1>3, <2>1, <2>2, <2>3
  <1>7. ASSUME NEW i \in 1..n, NEW j \in 1..n, before(i, j) PROVE rank(i) < rank(j)
    <2>1. first(i) \in SUBSET first(j) /\ i \in first(j) /\ i \notin first(i)
      BY <1>4, <1>5, <1>7
    <2>2. /\ Cardinality(first(i)) <= Cardinality(first(j))
          /\ Cardinality(first(j)) = Cardinality(first(i)) => first(j) = first(i)
      BY <1>6, <2>1, FS_Subset
    <2>3. Cardinality(first(i)) # Cardinality(first(j))  BY <2>1, <2>2
    <2>4. Cardinality(first(i)) \in Nat /\ Cardinality(first(j)) \in Nat  BY <1>6
    <2> QED  BY <2>2, <2>3, <2>4
  <1>8. \A i \in 1..n : rank(i) \in 1..n  BY <1>6
  <1> HIDE DEF rank
  <1>9. \A i, j \in 1..n : rank(i) = rank(j) => i = j
    <2> SUFFICES ASSUME NEW i \in 1..n, NEW j \in 1..n, rank(i) = rank(j), i # j PROVE FALSE
      OBVIOUS
    <2>1. rank(i) < rank(j) \/ rank(j) < rank(i)  BY <1>2, <1>7
    <2>2. rank(i) \in Nat /\ rank(j) \in Nat  BY <1>8
    <2> QED  BY <2>1, <2>2
  <1>10. \A k \in 1..n : \E i \in 1..n : rank(i) = k
    <2> DEFINE place == [i \in 1..n |-> rank(i)]
    <2>1. place \in Injection(1..n, 1..n)  BY <1>8, <1>9 DEF Injection, IsInjective
    <2>2. place \in Surjection(1..n, 1..n)
      <3> HIDE DEF place
      <3> QED  BY <1>3, <2>1, FS_Injection
    <2> QED  BY <2>2 DEF Surjection
  <1>11. \A k \in 1..n : pi[k] \in 1..n /\ rank(pi[k]) = k  BY <1>10
  <1>12. \A k \in 1..n : Sorted(regions)[k] = regions[pi[k]]  BY <1>1
  <1>13. pi \in [1..n -> 1..n] /\ DOMAIN Sorted(regions) = 1..n  BY <1>1, <1>11
  <1> HIDE DEF pi
  <1>14. \A i \in 1..n : pi[rank(i)] = i  BY <1>8, <1>9, <1>11
  <1>15. \A k, l \in 1..n : pi[k] = pi[l] => k = l  BY <1>11
  <1>16. Shuffles(Sorted(regions), regions, pi)  BY <1>8, <1>12, <1>13, <1>14, <1>15 DEF Shuffles
  <1>17. ASSUME NEW k \in 1..n, NEW l \in 1..n, k < l
         PROVE  Sorted(regions)[k].start <= Sorted(regions)[l].start
    <2>1. pi[k] # pi[l] /\ ~(rank(pi[l]) < rank(pi[k]))  BY <1>11, <1>17
    <2>2. before(pi[k], pi[l])  BY <1>2, <1>7, <1>11, <2>1
    <2> QED  BY <1>2, <1>11, <1>12, <2>2
  <1> QED  BY <1>16, <1>17

(* What the list of all regions says of the lines 1..top, in any order.     *)
Told(regions, named, top) ==
    /\ \A i \in DOMAIN regions : \A line \in 1..top :
          Covers(regions[i], regions[i].rule, line) =>
              /\ regions[i].rule \in Rule
              /\ Starts(named, regions[i], line)
              /\ Unnamed(named, regions[i].rule, regions[i].start + 1, line)
    /\ \A rule \in Rule, line \in 1..top :
          Off(named, rule, line) => \E i \in DOMAIN regions : Covers(regions[i], rule, line)
    /\ \A i, j \in DOMAIN regions :
          i # j /\ regions[i].rule = regions[j].rule /\ regions[i].start = regions[j].start =>
              regions[i].end = regions[i].start \/ regions[j].end = regions[j].start

(* What is still open runs to the end of the file.                          *)
Rest(open) == [i \in DOMAIN open |-> [rule |-> open[i].rule, start |-> open[i].start, end |-> Eof]]

LEMMA RestIsTold ==
    ASSUME NEW s, NEW named, NEW top \in Nat, Says(s, named, top)
    PROVE  /\ s.out \o Rest(s.open) \in Seq(Region)
           /\ Told(s.out \o Rest(s.open), named, top)
  <1> DEFINE all == s.out \o Rest(s.open)
             a == Len(s.out)
  <1>1. /\ s \in Scanned /\ OneEach(s) /\ OpenRuns(s, named, top) /\ OutEnds(s, named, top)
        /\ OffIsCovered(s, named, top) /\ StartsOnce(s)
    BY DEF Says
  <1>2. s.out \in Seq(Region) /\ s.open \in Seq(OpenRegion)  BY <1>1 DEF Scanned
  <1>3. /\ Rest(s.open) \in Seq(Region) /\ Len(Rest(s.open)) = Len(s.open)
        /\ \A i \in DOMAIN s.open :
              /\ Rest(s.open)[i].rule = s.open[i].rule
              /\ Rest(s.open)[i].start = s.open[i].start
              /\ Rest(s.open)[i].end = Eof
    <2>1. \A i \in 1..Len(s.open) : s.open[i] \in OpenRegion  BY <1>2
    <2>2. DOMAIN s.open = 1..Len(s.open) /\ Len(s.open) \in Nat  BY <1>2
    <2>3. \A i \in 1..Len(s.open) :
             [rule |-> s.open[i].rule, start |-> s.open[i].start, end |-> Eof] \in Region
      BY <2>1 DEF OpenRegion, Region
    <2> QED  BY <2>2, <2>3 DEF Rest
  <1>4. /\ all \in Seq(Region) /\ DOMAIN all = 1..(a + Len(s.open))
        /\ \A i \in 1..a : all[i] = s.out[i]
        /\ \A k \in 1..Len(s.open) : a + k \in 1..(a + Len(s.open)) /\ all[a + k] = Rest(s.open)[k]
        /\ \A i \in 1..(a + Len(s.open)) : i \in 1..a \/ \E k \in 1..Len(s.open) : i = a + k
    <2> DEFINE rest == Rest(s.open)
    <2>1. rest \in Seq(Region) /\ Len(rest) = Len(s.open)  BY <1>3
    <2> HIDE DEF rest
    <2>2. s.out \o rest \in Seq(Region) /\ Joined(s.out \o rest, s.out, rest)
      BY <1>2, <2>1, JoinedElements
    <2> QED  BY <2>1, <2>2 DEF rest, Joined
  <1>5. /\ DOMAIN s.out = 1..a /\ DOMAIN s.open = 1..Len(s.open) /\ a \in Nat /\ Len(s.open) \in Nat
         /\ \A i \in DOMAIN s.out : s.out[i] \in Region
         /\ \A k \in DOMAIN s.open : s.open[k] \in OpenRegion
    BY <1>2
  <1> HIDE DEF all, a
  <1>6. \A i \in DOMAIN all : i \in DOMAIN s.out \/ \E k \in DOMAIN s.open : i = a + k
    BY <1>4, <1>5
  <1>7. 1..a \subseteq 1..(a + Len(s.open))  BY <1>5
  <1>8. /\ \A i \in DOMAIN s.out : i \in DOMAIN all /\ all[i] = s.out[i] /\ all[i] \in Elements(s.out)
        /\ \A k \in DOMAIN s.open :
              /\ a + k \in DOMAIN all
              /\ all[a + k].rule = s.open[k].rule /\ all[a + k].start = s.open[k].start
              /\ all[a + k].end = Eof /\ s.open[k] \in Elements(s.open)
    <2>1. ASSUME NEW i \in DOMAIN s.out
          PROVE  i \in DOMAIN all /\ all[i] = s.out[i] /\ all[i] \in Elements(s.out)
      <3>1. i \in 1..a /\ i \in DOMAIN all  BY <1>4, <1>5, <1>7
      <3>2. all[i] = s.out[i]  BY <1>4, <3>1
      <3> QED  BY <3>1, <3>2 DEF Elements
    <2>2. ASSUME NEW k \in DOMAIN s.open
          PROVE  /\ a + k \in DOMAIN all
                 /\ all[a + k].rule = s.open[k].rule /\ all[a + k].start = s.open[k].start
                 /\ all[a + k].end = Eof /\ s.open[k] \in Elements(s.open)
      <3>1. k \in 1..Len(s.open)  BY <1>5
      <3>2. a + k \in DOMAIN all /\ all[a + k] = Rest(s.open)[k]  BY <1>4, <3>1
      <3> QED  BY <1>3, <3>2 DEF Elements
    <2> QED  BY <2>1, <2>2
  <1>9. /\ \A i \in DOMAIN s.out : s.out[i].rule \in Rule
        /\ \A k \in DOMAIN s.open : s.open[k].rule \in Rule
    <2>1. (\A r \in Region : r.rule \in Rule) /\ (\A r \in OpenRegion : r.rule \in Rule)
      BY DEF OpenRegion, Region
    <2>2. ASSUME NEW i \in DOMAIN s.out PROVE s.out[i].rule \in Rule
      <3>1. s.out[i] \in Region  BY <1>2
      <3> QED  BY <2>1, <3>1
    <2>3. ASSUME NEW k \in DOMAIN s.open PROVE s.open[k].rule \in Rule
      <3>1. s.open[k] \in OpenRegion  BY <1>2
      <3> QED  BY <2>1, <3>1
    <2> QED  BY <2>2, <2>3
  <1>10. ASSUME NEW i \in DOMAIN all, NEW line \in 1..top, Covers(all[i], all[i].rule, line)
        PROVE  /\ all[i].rule \in Rule
               /\ Starts(named, all[i], line)
               /\ Unnamed(named, all[i].rule, all[i].start + 1, line)
    <2>1. CASE i \in DOMAIN s.out
      <3>1. /\ Starts(named, all[i], top)
            /\ all[i].end \in all[i].start..top
            /\ Unnamed(named, all[i].rule, all[i].start + 1, all[i].end - 1)
        BY <1>1, <1>8, <2>1 DEF OutEnds
      <3>2. all[i].start \in 1..top  BY <3>1 DEF Starts
      <3>3. all[i].start <= line /\ line <= all[i].end - 1
        <4>1. all[i].end \in Nat  BY <3>1, <3>2
        <4>2. line < all[i].end  BY <1>10, <4>1, EofAssumption DEF Covers
        <4> QED  BY <1>10, <4>1, <4>2 DEF Covers
      <3>4. all[i].start \in 1..line  BY <3>2, <3>3
      <3>5. (all[i].start + 1)..line \subseteq (all[i].start + 1)..(all[i].end - 1)
        BY <3>1, <3>2, <3>3
      <3> QED  BY <1>8, <1>9, <2>1, <3>1, <3>4, <3>5 DEF Starts, Unnamed
    <2>2. ASSUME NEW k \in DOMAIN s.open, i = a + k
          PROVE  /\ all[i].rule \in Rule
                 /\ Starts(named, all[i], line)
                 /\ Unnamed(named, all[i].rule, all[i].start + 1, line)
      <3>1. Starts(named, s.open[k], top) /\ Unnamed(named, s.open[k].rule, s.open[k].start + 1, top)
        BY <1>1, <1>8 DEF OpenRuns
      <3>2. s.open[k].start \in 1..top  BY <3>1 DEF Starts
      <3>3. all[i].rule = s.open[k].rule /\ all[i].start = s.open[k].start  BY <1>8, <2>2
      <3>4. all[i].start <= line  BY <1>10 DEF Covers
      <3>5. all[i].start \in 1..line  BY <3>2, <3>3, <3>4
      <3>6. (all[i].start + 1)..line \subseteq (all[i].start + 1)..top  BY <3>2, <3>3
      <3> QED  BY <1>9, <3>1, <3>3, <3>5, <3>6 DEF Starts, Unnamed
    <2> QED  BY <1>6, <2>1, <2>2
  <1>11. ASSUME NEW rule \in Rule, NEW line \in 1..top, Off(named, rule, line)
        PROVE  \E i \in DOMAIN all : Covers(all[i], rule, line)
    <2>1. ASSUME NEW o \in Elements(s.out), o.rule = rule, o.start <= line, line < o.end
          PROVE  \E i \in DOMAIN all : Covers(all[i], rule, line)
      <3>1. PICK i \in DOMAIN s.out : o = s.out[i]  BY DEF Elements
      <3> QED  BY <1>8, <2>1, <3>1 DEF Covers
    <2>2. ASSUME NEW o \in Elements(s.open), o.rule = rule, o.start <= line
          PROVE  \E i \in DOMAIN all : Covers(all[i], rule, line)
      <3>1. PICK k \in DOMAIN s.open : o = s.open[k]  BY DEF Elements
      <3>2. Covers(all[a + k], rule, line) /\ a + k \in DOMAIN all  BY <1>8, <2>2, <3>1 DEF Covers
      <3> QED  BY <3>2
    <2> QED  BY <1>1, <1>11, <2>1, <2>2 DEF OffIsCovered
  <1>12. ASSUME NEW i \in DOMAIN all, NEW j \in DOMAIN all, i # j,
                all[i].rule = all[j].rule, all[i].start = all[j].start
         PROVE  all[i].end = all[i].start \/ all[j].end = all[j].start
    <2>1. CASE i \in DOMAIN s.out /\ j \in DOMAIN s.out
      BY <1>1, <1>8, <1>12, <2>1 DEF StartsOnce
    <2>2. ASSUME NEW k \in DOMAIN s.open, j = a + k, i \in DOMAIN s.out
          PROVE  all[i].end = all[i].start
      BY <1>1, <1>8, <1>12, <2>2 DEF StartsOnce
    <2>3. ASSUME NEW k \in DOMAIN s.open, i = a + k, j \in DOMAIN s.out
          PROVE  all[j].end = all[j].start
      BY <1>1, <1>8, <1>12, <2>3 DEF StartsOnce
    <2>4. ASSUME NEW k \in DOMAIN s.open, NEW l \in DOMAIN s.open, i = a + k, j = a + l
          PROVE  FALSE
      <3>1. s.open[k].rule = s.open[l].rule  BY <1>8, <1>12, <2>4
      <3>2. k = l  BY <1>1, <3>1 DEF OneEach
      <3> QED  BY <1>12, <2>4, <3>2
    <2> QED  BY <1>6, <2>1, <2>2, <2>3, <2>4
  <1>13. Told(all, named, top)  BY <1>10, <1>11, <1>12 DEF Told
  <1> QED  BY <1>4, <1>13 DEF all

LEMMA ShuffledIsTold ==
    ASSUME NEW regions, NEW sorted, NEW pi, Shuffles(sorted, regions, pi),
           NEW named, NEW top, Told(regions, named, top)
    PROVE  Told(sorted, named, top)
  <1>1. \A k \in DOMAIN sorted : pi[k] \in DOMAIN regions /\ sorted[k] = regions[pi[k]]
    BY DEF Shuffles
  <1>2. \A k, l \in DOMAIN sorted : k # l => pi[k] # pi[l]  BY DEF Shuffles
  <1>3. \A i \in DOMAIN regions : \E k \in DOMAIN sorted : sorted[k] = regions[i]
    BY DEF Shuffles
  <1>4. ASSUME NEW k \in DOMAIN sorted, NEW line \in 1..top, Covers(sorted[k], sorted[k].rule, line)
        PROVE  /\ sorted[k].rule \in Rule
               /\ Starts(named, sorted[k], line)
               /\ Unnamed(named, sorted[k].rule, sorted[k].start + 1, line)
    <2>1. pi[k] \in DOMAIN regions /\ sorted[k] = regions[pi[k]]  BY <1>1
    <2> QED  BY <1>4, <2>1 DEF Told
  <1>5. ASSUME NEW rule \in Rule, NEW line \in 1..top, Off(named, rule, line)
        PROVE  \E k \in DOMAIN sorted : Covers(sorted[k], rule, line)
    <2>1. PICK i \in DOMAIN regions : Covers(regions[i], rule, line)  BY <1>5 DEF Told
    <2>2. PICK k \in DOMAIN sorted : sorted[k] = regions[i]  BY <1>3
    <2> QED  BY <2>1, <2>2
  <1>6. ASSUME NEW k \in DOMAIN sorted, NEW l \in DOMAIN sorted, k # l,
               sorted[k].rule = sorted[l].rule, sorted[k].start = sorted[l].start
        PROVE  sorted[k].end = sorted[k].start \/ sorted[l].end = sorted[l].start
    <2>1. /\ pi[k] \in DOMAIN regions /\ sorted[k] = regions[pi[k]]
          /\ pi[l] \in DOMAIN regions /\ sorted[l] = regions[pi[l]]
          /\ pi[k] # pi[l]
      BY <1>1, <1>2, <1>6
    <2> QED  BY <1>6, <2>1 DEF Told
  <1> QED  BY <1>4, <1>5, <1>6 DEF Told

(* The rules a pragma names, with the lines they are named on.              *)
Named(n) == {m \in Rule \X (1..n) : Mentions(m[1], m[2])}

LEMMA ToldIsExact ==
    ASSUME text \in Seq(Line), NEW regions, Told(regions, Named(Len(text)), Len(text))
    PROVE  /\ \A rule \in Rule, line \in DOMAIN text :
                 (\E i \in DOMAIN regions : Covers(regions[i], rule, line)) <=> Disabled(rule, line)
           /\ \A i \in DOMAIN regions, line \in DOMAIN text :
                 Covers(regions[i], regions[i].rule, line) =>
                     /\ \A k \in (regions[i].start + 1)..line : ~Mentions(regions[i].rule, k)
                     /\ \A j \in DOMAIN regions \ {i} : ~Covers(regions[j], regions[i].rule, line)
  <1> DEFINE n == Len(text)
             named == Named(n)
  <1>1. n \in Nat /\ DOMAIN text = 1..n  OBVIOUS
  <1>2. \A rule \in Rule : \A k \in 1..n : <<rule, k>> \in named <=> Mentions(rule, k)
    BY DEF Named
  <1>3. Told(regions, named, n)  OBVIOUS
  <1> HIDE DEF n, named
  <1>4. ASSUME NEW rule \in Rule, NEW line \in 1..n
        PROVE  /\ Off(named, rule, line) <=> Disabled(rule, line)
               /\ \A from \in Nat \ {0} :
                     Unnamed(named, rule, from, line) <=> \A k \in from..line : ~Mentions(rule, k)
    <2>1. 1..line \subseteq 1..n  BY <1>1
    <2>2. \A from \in Nat \ {0} : from..line \subseteq 1..n  BY <1>1
    <2>3. \A from \in Nat \ {0} :
             Unnamed(named, rule, from, line) <=> \A k \in from..line : ~Mentions(rule, k)
      BY <1>2, <2>2 DEF Unnamed
    <2>4. \A l \in 1..line : l + 1 \in Nat \ {0}  BY <1>1
    <2>5. Off(named, rule, line) <=> Disabled(rule, line)
      BY <1>2, <2>1, <2>3, <2>4 DEF Off, Disabled
    <2> QED  BY <2>3, <2>5
  <1>5. \A i \in DOMAIN regions : \A rule, line : Covers(regions[i], rule, line) => regions[i].rule = rule
    BY DEF Covers
  <1>6. ASSUME NEW rule \in Rule, NEW line \in 1..n
        PROVE  (\E i \in DOMAIN regions : Covers(regions[i], rule, line)) <=> Disabled(rule, line)
    <2>1. ASSUME NEW i \in DOMAIN regions, Covers(regions[i], rule, line)
          PROVE  Off(named, rule, line)
      <3>1. regions[i].rule = rule  BY <1>5, <2>1
      <3>2. /\ Starts(named, regions[i], line)
            /\ Unnamed(named, rule, regions[i].start + 1, line)
        BY <1>3, <2>1, <3>1 DEF Told
      <3> QED  BY <3>1, <3>2 DEF Off, Starts
    <2>2. Off(named, rule, line) => \E i \in DOMAIN regions : Covers(regions[i], rule, line)
      BY <1>3 DEF Told
    <2> QED  BY <1>4, <2>1, <2>2
  <1>7. ASSUME NEW i \in DOMAIN regions, NEW line \in 1..n, Covers(regions[i], regions[i].rule, line)
        PROVE  /\ \A k \in (regions[i].start + 1)..line : ~Mentions(regions[i].rule, k)
               /\ \A j \in DOMAIN regions \ {i} : ~Covers(regions[j], regions[i].rule, line)
    <2>1. /\ regions[i].rule \in Rule /\ Starts(named, regions[i], line)
          /\ Unnamed(named, regions[i].rule, regions[i].start + 1, line)
      BY <1>3, <1>7 DEF Told
    <2>2. regions[i].start \in 1..line /\ <<regions[i].rule, regions[i].start>> \in named
      BY <2>1 DEF Starts
    <2>3. regions[i].start + 1 \in Nat \ {0}  BY <2>2
    <2>4. \A k \in (regions[i].start + 1)..line : ~Mentions(regions[i].rule, k)
      BY <1>4, <2>1, <2>3
    <2>5. ASSUME NEW j \in DOMAIN regions, j # i, Covers(regions[j], regions[i].rule, line)
          PROVE  FALSE
      <3>1. regions[j].rule = regions[i].rule  BY <1>5, <2>5
      <3>2. /\ Starts(named, regions[j], line)
            /\ Unnamed(named, regions[j].rule, regions[j].start + 1, line)
        BY <1>3, <2>5, <3>1 DEF Told
      <3>3. regions[j].start \in 1..line /\ <<regions[j].rule, regions[j].start>> \in named
        BY <3>2 DEF Starts
      <3>4. ~(regions[i].start < regions[j].start)
        <4> SUFFICES ASSUME regions[i].start < regions[j].start PROVE FALSE
          OBVIOUS
        <4>1. regions[j].start \in (regions[i].start + 1)..line  BY <2>2, <3>3
        <4> QED  BY <2>1, <3>1, <3>3, <4>1 DEF Unnamed
      <3>5. ~(regions[j].start < regions[i].start)
        <4> SUFFICES ASSUME regions[j].start < regions[i].start PROVE FALSE
          OBVIOUS
        <4>1. regions[i].start \in (regions[j].start + 1)..line  BY <2>2, <3>3
        <4> QED  BY <2>2, <3>1, <3>2, <4>1 DEF Unnamed
      <3>6. regions[i].start = regions[j].start  BY <2>2, <3>3, <3>4, <3>5
      <3>7. regions[i].end = regions[i].start \/ regions[j].end = regions[j].start
        BY <1>3, <2>5, <3>1, <3>6 DEF Told
      <3>8. ASSUME NEW k \in DOMAIN regions, Covers(regions[k], regions[i].rule, line),
                   regions[k].start \in 1..line, regions[k].end = regions[k].start
            PROVE  FALSE
        <4>1. regions[k].end \in Nat /\ ~(line < regions[k].end)  BY <3>8
        <4> QED  BY <3>8, <4>1, EofAssumption DEF Covers
      <3> QED  BY <1>7, <2>2, <2>5, <3>3, <3>7, <3>8
    <2> QED  BY <2>4, <2>5
  <1> QED  BY <1>1, <1>6, <1>7
------------------------------------------------------------------------------
(* What has been read of the file, in one record.                           *)
Now == [open |-> open_regions, out |-> out]

(* Before the end the regions say what the lines read so far say; at the    *)
(* end the list of waivers is the one it should be.                         *)
ScanInv ==
    /\ text \in Seq(Line) /\ lineno \in 0..Len(text) /\ done \in BOOLEAN
    /\ done => lineno = Len(text)
    /\ ~done => Says(Now, Named(lineno), lineno)
    /\ RegionsExact /\ NewestReasonApplies /\ OrderOfDisable

LEMMA ScanInvInit == ScanInit => ScanInv
  <1> SUFFICES ASSUME ScanInit PROVE ScanInv
    OBVIOUS
  <1>1. text \in Seq(Line) /\ lineno = 0 /\ done = FALSE /\ open_regions = <<>> /\ out = <<>>
    BY SourcesAssumption DEF ScanInit
  <1>2. lineno \in 0..Len(text)
    <2>1. Len(text) \in Nat  BY <1>1
    <2> QED  BY <1>1, <2>1
  <1>3. Now.open = <<>> /\ Now.out = <<>> /\ Now \in Scanned  BY <1>1 DEF Now, Scanned
  <1>4. DOMAIN Now.open = {} /\ DOMAIN Now.out = {}  BY <1>3
  <1>5. Elements(Now.open) = {} /\ Elements(Now.out) = {}  BY <1>4 DEF Elements
  <1>6. OneEach(Now) /\ StartsOnce(Now)  BY <1>4, <1>5 DEF OneEach, StartsOnce
  <1>7. OpenRuns(Now, Named(0), 0) /\ OutEnds(Now, Named(0), 0)  BY <1>5 DEF OpenRuns, OutEnds
  <1>8. OffIsCovered(Now, Named(0), 0)
    <2>1. 1..0 = {}  OBVIOUS
    <2> QED  BY <2>1 DEF OffIsCovered
  <1>9. Says(Now, Named(lineno), lineno)  BY <1>1, <1>3, <1>6, <1>7, <1>8 DEF Says
  <1> QED  BY <1>1, <1>2, <1>9 DEF ScanInv, RegionsExact, NewestReasonApplies, OrderOfDisable

(* A line: what was said of the lines above holds on it, then its rules are *)
(* gone through.                                                            *)
LEMMA LineSays ==
    ASSUME ScanInv, ~done, lineno < Len(text)
    PROVE  LET line == text[lineno + 1]
               rules == IF line.verb = "none" THEN <<>> ELSE line.rules
           IN  Says(ApplyAll(Now, line.verb, rules, lineno + 1), Named(lineno + 1), lineno + 1)
  <1> DEFINE top == lineno + 1
             line == text[top]
             rules == IF line.verb = "none" THEN <<>> ELSE line.rules
  <1>1. text \in Seq(Line) /\ Len(text) \in Nat /\ lineno \in Nat /\ top \in 1..Len(text)
    <2>1. text \in Seq(Line) /\ lineno \in 0..Len(text)  BY DEF ScanInv
    <2> QED  BY <2>1
  <1>2. top \in Nat \ {0} /\ 1..top = 1..lineno \cup {top} /\ top \notin 1..lineno  BY <1>1
  <1>3. Says(Now, Named(lineno), top)
    <2>1. Says(Now, Named(lineno), lineno)  BY DEF ScanInv
    <2>2. \A rule : <<rule, lineno + 1>> \notin Named(lineno)  BY <1>2 DEF Named
    <2> QED  BY <1>1, <2>1, <2>2, NextLineSays
  <1>4. line \in Line  BY <1>1
  <1>5. line.rules \in Seq(Rule) /\ line.verb \in {"none", "disable", "enable"}  BY <1>4 DEF Line
  <1> HIDE DEF top
  <1>6. CASE line.verb = "none"
    <2>1. Named(top) = Named(lineno)
      <3>1. \A rule : ~Mentions(rule, top)  BY <1>6 DEF Mentions
      <3>2. \A m \in Rule \X (1..top) : Mentions(m[1], m[2]) => m \in Rule \X (1..lineno)
        BY <1>2, <3>1
      <3> QED  BY <1>2, <3>2 DEF Named
    <2>2. ApplyAll(Now, line.verb, <<>>, top) = Now
      <3>1. Len(<<>>) = 0  OBVIOUS
      <3> DEFINE after[k \in 0..0] == IF k = 0 THEN Now ELSE Apply(after[k - 1], line.verb, <<>>[k], top)
      <3>2. ApplyAll(Now, line.verb, <<>>, top) = after[0]  BY <3>1 DEF ApplyAll
      <3>3. [k \in 0..0 |-> Now] =
               [k \in 0..0 |-> IF k = 0 THEN Now
                               ELSE Apply([j \in 0..0 |-> Now][k - 1], line.verb, <<>>[k], top)]
        OBVIOUS
      <3>4. after = [k \in 0..0 |-> IF k = 0 THEN Now ELSE Apply(after[k - 1], line.verb, <<>>[k], top)]
        BY <3>3
      <3> HIDE DEF after
      <3>5. after[0] = Now  BY <3>4
      <3> QED  BY <3>2, <3>5
    <2>3. rules = <<>>  BY <1>6
    <2> HIDE DEF rules
    <2>4. Says(ApplyAll(Now, line.verb, rules, top), Named(top), top)  BY <1>3, <2>1, <2>2, <2>3
    <2> QED  BY <2>4 DEF rules, top
  <1>7. CASE line.verb # "none"
    <2>1. rules = line.rules /\ rules \in Seq(Rule)  BY <1>5, <1>7
    <2> HIDE DEF rules
    <2>2. Says(ApplyAll(Now, line.verb, rules, top), Upto(Named(lineno), rules, top, Len(rules)), top)
      BY <1>2, <1>3, <1>5, <1>7, <2>1, ApplyAllSays
    <2>3. Upto(Named(lineno), rules, top, Len(rules)) = Named(top)
      <3>1. DOMAIN rules = 1..Len(rules) /\ \A j \in 1..Len(rules) : rules[j] \in Rule  BY <2>1
      <3>2. \A rule : Mentions(rule, top) <=> \E j \in 1..Len(rules) : rule = rules[j]
        BY <1>7, <2>1, <3>1 DEF Mentions, ToSet
      <3>3. ASSUME NEW m \in Named(top) PROVE m \in Upto(Named(lineno), rules, top, Len(rules))
        <4>1. m \in Rule \X (1..top) /\ Mentions(m[1], m[2])  BY DEF Named
        <4>2. m = <<m[1], m[2]>> /\ m[1] \in Rule  BY <4>1
        <4>3. CASE m[2] = top  BY <3>2, <4>1, <4>2, <4>3 DEF Upto
        <4>4. CASE m[2] # top
          <5>1. m[2] \in 1..lineno  BY <1>2, <4>1, <4>4
          <5>2. m \in Named(lineno)  BY <4>1, <4>2, <5>1 DEF Named
          <5> QED  BY <5>2 DEF Upto
        <4> QED  BY <4>3, <4>4
      <3>4. ASSUME NEW m \in Upto(Named(lineno), rules, top, Len(rules)) PROVE m \in Named(top)
        <4>1. CASE m \in Named(lineno)
          <5>1. m \in Rule \X (1..lineno) /\ Mentions(m[1], m[2])  BY <4>1 DEF Named
          <5>2. m \in Rule \X (1..top)  BY <1>2, <5>1
          <5> QED  BY <5>1, <5>2 DEF Named
        <4>2. ASSUME NEW j \in 1..Len(rules), m = <<rules[j], top>> PROVE m \in Named(top)
          <5>1. rules[j] \in Rule /\ top \in 1..top /\ Mentions(rules[j], top)  BY <1>2, <3>1, <3>2
          <5>2. m \in Rule \X (1..top) /\ m[1] = rules[j] /\ m[2] = top  BY <4>2, <5>1
          <5> QED  BY <5>1, <5>2 DEF Named
        <4> QED  BY <4>1, <4>2 DEF Upto
      <3> QED  BY <3>3, <3>4
    <2>4. Says(ApplyAll(Now, line.verb, rules, top), Named(top), top)  BY <2>2, <2>3
    <2> QED  BY <2>4 DEF rules, top
  <1> QED  BY <1>6, <1>7

(* The text does not change, so what is said of it does not either.         *)
LEMMA SameText ==
    ASSUME text' = text, NEW s, NEW named, NEW top, Says(s, named, top)
    PROVE  Says(s, named, top)'
  BY DEF Says, OpenRuns, OutEnds, OffIsCovered, Starts, Off

LEMMA ScanInvStep == ScanInv /\ [ScanStep]_scan_vars => ScanInv'
  <1> SUFFICES ASSUME ScanInv, [ScanStep]_scan_vars PROVE ScanInv'
    OBVIOUS
  <1>1. /\ text \in Seq(Line) /\ lineno \in 0..Len(text) /\ done \in BOOLEAN /\ Len(text) \in Nat
        /\ done => lineno = Len(text)
        /\ ~done => Says(Now, Named(lineno), lineno)
        /\ RegionsExact /\ NewestReasonApplies /\ OrderOfDisable
    <2>1. text \in Seq(Line)  BY DEF ScanInv
    <2>2. Len(text) \in Nat  BY <2>1
    <2> QED  BY <2>2 DEF ScanInv
  <1>2. CASE ScanLine /\ done = FALSE
    <2> DEFINE line == text[lineno + 1]
               rules == IF line.verb = "none" THEN <<>> ELSE line.rules
               after == ApplyAll(Now, line.verb, rules, lineno + 1)
    <2>1. /\ lineno < Len(text) /\ lineno' = lineno + 1 /\ text' = text /\ done' = done
          /\ open_regions' = after.open /\ out' = after.out
      BY <1>2 DEF ScanLine, Now
    <2>2. Says(after, Named(lineno + 1), lineno + 1)  BY <1>2, <2>1, LineSays
    <2> HIDE DEF after
    <2>3. after \in Scanned  BY <2>2 DEF Says
    <2>4. Now' = after  BY <2>1, <2>3 DEF Now, Scanned
    <2>5. Named(lineno)' = Named(lineno + 1)  BY <2>1 DEF Named, Mentions
    <2>6. PICK s, named, top : s = after /\ named = Named(lineno + 1) /\ top = lineno + 1
      OBVIOUS
    <2>7. Says(s, named, top)'  BY <2>1, <2>2, <2>6, SameText
    <2>8. Says(Now, Named(lineno), lineno)'  BY <2>1, <2>4, <2>5, <2>6, <2>7
    <2>9. lineno' \in 0..Len(text)  BY <1>1, <2>1
    <2> QED  BY <1>1, <1>2, <2>1, <2>8, <2>9
             DEF ScanInv, RegionsExact, NewestReasonApplies, OrderOfDisable
  <1>3. CASE EndOfFile
    <2> DEFINE all == out \o Rest(open_regions)
    <2>1. /\ lineno = Len(text) /\ ~done /\ out' = Sorted(all) /\ done' = TRUE
          /\ text' = text /\ lineno' = lineno
      BY <1>3 DEF EndOfFile, Rest
    <2>2. all \in Seq(Region) /\ Told(all, Named(Len(text)), Len(text))
      <3>1. Says(Now, Named(Len(text)), Len(text))  BY <1>1, <2>1
      <3>2. Now.out = out /\ Now.open = open_regions  BY DEF Now
      <3> QED  BY <1>1, <3>1, <3>2, RestIsTold
    <2> HIDE DEF all
    <2>3. PICK n \in Nat : DOMAIN all = 1..n /\ \A i \in 1..n : all[i].start \in Nat
      <3>1. Len(all) \in Nat /\ DOMAIN all = 1..Len(all) /\ \A i \in 1..Len(all) : all[i] \in Region
        BY <2>2
      <3>2. \A r \in Region : r.start \in Nat  BY DEF Region
      <3> QED  BY <3>1, <3>2
    <2>4. /\ \E pi : Shuffles(Sorted(all), all, pi)
          /\ \A k, l \in 1..n : k < l => Sorted(all)[k].start <= Sorted(all)[l].start
      BY <2>3, SortedIsOrdered
    <2>5. PICK regions : regions = Sorted(all)  OBVIOUS
    <2>6. DOMAIN regions = 1..n  BY <2>3, <2>4, <2>5 DEF Shuffles
    <2>7. Told(regions, Named(Len(text)), Len(text))  BY <2>2, <2>4, <2>5, ShuffledIsTold
    <2>8. /\ \A rule \in Rule, line \in DOMAIN text :
                (\E i \in DOMAIN regions : Covers(regions[i], rule, line)) <=> Disabled(rule, line)
          /\ \A i \in DOMAIN regions, line \in DOMAIN text :
                Covers(regions[i], regions[i].rule, line) =>
                    /\ \A k \in (regions[i].start + 1)..line : ~Mentions(regions[i].rule, k)
                    /\ \A j \in DOMAIN regions \ {i} : ~Covers(regions[j], regions[i].rule, line)
      BY <1>1, <2>7, ToldIsExact
    <2>9. out' = regions  BY <2>1, <2>5
    <2>10. \A rule, k : Mentions(rule, k)' <=> Mentions(rule, k)  BY <2>1 DEF Mentions
    <2>11. \A rule, k : Disabled(rule, k)' <=> Disabled(rule, k)  BY <2>1, <2>10 DEF Disabled
    <2>12. RegionsExact'  BY <2>1, <2>8, <2>9, <2>11 DEF RegionsExact
    <2>13. NewestReasonApplies'  BY <2>1, <2>8, <2>9, <2>10 DEF NewestReasonApplies
    <2>14. OrderOfDisable'  BY <2>4, <2>5, <2>6, <2>9 DEF OrderOfDisable
    <2> QED  BY <1>1, <2>1, <2>12, <2>13, <2>14 DEF ScanInv
  <1>4. CASE UNCHANGED scan_vars
    <2>1. text' = text /\ lineno' = lineno /\ done' = done /\ out' = out /\ open_regions' = open_regions
      BY <1>4 DEF scan_vars
    <2>2. \A rule, k : Mentions(rule, k)' <=> Mentions(rule, k)  BY <2>1 DEF Mentions
    <2>3. \A rule, k : Disabled(rule, k)' <=> Disabled(rule, k)  BY <2>1, <2>2 DEF Disabled
    <2>4. ~done' => Says(Now, Named(lineno), lineno)'
      <3>1. Now' = Now /\ Named(lineno)' = Named(lineno)  BY <2>1, <2>2 DEF Now, Named
      <3>2. PICK s, named, top : s = Now /\ named = Named(lineno) /\ top = lineno  OBVIOUS
      <3>3. ~done => Says(s, named, top)'  BY <1>1, <2>1, <3>2, SameText
      <3> QED  BY <2>1, <3>1, <3>2, <3>3
    <2>5. RegionsExact'  BY <1>1, <2>1, <2>3 DEF RegionsExact
    <2>6. NewestReasonApplies'  BY <1>1, <2>1, <2>2 DEF NewestReasonApplies
    <2>7. OrderOfDisable'  BY <1>1, <2>1 DEF OrderOfDisable
    <2> QED  BY <1>1, <2>1, <2>4, <2>5, <2>6, <2>7 DEF ScanInv
  <1>5. ScanLine => done = FALSE
    <2>1. ScanLine => lineno < Len(text)  BY DEF ScanLine
    <2>2. ~(Len(text) < Len(text))  BY <1>1
    <2> QED  BY <1>1, <2>1, <2>2
  <1> QED  BY <1>2, <1>3, <1>4, <1>5 DEF ScanStep

(* The inductive invariant of scan_text: the open and the closed regions    *)
(* together say what the pragmas read so far say.                           *)
THEOREM RegionsFollowText == ScanSpec => []ScanInv
  BY ScanInvInit, ScanInvStep, PTL DEF ScanSpec

(* A line is waived for a rule iff the nearest pragma above it that names   *)
(* the rule disables it (pragma.py, scan_text).                             *)
THEOREM WaivedAsWritten == ScanSpec => []RegionsExact
  BY RegionsFollowText, PTL DEF ScanInv

(* One region covers a line for a rule, that of the nearest disable-rule.   *)
THEOREM NewestWins == ScanSpec => []NewestReasonApplies
  BY RegionsFollowText, PTL DEF ScanInv

(* The waivers come in the order of their disable-rule.                     *)
THEOREM InOrderOfText == ScanSpec => []OrderOfDisable
  BY RegionsFollowText, PTL DEF ScanInv

------------------------------------------------------------------------------
(***************************************************************************)
(* The chain of runs.                                                      *)
(***************************************************************************)
Keys(findings) == {Same(f) : f \in findings}

(* What the baseline file holds is what is standing.  A truncated report   *)
(* leaves nothing standing, and nothing in the file was never told.        *)
BaselineInv ==
    \/ report \in {NoReport, Truncated} /\ standing = {}
    \/ standing = BaselineKeys(report) /\ standing \subseteq told

(* What a run found is told or carried over; what is carried over stands,  *)
(* and what is told did not.                                               *)
RunInv ==
    running =>
        /\ Keys(Unwaived) = Keys(violations) \cup Keys(baseline_carryover)
        /\ Keys(baseline_carryover) \subseteq standing
        /\ baseline_carryover # {} => input.baseline
        /\ input.baseline => Keys(violations) \cap standing = {}

(* A waiver in the list of suppressed findings is the first that matches.  *)
SuppressedInv ==
    \A s \in suppressed :
        /\ s.violation \in Finding
        /\ s.waiver \in Waives(input, s.violation)
        /\ \A n \in Waives(input, s.violation) : s.waiver <= n

TriageInv ==
    /\ TypeOK /\ running \in BOOLEAN /\ BaselineInv /\ RunInv /\ SuppressedInv
    /\ CarriedWasTold /\ SuccessHidesNothing

------------------------------------------------------------------------------
(* --strict changes no baseline key.                                       *)
LEMMA PromotedSame ==
    ASSUME NEW f \in Finding
    PROVE  Same(Promoted(f)) = Same(f) /\ Promoted(f) \in Triaged /\ f \in Triaged
<1>1. f \in [rule : STRING, cell : Text \cup {None}, path : Text \cup {None},
             message : Text, severity : Severity, file : Text \cup {None}, line : Nat \cup {None}]
  BY FindingAssumption
<1>2. Same(Promoted(f)) = Same(f)
  BY <1>1 DEF Same, Promoted
<1>3. \E s \in Severity : Promoted(f) = [f EXCEPT !.severity = s]
  BY <1>1 DEF Promoted, Severity
<1>4. f = [f EXCEPT !.severity = f.severity] /\ f.severity \in Severity
  BY <1>1
<1> QED  BY <1>2, <1>3, <1>4 DEF Triaged

(* The keys a report passes on are the keys of what is in it.              *)
LEMMA SameIsKey == \A f : Same(f) = Key(f)
  BY DEF Same, Key

(* A matching waiver has a place in the list, and the code picks the first. *)
LEMMA FirstWaiverIsFirst ==
    ASSUME NEW i \in Input, NEW f, Waives(i, f) # {}
    PROVE  /\ FirstWaiver(i, f) \in Waives(i, f)
           /\ \A n \in Waives(i, f) : FirstWaiver(i, f) <= n
<1>1. AllWaivers(i) \in Seq(Waiver)
  BY InputAssumption DEF AllWaivers
<1>2. Waives(i, f) \in SUBSET Nat
  BY <1>1 DEF Waives
<1>3. \E n \in Waives(i, f) : \A k \in Waives(i, f) : n <= k
  BY <1>2, LeastNat
<1> QED  BY <1>3 DEF FirstWaiver

------------------------------------------------------------------------------
LEMMA TriageInit == Init => TriageInv
<1> SUFFICES ASSUME Init PROVE TriageInv
  OBVIOUS
<1> USE DEF Init
<1>1. TypeOK
  BY DEF TypeOK
<1>2. BaselineInv /\ RunInv /\ SuppressedInv
  BY DEF BaselineInv, RunInv, SuppressedInv
<1>3. CarriedWasTold
  BY DEF CarriedWasTold
<1>4. SuccessHidesNothing
  BY NoneAssumption DEF SuccessHidesNothing
<1> QED  BY <1>1, <1>2, <1>3, <1>4 DEF TriageInv

(* An analysis sorts the findings into three buckets.                      *)
LEMMA AnalyseKeeps ==
    ASSUME TriageInv, NEW i \in Input, Analyse(i)
    PROVE  TriageInv'
<1> DEFINE raw == IF RulesRan(i) THEN i.findings ELSE {}
           active == {f \in raw : Waives(i, f) = {}}
           carried == IF i.baseline THEN {f \in active : Key(f) \in BaselineKeys(report)} ELSE {}
           kept == active \ carried
<1>1. /\ input' = i /\ running' = TRUE /\ exit_code' = None
      /\ violations' = IF i.strict THEN {Promoted(f) : f \in kept} ELSE kept
      /\ suppressed' = {[violation |-> f, waiver |-> FirstWaiver(i, f)] : f \in raw \ active}
      /\ baseline_carryover' = carried
      /\ UNCHANGED <<report, told, standing>>
      /\ i.baseline => report \notin {NoReport, Truncated}
  BY DEF Analyse
<1>2. raw \subseteq Finding /\ active \subseteq Finding /\ kept \subseteq Finding
      /\ carried \subseteq active
  BY InputAssumption
<1>3. Unwaived' = active
  BY <1>1 DEF Unwaived
<1>4. Keys(violations)' = Keys(kept)
  <2>1. CASE i.strict
    <3>1. {Same(f) : f \in {Promoted(g) : g \in kept}} = {Same(g) : g \in kept}
      BY <1>2, PromotedSame
    <3> QED  BY <1>1, <2>1, <3>1 DEF Keys, Same
  <2>2. CASE ~i.strict
    BY <1>1, <2>2 DEF Keys, Same
  <2> QED  BY <2>1, <2>2
<1>5. Keys(baseline_carryover)' = Keys(carried)
  BY <1>1 DEF Keys, Same
<1>6. i.baseline => standing = BaselineKeys(report)
  BY <1>1 DEF TriageInv, BaselineInv
<1>7. \A f \in raw \ active : /\ FirstWaiver(i, f) \in Waives(i, f)
                              /\ \A n \in Waives(i, f) : FirstWaiver(i, f) <= n
  BY FirstWaiverIsFirst
<1> HIDE DEF raw, active, carried, kept
<1>8. RunInv'
  <2>1. Keys(Unwaived)' = Keys(active)
    BY <1>3 DEF Keys, Same
  <2>2. Keys(active) = Keys(kept) \cup Keys(carried)
    BY <1>2 DEF kept, Keys
  <2>3. Keys(carried) \subseteq standing
    BY <1>6, SameIsKey DEF carried, Keys
  <2>4. i.baseline => Keys(kept) \cap standing = {}
    BY <1>6, SameIsKey DEF kept, carried, Keys
  <2>5. carried # {} => i.baseline
    BY DEF carried
  <2> QED  BY <1>1, <1>4, <1>5, <2>1, <2>2, <2>3, <2>4, <2>5 DEF RunInv
<1>9. SuppressedInv'
  <2> SUFFICES ASSUME NEW s \in suppressed'
               PROVE  /\ s.violation \in Finding
                      /\ s.waiver \in Waives(i, s.violation)
                      /\ \A n \in Waives(i, s.violation) : s.waiver <= n
    BY <1>1 DEF SuppressedInv
  <2>1. PICK f \in raw \ active : s = [violation |-> f, waiver |-> FirstWaiver(i, f)]
    BY <1>1
  <2> QED  BY <1>2, <1>7, <2>1
<1>10. BaselineInv'
  BY <1>1 DEF TriageInv, BaselineInv, BaselineKeys, Key
<1>11. CarriedWasTold'
  <2>1. \A f \in carried : Same(f) \in standing /\ standing \subseteq told
    BY <1>1, <1>6, SameIsKey DEF carried, TriageInv, BaselineInv
  <2> QED  BY <1>1, <2>1 DEF CarriedWasTold, Same
<1>12. TypeOK'
  <2>1. violations' \subseteq Triaged
    BY <1>1, <1>2, PromotedSame
  <2>2. \A s \in suppressed' : s.violation \in Finding /\ s.waiver \in DOMAIN AllWaivers(input')
    BY <1>1, <1>9 DEF SuppressedInv, Waives, AllWaivers
  <2>3. report' \in {NoReport, Truncated} \/ DOMAIN report' = DOMAIN Nothing
    BY <1>1 DEF TriageInv, TypeOK
  <2>4. input' \in Input /\ baseline_carryover' \subseteq Finding /\ exit_code' \in {None, 0, 1}
    BY <1>1, <1>2
  <2> QED  BY <2>1, <2>2, <2>3, <2>4 DEF TypeOK
<1> QED  BY <1>1, <1>8, <1>9, <1>10, <1>11, <1>12 DEF TriageInv, SuccessHidesNothing

(* Half a report: nothing is analysed.                                     *)
LEMMA BadBaselineKeeps ==
    ASSUME TriageInv, NEW i \in Input, BadBaseline(i)
    PROVE  TriageInv'
<1> USE DEF TriageInv, BadBaseline
<1>1. TypeOK'
  BY DEF TypeOK
<1>2. BaselineInv' /\ RunInv' /\ SuppressedInv'
  BY DEF BaselineInv, RunInv, SuppressedInv, BaselineKeys, Key
<1>3. CarriedWasTold' /\ SuccessHidesNothing'
  BY DEF CarriedWasTold, SuccessHidesNothing
<1> QED  BY <1>1, <1>2, <1>3

(* A run that ends: its report, if it writes one, is what stands.          *)
LEMMA FinishKeeps ==
    ASSUME TriageInv, Finish
    PROVE  TriageInv'
<1>1. /\ running /\ running' = FALSE /\ UNCHANGED <<input, buckets>>
      /\ exit_code' = IF violations = {} \/ input.no_findings THEN 0 ELSE 1
  BY DEF Finish
<1>2. /\ Keys(Unwaived) = Keys(violations) \cup Keys(baseline_carryover)
      /\ Keys(baseline_carryover) \subseteq standing
      /\ baseline_carryover # {} => input.baseline
  BY <1>1 DEF TriageInv, RunInv
<1>3. UNCHANGED <<input, violations, suppressed, baseline_carryover>>
  BY <1>1 DEF buckets
<1>4. BaselineInv' /\ told \subseteq told' /\ Keys(baseline_carryover) \subseteq standing'
  <2>1. CASE input.output /\ ~input.no_findings
    <3>1. /\ report' = [violations |-> violations, suppressed |-> suppressed,
                        baseline_carryover |-> baseline_carryover]
          /\ told' = told \cup Keys(violations)
          /\ standing' = (standing \cup Keys(violations)) \cap Keys(Unwaived)
      BY <2>1 DEF Finish, Keys
    <3>2. standing' = Keys(violations) \cup Keys(baseline_carryover)
      BY <1>2, <3>1
    <3>3. BaselineKeys(report') = Keys(violations) \cup Keys(baseline_carryover)
      BY <3>1, SameIsKey DEF BaselineKeys, Keys
    <3>4. standing \subseteq told
      BY DEF TriageInv, BaselineInv
    <3>5. standing' \subseteq told'
      BY <1>2, <3>1, <3>2, <3>4
    <3> QED  BY <1>2, <3>1, <3>2, <3>3, <3>5 DEF BaselineInv, BaselineKeys, Key
  <2>2. CASE ~(input.output /\ ~input.no_findings)
    BY <1>2, <2>2 DEF Finish, TriageInv, BaselineInv, BaselineKeys, Key
  <2> QED  BY <2>1, <2>2
<1>5. TypeOK'
  <2>1. report' \in {NoReport, Truncated} \/ DOMAIN report' = DOMAIN Nothing
    BY DEF Finish, TriageInv, TypeOK, Nothing
  <2> QED  BY <1>1, <1>3, <2>1 DEF TriageInv, TypeOK
<1>6. RunInv' /\ SuppressedInv'
  BY <1>1, <1>3 DEF TriageInv, RunInv, SuppressedInv
<1>7. CarriedWasTold'
  BY <1>3, <1>4 DEF TriageInv, CarriedWasTold, Same
<1>8. SuccessHidesNothing'
  <2> SUFFICES ASSUME exit_code' = 0, NEW f \in Unwaived
               PROVE  input.baseline /\ Same(f) \in standing'
    BY <1>3 DEF SuccessHidesNothing, Unwaived, Same
  <2>1. ~input.no_findings
    BY DEF Unwaived, RulesRan
  <2>2. violations = {}
    BY <1>1, <2>1
  <2>3. Same(f) \in Keys(baseline_carryover)
    BY <1>2, <2>2 DEF Keys
  <2>4. baseline_carryover # {}
    BY <2>3 DEF Keys
  <2> QED  BY <1>2, <1>4, <2>3, <2>4
<1> QED  BY <1>1, <1>4, <1>5, <1>6, <1>7, <1>8 DEF TriageInv

(* A run that dies leaves half a report, if it was writing one.            *)
LEMMA CrashKeeps ==
    ASSUME TriageInv, Crash
    PROVE  TriageInv'
<1> USE DEF TriageInv, Crash, buckets
<1>1. TypeOK'
  BY DEF TypeOK
<1>2. BaselineInv'
  BY DEF BaselineInv, BaselineKeys, Key
<1>3. RunInv' /\ SuppressedInv'
  BY DEF RunInv, SuppressedInv
<1>4. CarriedWasTold' /\ SuccessHidesNothing'
  BY DEF CarriedWasTold, SuccessHidesNothing
<1> QED  BY <1>1, <1>2, <1>3, <1>4

LEMMA TriageStep == TriageInv /\ [Next]_vars => TriageInv'
<1> SUFFICES ASSUME TriageInv, [Next]_vars PROVE TriageInv'
  OBVIOUS
<1>1. CASE UNCHANGED vars
  <2> USE <1>1 DEF vars, buckets, TriageInv
  <2>1. TypeOK'
    BY DEF TypeOK
  <2>2. BaselineInv' /\ RunInv' /\ SuppressedInv'
    BY DEF BaselineInv, RunInv, SuppressedInv, Keys, Unwaived, Same, BaselineKeys, Key
  <2>3. CarriedWasTold' /\ SuccessHidesNothing'
    BY DEF CarriedWasTold, SuccessHidesNothing, Unwaived, Same
  <2> QED  BY <2>1, <2>2, <2>3
<1> QED  BY <1>1, AnalyseKeeps, BadBaselineKeeps, FinishKeeps, CrashKeeps DEF Next

LEMMA TriageInvariant == Spec => []TriageInv
  BY TriageInit, TriageStep, PTL DEF Spec

------------------------------------------------------------------------------
(***************************************************************************)
(* The buckets hold findings of the design, and a suppressed finding names *)
(* a waiver of the list.                                                   *)
(***************************************************************************)
THEOREM TriageTypeCorrect == Spec => []TypeOK
<1>1. TriageInv => TypeOK
  BY DEF TriageInv
<1> QED  BY <1>1, TriageInvariant, PTL

(***************************************************************************)
(* What is carried over once failed a run of the chain, whatever waivers   *)
(* came and went between them and wherever a run died.                     *)
(***************************************************************************)
THEOREM NothingSlipsIn == Spec => []CarriedWasTold
<1>1. TriageInv => CarriedWasTold
  BY DEF TriageInv
<1> QED  BY <1>1, TriageInvariant, PTL

(***************************************************************************)
(* Chained baselines stay stable: what failed and stayed does not fail     *)
(* again, --strict or not.                                                 *)
(***************************************************************************)
THEOREM ChainIsStable == Spec => []FailsOnce
<1>1. TriageInv => FailsOnce
  BY DEF TriageInv, RunInv, FailsOnce, Keys
<1> QED  BY <1>1, TriageInvariant, PTL

(***************************************************************************)
(* Exit code 0 means that every finding is waived or failed an earlier run *)
(* of the chain.                                                           *)
(***************************************************************************)
THEOREM ZeroMeansClean == Spec => []SuccessHidesNothing
<1>1. TriageInv => SuccessHidesNothing
  BY DEF TriageInv
<1> QED  BY <1>1, TriageInvariant, PTL

(***************************************************************************)
(* A finding a pragma covers is suppressed in the name of a pragma: the    *)
(* first match of the list is at or before it, and only pragmas are.       *)
(***************************************************************************)
THEOREM PragmaIsFirst == Spec => []PragmaWins
<1>1. TriageInv => PragmaWins
  <2> SUFFICES ASSUME TriageInv, NEW s \in suppressed, NEW n \in DOMAIN input.extra_waivers,
                      Matches(input.extra_waivers[n], s.violation)
               PROVE  AllWaivers(input)[s.waiver].origin # None
    BY DEF PragmaWins
  <2> DEFINE pragmas == input.extra_waivers  all == AllWaivers(input)
  <2>1. /\ pragmas \in Seq(Waiver) /\ input.waivers \in Seq(Waiver)
        /\ \A k \in DOMAIN pragmas : pragmas[k].origin # None
    BY InputAssumption DEF TriageInv, TypeOK
  <2>2. all = pragmas \o input.waivers
    BY DEF AllWaivers
  <2>3. \A k \in DOMAIN pragmas : k \in DOMAIN all /\ all[k] = pragmas[k]
    <3> HIDE DEF pragmas, all
    <3>1. DOMAIN pragmas = 1..Len(pragmas) /\ Len(pragmas) \in Nat /\ Len(input.waivers) \in Nat
      BY <2>1
    <3>2. all \in Seq(Waiver) /\ Len(all) = Len(pragmas) + Len(input.waivers)
      BY <2>1, <2>2
    <3> QED  BY <2>1, <2>2, <3>1, <3>2
  <2>4. n \in Waives(input, s.violation)
    BY <2>3 DEF Waives
  <2>5. s.waiver \in DOMAIN all /\ s.waiver <= n
    BY <2>4 DEF TriageInv, SuppressedInv, Waives
  <2>6. s.waiver \in DOMAIN pragmas
    BY <2>1, <2>2, <2>5
  <2> QED  BY <2>1, <2>3, <2>6
<1> QED  BY <1>1, TriageInvariant, PTL
=============================================================================
