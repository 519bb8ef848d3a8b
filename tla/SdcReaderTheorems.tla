------------------------- MODULE SdcReaderTheorems -------------------------
(***************************************************************************)
(* The safety of SdcReader for every set of files, whatever evaluating     *)
(* them does, and for every time limit and margin.                         *)
(***************************************************************************)
EXTENDS SdcReader, FiniteSetTheorems, TLAPS

(* Where the parent is, and which worker it waits for there.  A worker is  *)
(* none between two requests, so it never outlives its parse.              *)
ParentInv ==
    /\ pc = "idle" => file = Nobody
    /\ pc # "idle" => file \in File
    /\ pc \in {"idle", "resolving"} => worker = "none"
    /\ pc = "probing" => job = Probe
    /\ pc = "reading" => job = file

(* An answer is complete, and only a harmless file has one.                *)
AnswerInv ==
    worker = "ok" =>
        /\ records = "whole"
        /\ job \in File => Behaviour[job] = "fine"

(* The interpreter's clock and the parent's: the first one starts later    *)
(* and is never overrun while the interpreter evaluates.                   *)
ClockInv ==
    /\ armed <= elapsed
    /\ worker = "evaluating" => elapsed <= armed + TimeLimit

SdcInv == TypeOK /\ ParentInv /\ AnswerInv /\ ClockInv

SafetyInv == SdcInv /\ CaptureIsWhole /\ FallbackIsSaid

(* The initial state.                                                      *)
LEMMA SdcInit == Init => SafetyInv
<1> SUFFICES ASSUME Init PROVE SafetyInv
  OBVIOUS
<1> USE DEF Init
<1>1. Timeout \in Nat
  BY TimeAssumption DEF Timeout
<1>2. TypeOK
  <2>1. /\ requested \in {"auto", "tcl", "tokenizer"} /\ tkinter \in BOOLEAN /\ warned \in BOOLEAN
        /\ unparsed \subseteq File /\ file \in (File \ unparsed) \cup {Nobody}
    OBVIOUS
  <2>2. armed \in 0..Timeout /\ elapsed \in 0..Timeout
    BY <1>1
  <2>3. reader \in [File -> {"none", "whole", "tokenizer"}] /\ partial_warnings \subseteq File
    OBVIOUS
  <2>4. /\ pc \in {"idle", "probing", "resolving", "reading"}
        /\ tcl_probe \in {"unknown", "available", "unavailable"}
        /\ job \in File \cup {Probe, Nobody} /\ records \in {"none", "part", "whole"}
        /\ worker \in {"none", "starting", "evaluating", "stuck"} \cup Ending
    OBVIOUS
  <2> QED  BY <2>1, <2>2, <2>3, <2>4 DEF TypeOK
<1>3. ParentInv /\ AnswerInv /\ ClockInv
  BY TimeAssumption DEF ParentInv, AnswerInv, ClockInv
<1>4. CaptureIsWhole /\ FallbackIsSaid
  BY DEF CaptureIsWhole, FallbackIsSaid
<1> QED  BY <1>2, <1>3, <1>4 DEF SafetyInv, SdcInv

(* A step of the worker, or of the clock, while the parent waits.          *)
LEMMA WorkerKeeps ==
    ASSUME SafetyInv, Worker \/ Kill \/ Tick
    PROVE  SafetyInv'
<1> USE DEF SafetyInv, SdcInv
<1>1. UNCHANGED <<requested, tkinter, unparsed, file, pc, tcl_probe, warned, reader,
                  partial_warnings, job>>
  BY DEF Worker, Kill, Tick, Arm, NoTcl, Record, Finish, Fail, LimitExceeded, Crash, Wedge, parent
<1>2. pc \in {"probing", "reading"} /\ worker # "none" /\ worker' # "none"
  BY DEF Worker, Kill, Tick, Arm, NoTcl, Record, Finish, Fail, LimitExceeded, Crash, Wedge,
         Alive, TypeOK, ParentInv
<1>3. ParentInv'
  BY <1>1, <1>2 DEF ParentInv
<1>4. CaptureIsWhole' /\ FallbackIsSaid'
  BY <1>1 DEF CaptureIsWhole, FallbackIsSaid
<1>5. Timeout \in Nat /\ TimeLimit \in Nat /\ Timeout' = Timeout
  BY TimeAssumption DEF Timeout
<1>6. TypeOK' /\ AnswerInv' /\ ClockInv'
  <2> USE <1>1, <1>5 DEF TypeOK, AnswerInv, ClockInv, Ending, Files
  <2>1. CASE Arm  BY <2>1 DEF Arm
  <2>2. CASE NoTcl  BY <2>2 DEF NoTcl
  <2>3. CASE Record  BY <2>3 DEF Record
  <2>4. CASE Finish  BY <2>4, FileAssumption DEF Finish
  <2>5. CASE Fail  BY <2>5 DEF Fail
  <2>6. CASE LimitExceeded  BY <2>6 DEF LimitExceeded
  <2>7. CASE Crash  BY <2>7 DEF Crash
  <2>8. CASE Wedge  BY <2>8 DEF Wedge
  <2>9. CASE Kill  BY <2>9 DEF Kill
  <2>10. CASE Tick  BY <2>10 DEF Tick
  <2> QED  BY <2>1, <2>2, <2>3, <2>4, <2>5, <2>6, <2>7, <2>8, <2>9, <2>10 DEF Worker
<1> QED  BY <1>3, <1>4, <1>6

(* A step of the parent.                                                   *)
LEMMA ParentKeeps ==
    ASSUME SafetyInv, (\E f \in File : Parse(f)) \/ ProbeAnswered \/ Resolve \/ ReadAnswered
    PROVE  SafetyInv'
<1> USE DEF SafetyInv, SdcInv
<1>1. Timeout \in Nat /\ Timeout' = Timeout /\ 0 \in 0..Timeout
  BY TimeAssumption DEF Timeout
<1>2. ASSUME NEW f \in File, Parse(f) PROVE SafetyInv'
  <2> USE <1>2 DEF Parse, Spawn
  <2>1. TypeOK'
    BY <1>1, FileAssumption DEF TypeOK, Ending
  <2>2. ParentInv'
    BY FileAssumption DEF ParentInv, TypeOK
  <2>3. AnswerInv' /\ ClockInv'
    BY TimeAssumption DEF AnswerInv, ClockInv, ParentInv, TypeOK
  <2>4. CaptureIsWhole' /\ FallbackIsSaid'
    BY DEF CaptureIsWhole, FallbackIsSaid
  <2> QED  BY <2>1, <2>2, <2>3, <2>4
<1>3. CASE ProbeAnswered
  <2> USE <1>3 DEF ProbeAnswered, Reap
  <2>1. TypeOK'
    BY <1>1 DEF TypeOK, Ending
  <2>2. ParentInv' /\ AnswerInv' /\ ClockInv'
    BY DEF ParentInv, AnswerInv, ClockInv
  <2>3. CaptureIsWhole' /\ FallbackIsSaid'
    BY DEF CaptureIsWhole, FallbackIsSaid
  <2> QED  BY <2>1, <2>2, <2>3
<1>4. CASE Resolve
  <2> USE <1>4 DEF Resolve, Announce, Spawn, ReadByTokenizer
  <2>1. file \in File /\ worker = "none"
    BY DEF ParentInv
  <2>2. TypeOK'
    BY <1>1, <2>1 DEF TypeOK, Ending
  <2>3. ParentInv'
    BY <2>1 DEF ParentInv
  <2>4. AnswerInv' /\ ClockInv'
    BY <2>1 DEF AnswerInv, ClockInv
  <2>5. CaptureIsWhole'
    BY <2>1 DEF CaptureIsWhole, TypeOK
  <2>6. FallbackIsSaid'
    BY <2>1 DEF FallbackIsSaid, TypeOK
  <2> QED  BY <2>2, <2>3, <2>4, <2>5, <2>6
<1>5. CASE ReadAnswered
  <2> USE <1>5 DEF ReadAnswered, Reap, ReadByTokenizer
  <2>1. file \in File /\ job = file
    BY DEF ParentInv
  <2>2. TypeOK'
    BY <1>1, <2>1 DEF TypeOK, Ending, AnswerInv
  <2>3. ParentInv' /\ AnswerInv' /\ ClockInv'
    BY DEF ParentInv, AnswerInv, ClockInv
  <2>4. CaptureIsWhole'
    BY <2>1 DEF CaptureIsWhole, TypeOK, AnswerInv
  <2>5. FallbackIsSaid'
    BY <2>1 DEF FallbackIsSaid, TypeOK, AnswerInv
  <2> QED  BY <2>2, <2>3, <2>4, <2>5
<1> QED  BY <1>2, <1>3, <1>4, <1>5

(* Every step keeps the invariant.                                         *)
LEMMA SdcStep == SafetyInv /\ [Next]_vars => SafetyInv'
<1> SUFFICES ASSUME SafetyInv, [Next]_vars PROVE SafetyInv'
  OBVIOUS
<1>1. CASE UNCHANGED vars
  BY <1>1 DEF vars, SafetyInv, SdcInv, TypeOK, ParentInv, AnswerInv, ClockInv, CaptureIsWhole,
              FallbackIsSaid, Timeout, Ending
<1>2. CASE Finished
  BY <1>1, <1>2 DEF Finished
<1> QED  BY <1>1, <1>2, WorkerKeeps, ParentKeeps DEF Next

(* The conjunction is an invariant of the specification.                   *)
LEMMA SdcInvariant == Spec => []SafetyInv
  BY SdcInit, SdcStep, PTL DEF Spec

(***************************************************************************)
(* The variables keep their types; with them, what is left of a file is    *)
(* never the file being parsed, and no clock runs past the deadline.       *)
(***************************************************************************)
THEOREM SdcTypeCorrect == Spec => []TypeOK
<1>1. SafetyInv => TypeOK
  BY DEF SafetyInv, SdcInv
<1> QED  BY <1>1, SdcInvariant, PTL

(***************************************************************************)
(* The parent never goes on while a worker of its own is alive: whatever a *)
(* worker does, and however it ends, parse has waited for it.              *)
(***************************************************************************)
THEOREM NoOrphan == Spec => []NoWorkerLeftBehind
<1>1. SafetyInv => NoWorkerLeftBehind
  BY DEF SafetyInv, SdcInv, TypeOK, ParentInv, NoWorkerLeftBehind, Alive
<1> QED  BY <1>1, SdcInvariant, PTL

(***************************************************************************)
(* What a broken script recorded before it broke is never taken for the    *)
(* file (parse, "the capture is incomplete.  Discard it").                 *)
(***************************************************************************)
THEOREM WholeCapture == Spec => []CaptureIsWhole
<1>1. SafetyInv => CaptureIsWhole
  BY DEF SafetyInv
<1> QED  BY <1>1, SdcInvariant, PTL

(***************************************************************************)
(* No file is read by the tokenizer in silence when it was not asked for.  *)
(***************************************************************************)
THEOREM FallbackTold == Spec => []FallbackIsSaid
<1>1. SafetyInv => FallbackIsSaid
  BY DEF SafetyInv
<1> QED  BY <1>1, SdcInvariant, PTL

(***************************************************************************)
(* A worker that armed its limits within the margin is never killed: the   *)
(* step that kills an evaluating worker finds the interpreter's own time   *)
(* used up only if the limits were armed late.                             *)
(***************************************************************************)
THEOREM InterpreterFirst == Spec => InterpLimitFirst
<1>1. SafetyInv /\ [Next]_vars =>
          [worker = "evaluating" /\ worker' = "killed" => armed >= Margin]_vars
  <2> SUFFICES ASSUME SafetyInv, Next, worker = "evaluating", worker' = "killed"
               PROVE  armed >= Margin
    OBVIOUS
  <2>1. Kill
    BY DEF Next, Parse, Spawn, ProbeAnswered, Resolve, ReadAnswered, Reap, Tick, Worker, Arm, NoTcl,
           Record, Finish, Fail, LimitExceeded, Crash, Wedge, Finished, vars, Ending
  <2>2. elapsed >= TimeLimit + Margin /\ elapsed <= armed + TimeLimit
    BY <2>1 DEF Kill, Timeout, SafetyInv, SdcInv, ClockInv
  <2> QED  BY <2>2, TimeAssumption DEF SafetyInv, SdcInv, TypeOK, Timeout
<1> QED  BY <1>1, SdcInvariant, PTL DEF Spec, InterpLimitFirst

(***************************************************************************)
(* Every read ends.  What is left of the parses goes down with each step   *)
(* of the parent; between two of them the time to the deadline goes down,  *)
(* or the worker comes nearer to its end.                                  *)
(***************************************************************************)
Place == CASE pc = "probing" -> 3 [] pc = "resolving" -> 2 [] pc = "reading" -> 1 [] OTHER -> 0
Turns == 4 * Cardinality(unparsed) + Place

Life ==
    CASE worker = "starting" -> 4
      [] worker = "evaluating" -> IF records = "none" THEN 3 ELSE 2
      [] worker = "stuck" -> 1
      [] OTHER -> 0
Patience == (Timeout - elapsed) + Life

Nearer == Turns' < Turns \/ (Turns' = Turns /\ Patience' < Patience)

(* A parse that was begun is in progress or has read its file, and the     *)
(* parent waits for nobody but a worker.                                   *)
ReadInv ==
    /\ \A f \in File \ unparsed : f = file \/ reader[f] # "none"
    /\ pc \in {"probing", "reading"} => worker # "none"

LEMMA ReadKept == SafetyInv /\ ReadInv /\ [Next]_vars => ReadInv'
<1> SUFFICES ASSUME SafetyInv, ReadInv, [Next]_vars PROVE ReadInv'
  OBVIOUS
<1> USE DEF ReadInv
<1>1. TypeOK /\ ParentInv /\ AnswerInv  BY DEF SafetyInv, SdcInv
<1>2. ASSUME NEW f \in File, Parse(f) PROVE ReadInv'
  BY <1>1, <1>2, FileAssumption DEF Parse, Spawn, ParentInv, TypeOK
<1>3. CASE ProbeAnswered
  BY <1>3 DEF ProbeAnswered, Reap
<1>4. CASE Resolve
  <2>1. file \in File /\ reader \in [File -> {"none", "whole", "tokenizer"}]
    BY <1>1, <1>4 DEF Resolve, ParentInv, TypeOK
  <2> QED  BY <1>4, <2>1 DEF Resolve, Spawn, ReadByTokenizer
<1>5. CASE ReadAnswered
  <2>1. file \in File /\ reader \in [File -> {"none", "whole", "tokenizer"}]
    BY <1>1, <1>5 DEF ReadAnswered, ParentInv, TypeOK
  <2> QED  BY <1>1, <1>5, <2>1 DEF ReadAnswered, Reap, ReadByTokenizer, AnswerInv
<1>6. CASE Worker \/ Kill \/ Tick
  <2>1. /\ UNCHANGED <<unparsed, file, pc, reader>>
        /\ worker' # "none" \/ worker' = worker
    BY <1>6 DEF Worker, Kill, Tick, Arm, NoTcl, Record, Finish, Fail, LimitExceeded, Crash, Wedge,
                parent
  <2> QED  BY <2>1
<1>7. CASE Finished \/ UNCHANGED vars
  BY <1>7 DEF Finished, vars
<1> QED  BY <1>2, <1>3, <1>4, <1>5, <1>6, <1>7 DEF Next

LEMMA StepNearer ==
    ASSUME IsFiniteSet(File), SafetyInv, Next, vars' # vars
    PROVE  Nearer
<1>1. TypeOK /\ ParentInv  BY DEF SafetyInv, SdcInv
<1>2. Timeout \in Nat /\ Timeout' = Timeout /\ elapsed \in 0..Timeout
  BY <1>1, TimeAssumption DEF TypeOK, Timeout
<1>3. /\ Cardinality(unparsed) \in Nat
      /\ \A f \in unparsed : Cardinality(unparsed \ {f}) = Cardinality(unparsed) - 1
  <2>1. IsFiniteSet(unparsed)  BY <1>1, FS_Subset DEF TypeOK
  <2> QED  BY <2>1, FS_CardinalityType, FS_RemoveElement
<1>4. ASSUME NEW f \in File, Parse(f) PROVE Nearer
  <2>1. f \in unparsed /\ unparsed' = unparsed \ {f} /\ pc = "idle"
        /\ pc' \in {"probing", "resolving"}
    BY <1>4 DEF Parse
  <2>2. Place = 0 /\ Place' \in {2, 3}  BY <2>1 DEF Place
  <2>3. Cardinality(unparsed)' = Cardinality(unparsed) - 1  BY <1>3, <2>1
  <2>4. Turns' < Turns  BY <1>3, <2>2, <2>3 DEF Turns
  <2> QED  BY <2>4 DEF Nearer
<1>5. ASSUME UNCHANGED unparsed, Place \in Nat, Place' \in Nat, Place' < Place PROVE Nearer
  <2>1. Turns' < Turns  BY <1>3, <1>5 DEF Turns
  <2> QED  BY <2>1 DEF Nearer
<1>6. CASE ProbeAnswered
  BY <1>5, <1>6 DEF ProbeAnswered, Place
<1>7. CASE Resolve
  BY <1>5, <1>7 DEF Resolve, Place
<1>8. CASE ReadAnswered
  BY <1>5, <1>8 DEF ReadAnswered, Place
<1>9. CASE Worker \/ Kill \/ Tick
  <2>1. UNCHANGED <<unparsed, pc>>
    BY <1>9 DEF Worker, Kill, Tick, Arm, NoTcl, Record, Finish, Fail, LimitExceeded, Crash, Wedge,
                parent
  <2>2. Turns' = Turns  BY <2>1 DEF Turns, Place
  <2>3. Life \in Nat /\ Life' \in Nat  BY DEF Life
  <2>4. CASE Tick
    <3>1. Life' = Life /\ elapsed' = elapsed + 1  BY <2>4 DEF Tick, Life
    <3>2. Patience' < Patience  BY <1>2, <2>3, <3>1 DEF Patience
    <3> QED  BY <2>2, <3>2 DEF Nearer
  <2>5. CASE Worker \/ Kill
    <3>1. elapsed' = elapsed
      BY <2>5 DEF Worker, Kill, Arm, NoTcl, Record, Finish, Fail, LimitExceeded, Crash, Wedge
    <3>2. Life' < Life
      <4> USE DEF Life
      <4>1. CASE Arm  BY <4>1 DEF Arm
      <4>2. CASE NoTcl  BY <4>2 DEF NoTcl
      <4>3. CASE Record  BY <4>3 DEF Record
      <4>4. CASE Finish  BY <4>4 DEF Finish
      <4>5. CASE Fail  BY <4>5 DEF Fail
      <4>6. CASE LimitExceeded  BY <4>6 DEF LimitExceeded
      <4>7. CASE Crash  BY <4>7 DEF Crash, Alive
      <4>8. CASE Wedge  BY <4>8 DEF Wedge
      <4>9. CASE Kill  BY <4>9 DEF Kill, Alive
      <4> QED  BY <2>5, <4>1, <4>2, <4>3, <4>4, <4>5, <4>6, <4>7, <4>8, <4>9 DEF Worker
    <3>3. Patience = (Timeout - elapsed) + Life /\ Patience' = (Timeout - elapsed) + Life'
      BY <1>2, <3>1 DEF Patience
    <3>4. Timeout - elapsed \in Int  BY <1>2
    <3>5. Patience' < Patience  BY <2>3, <3>2, <3>3, <3>4
    <3> QED  BY <2>2, <3>5 DEF Nearer
  <2> QED  BY <1>9, <2>4, <2>5
<1>10. ~Finished  BY DEF Finished
<1> QED  BY <1>4, <1>6, <1>7, <1>8, <1>9, <1>10 DEF Next

(* What lets one of the fair steps be taken: the parent's own, its timer,  *)
(* the passing of time, the interpreter's limit.  No other is waited for.  *)
Expected ==
    \/ pc = "idle" /\ \E f \in File : f \in unparsed
    \/ pc = "resolving"
    \/ pc \in {"probing", "reading"} /\ worker \in Ending
    \/ Alive /\ elapsed >= Timeout
    \/ /\ Alive /\ elapsed < Timeout
       /\ ~(worker = "evaluating" /\ elapsed >= armed + TimeLimit)
    \/ worker = "evaluating" /\ elapsed >= armed + TimeLimit

(***************************************************************************)
(* However its workers behave, the reader takes boundedly many steps, and  *)
(* as long as a file is unread one of those it can rely on is due: what is *)
(* left is a pair of naturals that every step makes smaller.               *)
(***************************************************************************)
THEOREM ReadsEnd ==
    ASSUME IsFiniteSet(File)
    PROVE  Spec => /\ [](Turns \in Nat /\ Patience \in Nat)
                   /\ [][Nearer]_vars
                   /\ []((\A f \in File : reader[f] # "none") \/ Expected)
<1>1. Init => ReadInv
  BY DEF Init, ReadInv
<1>2. SafetyInv => Turns \in Nat /\ Patience \in Nat
  <2> SUFFICES ASSUME SafetyInv PROVE Turns \in Nat /\ Patience \in Nat
    OBVIOUS
  <2>1. TypeOK  BY DEF SafetyInv, SdcInv
  <2>2. IsFiniteSet(unparsed)  BY <2>1, FS_Subset DEF TypeOK
  <2>3. Cardinality(unparsed) \in Nat  BY <2>2, FS_CardinalityType
  <2>4. Place \in Nat /\ Life \in Nat  BY DEF Place, Life
  <2>5. Timeout \in Nat /\ elapsed \in 0..Timeout  BY <2>1, TimeAssumption DEF TypeOK, Timeout
  <2> QED  BY <2>3, <2>4, <2>5 DEF Turns, Patience
<1>3. SafetyInv /\ [Next]_vars => [Nearer]_vars
  BY StepNearer
<1>4. SafetyInv /\ ReadInv => (\A f \in File : reader[f] # "none") \/ Expected
  <2> SUFFICES ASSUME SafetyInv, ReadInv, NEW f \in File, reader[f] = "none" PROVE Expected
    OBVIOUS
  <2>1. TypeOK /\ ParentInv  BY DEF SafetyInv, SdcInv
  <2>2. CASE pc = "idle"
    <3>1. f \in unparsed  BY <2>1, <2>2, FileAssumption DEF ReadInv, ParentInv
    <3> QED  BY <2>2, <3>1 DEF Expected
  <2>3. CASE pc = "resolving"
    BY <2>3 DEF Expected
  <2>4. CASE pc \in {"probing", "reading"}
    <3>1. Alive \/ worker \in Ending  BY <2>1, <2>4 DEF ReadInv, TypeOK, Alive
    <3>2. Timeout \in Nat /\ elapsed \in 0..Timeout
      BY <2>1, TimeAssumption DEF TypeOK, Timeout
    <3> QED  BY <2>4, <3>1, <3>2 DEF Expected
  <2> QED  BY <2>1, <2>2, <2>3, <2>4 DEF TypeOK
<1> QED  BY <1>1, <1>2, <1>3, <1>4, ReadKept, SdcInit, SdcStep, PTL DEF Spec
=============================================================================
