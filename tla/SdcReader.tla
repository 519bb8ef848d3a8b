----------------------------- MODULE SdcReader -----------------------------
(***************************************************************************)
(* How the text of an SDC file becomes commands: the parent process        *)
(* (sdc.py: parse, _resolve_backend, _probe_tcl, _run_worker, _read_tcl)   *)
(* and the worker it spawns for each request (tcl_worker.py).              *)
(*                                                                         *)
(* The first parse of a process asks a worker with an empty text whether   *)
(* Tcl runs at all; the answer is cached.  A file is then read by Tcl in a *)
(* worker of its own, or by the word tokenizer in the parent.  Everything  *)
(* that goes wrong in a worker ends in the tokenizer.                      *)
(*                                                                         *)
(* Time is counted in ticks since the worker was spawned.  The worker gives *)
(* its interpreter TimeLimit ticks from the moment the limits are armed;   *)
(* the parent waits for TimeLimit + Margin ticks and then kills it.        *)
(***************************************************************************)
EXTENDS Naturals

CONSTANTS
    File,           \* SDC files the process parses
    Behaviour,      \* what evaluating a file does: "fine", "error", "loop"
    TimeLimit,      \* TCL_TIME_LIMIT_SECONDS
    Margin,         \* TCL_WORKER_TIMEOUT_MARGIN_SECONDS
    Probe,          \* the request with an empty text
    Nobody

ASSUME TimeAssumption == TimeLimit \in Nat \ {0} /\ Margin \in Nat \ {0}
ASSUME FileAssumption ==
    /\ {Probe, Nobody} \cap File = {}
    /\ Behaviour \in [File -> {"fine", "error", "loop"}]

VARIABLES
    requested,      \* RB_CDC_SDC_BACKEND: a backend, or "auto"
    tkinter,        \* can the worker import _tkinter
    unparsed,       \* files not parsed yet
    file,           \* the file being parsed
    pc,             \* where the parent is
    tcl_probe,      \* _TCL_PROBE
    warned,         \* the once-per-run latch of sdc.tcl_unavailable
    job,            \* what the worker was asked
    worker,         \* the state of the worker process
    records,        \* commands its interpreter recorded: a part or the whole
    armed,          \* when it armed its limits
    elapsed,        \* ticks since it was spawned
    reader,         \* how each file was read in the end
    partial_warnings

vars == <<requested, tkinter, unparsed, file, pc, tcl_probe, warned,
          job, worker, records, armed, elapsed, reader, partial_warnings>>
parent == <<requested, tkinter, unparsed, file, pc, tcl_probe, warned, reader, partial_warnings>>

(* A wrong variant of Timeout: the worker gets no slack to arm its limits. *)
TimeoutNoMargin == TimeLimit

Timeout == TimeLimit + Margin

Alive == worker \in {"starting", "evaluating", "stuck"}

(* What the parent finds when the worker process has ended. *)
Ending == {"ok", "tcl_error", "resource_limit", "unavailable", "crashed", "killed"}

Init ==
    /\ requested \in {"auto", "tcl", "tokenizer"}
    /\ tkinter \in BOOLEAN
    /\ unparsed = File
    /\ file = Nobody
    /\ pc = "idle"
    /\ tcl_probe = "unknown"
    /\ warned = FALSE
    /\ job = Nobody /\ worker = "none" /\ records = "none"
    /\ armed = 0 /\ elapsed = 0
    /\ reader = [f \in File |-> "none"]
    /\ partial_warnings = {}

------------------------------------------------------------------------------
(* The parent. *)

(* subprocess.run: start the worker and wait for it. *)
Spawn(request) ==
    /\ job' = request /\ worker' = "starting" /\ records' = "none"
    /\ armed' = 0 /\ elapsed' = 0

(* parse: every backend request asks tcl_available first. *)
Parse(f) ==
    /\ pc = "idle" /\ f \in unparsed
    /\ unparsed' = unparsed \ {f}
    /\ file' = f
    /\ IF tcl_probe = "unknown"
       THEN pc' = "probing" /\ Spawn(Probe)
       ELSE pc' = "resolving" /\ UNCHANGED <<job, worker, records, armed, elapsed>>
    /\ UNCHANGED <<requested, tkinter, tcl_probe, warned, reader, partial_warnings>>

Reap == worker' = "none" /\ job' = Nobody /\ UNCHANGED <<records, armed, elapsed>>

(* _probe_tcl: any answer but ok, or none at all, caches "unavailable". *)
ProbeAnswered ==
    /\ pc = "probing" /\ worker \in Ending
    /\ tcl_probe' = IF worker = "ok" THEN "available" ELSE "unavailable"
    /\ pc' = "resolving"
    /\ Reap
    /\ UNCHANGED <<requested, tkinter, unparsed, file, warned, reader, partial_warnings>>

(* A wrong variant of Announce: only a user who asked for Tcl is told. *)
AnnounceToAskers == warned' = (warned \/ (tcl_probe # "available" /\ requested = "tcl"))

(* _warn_tcl_unavailable, once per run. *)
Announce == warned' = (warned \/ tcl_probe # "available")

ReadByTokenizer(f) == reader' = [reader EXCEPT ![f] = "tokenizer"]

(* _resolve_backend, and the tokenizer if that is what it picks. *)
Resolve ==
    /\ pc = "resolving"
    /\ Announce
    /\ IF tcl_probe = "available" /\ requested # "tokenizer"
       THEN /\ pc' = "reading" /\ Spawn(file)
            /\ UNCHANGED <<file, reader>>
       ELSE /\ pc' = "idle" /\ file' = Nobody /\ ReadByTokenizer(file)
            /\ UNCHANGED <<job, worker, records, armed, elapsed>>
    /\ UNCHANGED <<requested, tkinter, unparsed, tcl_probe, partial_warnings>>

(* A wrong variant of ReadAnswered: at the deadline the parent gives up on *)
(* the worker without ending it.                                           *)
ReadAnsweredOrLate ==
    /\ pc = "reading" /\ (worker \in Ending \/ elapsed >= Timeout)
    /\ ReadByTokenizer(file)
    /\ partial_warnings' = partial_warnings \cup {file}
    /\ pc' = "idle" /\ file' = Nobody
    /\ UNCHANGED <<requested, tkinter, unparsed, tcl_probe, warned,
                   job, worker, records, armed, elapsed>>

(* _read_tcl returned commands, or raised and parse reads the file again. *)
ReadAnswered ==
    /\ pc = "reading" /\ worker \in Ending
    /\ IF worker = "ok"
       THEN /\ reader' = [reader EXCEPT ![file] = records]
            /\ UNCHANGED partial_warnings
       ELSE /\ ReadByTokenizer(file)
            /\ partial_warnings' = partial_warnings \cup {file}
    /\ pc' = "idle" /\ file' = Nobody
    /\ Reap
    /\ UNCHANGED <<requested, tkinter, unparsed, tcl_probe, warned>>

(* A wrong variant of Kill: only a worker that evaluates is waited for     *)
(* with a deadline.                                                        *)
KillEvaluating ==
    /\ worker = "evaluating" /\ elapsed >= Timeout
    /\ worker' = "killed"
    /\ UNCHANGED <<parent, job, records, armed, elapsed>>

(* subprocess.run raises TimeoutExpired: it killed the worker and waited   *)
(* for it, and the caller sees a resource limit.                           *)
Kill ==
    /\ Alive /\ elapsed >= Timeout
    /\ worker' = "killed"
    /\ UNCHANGED <<parent, job, records, armed, elapsed>>

Tick ==
    /\ Alive /\ elapsed < Timeout
    /\ ~(worker = "evaluating" /\ elapsed >= armed + TimeLimit)
    /\ elapsed' = elapsed + 1
    /\ UNCHANGED <<parent, job, worker, records, armed>>

------------------------------------------------------------------------------
(* The worker. *)

Files(behaviour) == {f \in File : Behaviour[f] = behaviour}

(* _evaluate: import tkinter, make the interpreter, arm its limits. *)
Arm ==
    /\ worker = "starting" /\ tkinter
    /\ worker' = "evaluating"
    /\ armed' = elapsed
    /\ UNCHANGED <<parent, job, records, elapsed>>

NoTcl ==
    /\ worker = "starting" /\ ~tkinter
    /\ worker' = "unavailable"
    /\ UNCHANGED <<parent, job, records, armed, elapsed>>

(* unknown -> record: a command of the script reached the interpreter. *)
Record ==
    /\ worker = "evaluating" /\ job \in File /\ records = "none"
    /\ records' = "part"
    /\ UNCHANGED <<parent, job, worker, armed, elapsed>>

Finish ==
    /\ worker = "evaluating"
    /\ job \in {Probe} \cup Files("fine")
    /\ worker' = "ok" /\ records' = "whole"
    /\ UNCHANGED <<parent, job, armed, elapsed>>

(* A wrong variant of Fail: what was recorded so far is the answer. *)
FailWithRecords ==
    /\ worker = "evaluating" /\ job \in Files("error")
    /\ worker' = "ok"
    /\ UNCHANGED <<parent, job, records, armed, elapsed>>

(* A Tcl error ends the script: the records are not part of the answer. *)
Fail ==
    /\ worker = "evaluating" /\ job \in Files("error")
    /\ worker' = "tcl_error"
    /\ UNCHANGED <<parent, job, records, armed, elapsed>>

(* interp limit: the time is up, or a loop ran through the command budget. *)
LimitExceeded ==
    /\ worker = "evaluating"
    /\ \/ elapsed >= armed + TimeLimit
       \/ job \in Files("loop")
    /\ worker' = "resource_limit"
    /\ UNCHANGED <<parent, job, records, armed, elapsed>>

(* The process dies, or writes something that is no response. *)
Crash ==
    /\ Alive
    /\ worker' = "crashed"
    /\ UNCHANGED <<parent, job, records, armed, elapsed>>

(* The process wedges where no Tcl limit reaches it. *)
Wedge ==
    /\ worker \in {"starting", "evaluating"}
    /\ worker' = "stuck"
    /\ UNCHANGED <<parent, job, records, armed, elapsed>>

Worker == Arm \/ NoTcl \/ Record \/ Finish \/ Fail \/ LimitExceeded \/ Crash \/ Wedge

Finished == pc = "idle" /\ unparsed = {} /\ UNCHANGED vars

Next ==
    \/ \E f \in File : Parse(f)
    \/ ProbeAnswered \/ Resolve \/ ReadAnswered \/ Kill
    \/ Tick
    \/ Worker
    \/ Finished

(* The parent runs, time passes and an interpreter enforces its limit.     *)
(* Nothing else is expected of a worker.                                   *)
Fairness ==
    /\ WF_vars(\E f \in File : Parse(f))
    /\ WF_vars(ProbeAnswered) /\ WF_vars(Resolve) /\ WF_vars(ReadAnswered)
    /\ WF_vars(Kill) /\ WF_vars(Tick) /\ WF_vars(LimitExceeded)

Spec == Init /\ [][Next]_vars /\ Fairness

------------------------------------------------------------------------------
TypeOK ==
    /\ requested \in {"auto", "tcl", "tokenizer"}
    /\ tkinter \in BOOLEAN
    /\ unparsed \subseteq File
    /\ file \in (File \ unparsed) \cup {Nobody}
    /\ pc \in {"idle", "probing", "resolving", "reading"}
    /\ tcl_probe \in {"unknown", "available", "unavailable"}
    /\ warned \in BOOLEAN
    /\ job \in File \cup {Probe, Nobody}
    /\ worker \in {"none", "starting", "evaluating", "stuck"} \cup Ending
    /\ records \in {"none", "part", "whole"}
    /\ armed \in 0..Timeout /\ elapsed \in 0..Timeout
    /\ reader \in [File -> {"none", "whole", "tokenizer"}]
    /\ partial_warnings \subseteq File

(***************************************************************************)
(* The parent never goes on while a worker of its own is alive, and a      *)
(* worker only ever works for the parse that waits for it.                 *)
(***************************************************************************)
NoWorkerLeftBehind ==
    /\ Alive => pc \in {"probing", "reading"}
    /\ pc = "probing" => job = Probe
    /\ pc = "reading" => job = file

(***************************************************************************)
(* A partial capture is never used: a file is only taken as read by Tcl    *)
(* when a script without an error and without a runaway loop ran to its    *)
(* end ("the capture is incomplete.  Discard it", parse).                  *)
(***************************************************************************)
CaptureIsWhole ==
    \A f \in File :
        reader[f] \notin {"none", "tokenizer"} =>
            reader[f] = "whole" /\ Behaviour[f] = "fine"

(***************************************************************************)
(* Nobody gets the tokenizer's blindness to variables without being told:  *)
(* a file read by it although it was not asked for has a warning of its    *)
(* own, or the run has said that Tcl is unavailable.                       *)
(***************************************************************************)
FallbackIsSaid ==
    \A f \in File :
        reader[f] = "tokenizer" /\ requested # "tokenizer" =>
            f \in partial_warnings \/ warned

(***************************************************************************)
(* The outer deadline is for a wedged worker: one that armed its limits    *)
(* within the margin is never killed, the interpreter's own limit is first *)
(* (TCL_WORKER_TIMEOUT_MARGIN_SECONDS).                                    *)
(***************************************************************************)
InterpLimitFirst ==
    [][worker = "evaluating" /\ worker' = "killed" => armed >= Margin]_vars

(* Every file is read in the end, whatever the workers do. *)
EveryFileIsRead == <>(\A f \in File : reader[f] # "none")
=============================================================================
