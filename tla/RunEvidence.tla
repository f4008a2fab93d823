---------------------------- MODULE RunEvidence ----------------------------
(***************************************************************************)
(* The evidence in one run folder across the commands that write it: a     *)
(* pipeline again in the same folder, an imported timing trace, role-time  *)
(* alone, emit, each stopped anywhere (boltbeam/workflow/screen.py,        *)
(* output.py, timing.py, gameplan.py and the collectors they call). A file *)
(* is the number of the command whose measurement it holds, 0 without one; *)
(* one command works on a folder at a time (JobStore, RunFolders).         *)
(***************************************************************************)
EXTENDS Integers

CONSTANTS Engines,     \* measurement providers
          Default,     \* providers.DEFAULT
          Ledgered,    \* those whose capture is kept in decode_capture.json (vLLM)
          Unnamed,     \* those whose timing trace does not declare its engine (tinygrad)
          Clocks,      \* SM clocks that may be requested through BOLTBEAM_TIMING_SM_MHZ
          MaxCommands  \* bound: commands started

ASSUME EvidenceAssumption ==
  /\ Default \in Engines /\ Ledgered \subseteq Engines /\ Unnamed \subseteq Engines
  /\ "none" \notin Engines
  /\ Clocks \subseteq Nat \ {0} /\ MaxCommands \in Nat

NoEngine == "none"
Kinds == {"full", "short", "import", "alone", "emit"}
\* "full" is pipeline --analyze, "short" one that only measures the whole step

VARIABLES
  timing,    \* timing_trace.json: the measurement and the engine it is of
  roles,     \* per engine, its role trace
  status,    \* measure_status.json: state and engine
  witness,   \* measurement_clock.json: clock 0 if there is none, and its two phases
  report,    \* report.html: whether it shows results, and of what
  validation,\* report_validation.json: "none", "passed" or "failed"
  plan,      \* gameplan.json, likewise
  job,       \* the command that is going on
  n,         \* commands started
  last,      \* how the last one ended: "ok", "failed" or "killed"
  flawed,    \* measurements that do not reconcile
  refused,   \* role traces on file whose own check failed: a broken floor, unverified work
  uncaptured,\* history: passes that did not come to replace the role trace
  unsaid,    \* history: passes stopped before their status was written
  alone,     \* history: measurements taken outside measurement_clock
  armOf,     \* history: the pass each phase of the witness is of
  broken     \* history: a kill between the verdict and the report

files == <<timing, roles, status, witness, report, validation, plan>>
history == <<uncaptured, unsaid, alone, armOf, broken>>
vars == <<timing, roles, status, witness, report, validation, plan, job, n, last, flawed, refused,
          uncaptured, unsaid, alone, armOf, broken>>

\* One that shows no numbers. "other": the roles are of another engine than the run's, and named so.
Page(is) == [is |-> is, timing |-> 0, roles |-> 0, other |-> FALSE]
NoClock == [mhz |-> 0, native |-> "none", captured |-> "none"]
Idle == [kind |-> "none", at |-> "idle", by |-> NoEngine, mhz |-> 0]

Init ==
  /\ timing = [of |-> 0, by |-> NoEngine] /\ roles = [e \in Engines |-> 0]
  /\ status = [state |-> "none", by |-> NoEngine] /\ witness = NoClock
  /\ report = Page("none") /\ validation = "none" /\ plan = Page("none")
  /\ job = Idle /\ n = 0 /\ last = "ok" /\ flawed = {} /\ refused = {}
  /\ uncaptured = {} /\ unsaid = {} /\ alone = {} /\ armOf = [native |-> 0, captured |-> 0] /\ broken = FALSE

(* run_provider: the engine, unless the two files that declare one differ.   *)
declared == IF timing.by \in Unnamed THEN NoEngine ELSE timing.by
Differ == status.by # NoEngine /\ declared # NoEngine /\ status.by # declared
run_provider ==
  IF declared # NoEngine THEN declared ELSE IF status.by # NoEngine THEN status.by ELSE Default

(* The token is the step on file if it is of the run's engine: a trace that  *)
(* declares none still has the id of its collector (tie_out.measured_step).  *)
the_token == IF timing.by = run_provider THEN timing.of ELSE 0

(* The roles are the run's engine's, or else those of the first other engine *)
(* that has a trace; which is first in providers.NAMES does not matter here. *)
HaveRoles == {e \in Engines : roles[e] # 0}
shown == IF roles[run_provider] # 0 \/ HaveRoles = {} THEN run_provider ELSE CHOOSE e \in HaveRoles : TRUE

(* What results() reads. A table that breaks a floor is named, its numbers   *)
(* never shown. It raises when the engines differ, when a captured ledger is *)
(* of another engine, without a token or not verified, and when the numbers  *)
(* do not reconcile (report_validation.require).                             *)
LedgerRefuses ==
  \E e \in Ledgered : roles[e] # 0 /\ (run_provider # e \/ the_token = 0 \/ roles[e] \in refused)
Evidence == [is |-> "results", timing |-> the_token,
             roles |-> IF roles[shown] \in refused THEN 0 ELSE roles[shown], other |-> shown # run_provider]
Reconciles == ~Differ /\ ~LedgerRefuses /\ Evidence.timing \notin flawed /\ Evidence.roles \notin flawed

At(place) == job.at = place
Goto(place) == job' = [job EXCEPT !.at = place]
End(how) == job' = Idle /\ last' = how

-----------------------------------------------------------------------------
Begin(kind, by, mhz) ==
  /\ At("idle") /\ n < MaxCommands /\ n' = n + 1
  /\ kind \in {"alone", "emit", "import"} => mhz = 0
  /\ kind = "emit" => by = Default   \* it measures with none
  /\ job' = [kind |-> kind, by |-> by, mhz |-> mhz,
             at |-> CASE kind = "alone" -> "roles" [] kind = "emit" -> "emit"
                      [] kind = "import" -> "import" [] OTHER -> "measure"]
  /\ UNCHANGED <<files, last, flawed, refused, history>>

(* Mutant: the status names the collector where the engine belongs.          *)
PlanRefusedByCollector ==
  /\ At("measure") /\ Goto("output")
  /\ status' = [state |-> "skipped", by |-> "collector"]
  /\ UNCHANGED <<timing, roles, witness, report, validation, plan, n, last, flawed, refused, history>>

(* measure_plan found a reason: the stage only says it was skipped.          *)
PlanRefused ==
  /\ At("measure") /\ Goto("output")
  /\ status' = [state |-> "skipped", by |-> job.by]
  /\ UNCHANGED <<timing, roles, witness, report, validation, plan, n, last, flawed, refused, history>>

(* Mutant: a record of the same clock is kept by the native arm too.         *)
ClockOpensKept(phase) ==
  /\ witness' =
       IF job.mhz = 0 THEN NoClock
       ELSE [(IF witness.mhz # job.mhz THEN [NoClock EXCEPT !.mhz = job.mhz] ELSE witness)
             EXCEPT ![phase] = "open"]

(* measurement_clock on entry: a requested clock opens a phase of the record,*)
(* and the native arm always starts a new record.                            *)
ClockOpens(phase) ==
  /\ witness' =
       IF job.mhz = 0 THEN IF witness.mhz = 0 \/ phase = "native" THEN NoClock
                           ELSE [witness EXCEPT !.native = "none", !.captured = "none"]
       ELSE [(IF witness.mhz # job.mhz \/ phase = "native" THEN [NoClock EXCEPT !.mhz = job.mhz] ELSE witness)
             EXCEPT ![phase] = "open"]

ClockCloses(phase) ==
  IF witness[phase] = "open"
  THEN witness' = [witness EXCEPT ![phase] = "done"] /\ armOf' = [armOf EXCEPT ![phase] = n]
  ELSE UNCHANGED <<witness, armOf>>

(* The measure_timing stage: the collector writes the trace, the guard around*)
(* it the status, and the clock's record is closed last.                     *)
TimingOpens ==
  /\ At("measure") /\ Goto("timing") /\ ClockOpens("native")
  /\ UNCHANGED <<timing, roles, status, report, validation, plan, n, last, flawed, refused, history>>

TimingTaken(sound) ==
  /\ At("timing") /\ Goto("status")
  /\ timing' = [of |-> n, by |-> job.by]
  /\ flawed' = IF sound THEN flawed ELSE flawed \cup {n}
  /\ uncaptured' = uncaptured \cup {n} /\ unsaid' = unsaid \cup {n}
  /\ UNCHANGED <<roles, status, witness, report, validation, plan, n, last, refused, alone, armOf, broken>>

TimingFails ==
  /\ At("timing") /\ End("failed")
  /\ status' = [state |-> "failed", by |-> job.by]
  /\ UNCHANGED <<timing, roles, witness, report, validation, plan, n, flawed, refused, history>>

(* Mutant: the status is labelled with the engine the file had.              *)
TimingSaidKept ==
  /\ At("status") /\ Goto("close")
  /\ status' = [state |-> "measured", by |-> IF status.by = NoEngine THEN job.by ELSE status.by]
  /\ unsaid' = unsaid \ {n}
  /\ UNCHANGED <<timing, roles, witness, report, validation, plan, n, last, flawed, refused, uncaptured, alone, armOf, broken>>

TimingSaid ==
  /\ At("status") /\ Goto("close")
  /\ status' = [state |-> "measured", by |-> job.by]
  /\ unsaid' = unsaid \ {n}
  /\ UNCHANGED <<timing, roles, witness, report, validation, plan, n, last, flawed, refused, uncaptured, alone, armOf, broken>>

TimingEnds ==
  /\ At("close") /\ Goto(IF job.kind = "full" THEN "roles" ELSE "output")
  /\ ClockCloses("native")
  /\ UNCHANGED <<timing, roles, status, report, validation, plan, n, last, flawed, refused, uncaptured, unsaid, alone, broken>>

(* ingest_timing of a trace from elsewhere: no status and no clock.          *)
TimingImported(sound) ==
  /\ At("import") /\ Goto("output")
  /\ timing' = [of |-> n, by |-> job.by]
  /\ flawed' = IF sound THEN flawed ELSE flawed \cup {n}
  /\ uncaptured' = uncaptured \cup {n} /\ alone' = alone \cup {n}
  /\ UNCHANGED <<roles, status, witness, report, validation, plan, n, last, refused, unsaid, armOf, broken>>

-----------------------------------------------------------------------------
(* The per-role capture: as a stage it is witnessed, as the role-time command*)
(* it is not.                                                                *)
RolesOpen ==
  /\ At("roles") /\ Goto("capture")
  /\ IF job.kind = "full" THEN ClockOpens("captured") ELSE UNCHANGED witness
  /\ UNCHANGED <<timing, roles, status, report, validation, plan, n, last, flawed, refused, history>>

(* Refused before anything is captured (the GPU is held, a setting or layout *)
(* is not supported): an earlier trace stays. NotSplitByRole is recorded and *)
(* the pipeline goes on to its report; any other refusal ends the command.   *)
RolesRefused(notSplit) ==
  /\ At("capture") /\ (notSplit => job.by \in Ledgered)
  /\ IF notSplit /\ job.kind = "full" THEN Goto("output") /\ UNCHANGED last ELSE End("failed")
  /\ UNCHANGED <<files, n, flawed, refused, history>>

(* Mutant: the earlier trace stays until there is a new one.                 *)
RolesNotCleared ==
  /\ At("capture") /\ job.by \notin Ledgered /\ Goto("window")
  /\ uncaptured' = uncaptured \ {n}
  /\ UNCHANGED <<files, n, last, flawed, refused, unsaid, alone, armOf, broken>>

(* provider_trace removes the earlier trace before it looks at the window;   *)
(* kernels timed alone and tinygrad's own timing only write over it at the   *)
(* end, and a ledger is only ever added to.                                  *)
RolesCleared ==
  /\ At("capture") /\ job.by \notin Ledgered /\ Goto("window")
  /\ roles' = [roles EXCEPT ![job.by] = 0] /\ uncaptured' = uncaptured \ {n}
  /\ UNCHANGED <<timing, status, witness, report, validation, plan, n, last, flawed, refused, unsaid, alone, armOf, broken>>

RolesKept ==
  /\ At("capture") /\ Goto("window")
  /\ UNCHANGED <<files, n, last, flawed, refused, history>>

(* The trace is written first and its table or its work checked after that:  *)
(* a check that fails ends the command and leaves the trace on file.         *)
RolesTaken(sound) ==
  /\ At("window") /\ Goto("output")
  /\ roles' = [roles EXCEPT ![job.by] = n]
  /\ flawed' = IF sound THEN flawed ELSE flawed \cup {n}
  /\ uncaptured' = uncaptured \ {n}
  /\ IF job.kind = "full" THEN ClockCloses("captured") /\ UNCHANGED alone
     ELSE alone' = alone \cup {n} /\ UNCHANGED <<witness, armOf>>
  /\ UNCHANGED <<timing, status, report, validation, plan, n, last, refused, unsaid, broken>>

RolesTakenBroken ==
  /\ At("window") /\ End("failed")
  /\ roles' = [roles EXCEPT ![job.by] = n] /\ refused' = refused \cup {n}
  /\ uncaptured' = uncaptured \ {n}
  /\ alone' = IF job.kind = "full" THEN alone ELSE alone \cup {n}
  /\ UNCHANGED <<timing, status, witness, report, validation, plan, n, flawed, unsaid, armOf, broken>>

WindowRefused ==
  /\ At("window") /\ End("failed")
  /\ UNCHANGED <<files, n, flawed, refused, history>>

-----------------------------------------------------------------------------
(* Mutant: the plan is written before the evidence is asked.                 *)
EmitUnasked ==
  /\ At("emit") /\ plan' = Evidence
  /\ IF Reconciles THEN Goto("output") /\ UNCHANGED last ELSE End("failed")
  /\ UNCHANGED <<timing, roles, status, witness, report, validation, n, flawed, refused, history>>

(* gameplan.emit: no advice survives a failed one.                           *)
Emit ==
  /\ At("emit")
  /\ IF Reconciles THEN plan' = Evidence /\ Goto("output") /\ UNCHANGED last
                   ELSE plan' = Page("none") /\ End("failed")
  /\ UNCHANGED <<timing, roles, status, witness, report, validation, n, flawed, refused, history>>

(* output_run: first the verdict, then the report, whichever it is.          *)
OutputJudges ==
  /\ At("output") /\ Goto("report")
  /\ validation' = IF Reconciles THEN "passed" ELSE "failed"
  /\ UNCHANGED <<timing, roles, status, witness, report, plan, n, last, flawed, refused, history>>

(* Mutant: evidence that does not reconcile leaves the report as it was.     *)
OutputReportsPassed ==
  /\ At("report")
  /\ IF validation = "passed" THEN report' = Evidence /\ End("ok") ELSE UNCHANGED report /\ End("failed")
  /\ broken' = FALSE
  /\ UNCHANGED <<timing, roles, status, witness, validation, plan, n, flawed, refused, uncaptured, unsaid, alone, armOf>>

OutputReports ==
  /\ At("report")
  /\ IF validation = "passed" THEN report' = Evidence /\ End("ok") ELSE report' = Page("failed") /\ End("failed")
  /\ broken' = FALSE
  /\ UNCHANGED <<timing, roles, status, witness, validation, plan, n, flawed, refused, uncaptured, unsaid, alone, armOf>>

(* A signal, or an exception of a stage that writes none of these files.     *)
Killed ==
  /\ ~At("idle") /\ End("killed")
  /\ broken' = (broken \/ At("report"))
  /\ UNCHANGED <<files, n, flawed, refused, uncaptured, unsaid, alone, armOf>>

Next ==
  \/ \E kind \in Kinds, by \in Engines, mhz \in Clocks \cup {0} : Begin(kind, by, mhz)
  \/ PlanRefused \/ TimingOpens \/ TimingFails \/ TimingSaid \/ TimingEnds
  \/ RolesOpen \/ RolesCleared \/ RolesKept \/ RolesTakenBroken \/ WindowRefused
  \/ \E sound \in BOOLEAN : TimingTaken(sound) \/ TimingImported(sound) \/ RolesTaken(sound)
  \/ \E notSplit \in BOOLEAN : RolesRefused(notSplit)
  \/ Emit \/ OutputJudges \/ OutputReports \/ Killed

Spec == Init /\ [][Next]_vars
-----------------------------------------------------------------------------
Pages == [is : {"none", "failed", "results"}, timing : Nat, roles : Nat, other : BOOLEAN]
Phase == {"none", "open", "done"}
TypeOK ==
  /\ timing \in [of : Nat, by : Engines \cup {NoEngine}] /\ roles \in [Engines -> Nat]
  /\ status \in [state : {"none", "skipped", "failed", "measured"}, by : Engines \cup {NoEngine}]
  /\ witness \in [mhz : Nat, native : Phase, captured : Phase]
  /\ report \in Pages /\ plan \in Pages /\ validation \in {"none", "passed", "failed"}
  /\ job \in [kind : Kinds \cup {"none"}, by : Engines \cup {NoEngine}, mhz : Nat,
              at : {"idle", "measure", "timing", "status", "close", "import", "roles", "capture",
                    "window", "emit", "output", "report"}]
  /\ n \in Nat /\ last \in {"ok", "failed", "killed"}
  /\ flawed \subseteq Nat /\ refused \subseteq Nat /\ uncaptured \subseteq Nat /\ unsaid \subseteq Nat /\ alone \subseteq Nat
  /\ armOf \in [{"native", "captured"} -> Nat] /\ broken \in BOOLEAN

Good == report.is = "results"

(* A command that ended well leaves a report of the evidence on file, and a  *)
(* failed verdict never stands beside a report of results unless a kill came *)
(* between the two writes of output_run.                                     *)
ReportTells ==
  /\ At("idle") /\ last = "ok" /\ n > 0 => validation = "passed" /\ report = Evidence
  /\ validation = "failed" /\ ~At("report") /\ ~broken => ~Good

(* No report and no gameplan is of evidence that does not reconcile.         *)
AdviceIsSound ==
  /\ Good => {report.timing, report.roles} \cap flawed = {}
  /\ plan.is = "results" => {plan.timing, plan.roles} \cap flawed = {}

(* A witness that qualifies the timing scope is of one pass, and the step and*)
(* the roles on file are that pass's, unless they were imported or captured  *)
(* by role-time alone since: measurement_clock does not see those.           *)
WitnessOfArms ==
  witness.mhz # 0 /\ witness.native = "done" /\ witness.captured = "done" =>
    /\ armOf.native = armOf.captured
    /\ \/ timing.of \in alone
       \/ timing.of = armOf.native /\ roles[timing.by] \in {0, armOf.captured} \cup alone

(* A report sets the roles of an earlier pass beside a newer step only if the*)
(* newer pass never came to replace them (it stopped before its own capture, *)
(* captures into a ledger, or failed in a collector that writes at its end), *)
(* or they are another engine's and the page says so.                        *)
OldRolesExplained ==
  Good /\ report.roles \in 1 .. (report.timing - 1) => report.timing \in uncaptured \/ report.other

(* The step and the status are of different engines, which refuses the report*)
(* or drops the step from it, only after an import, a pass of another engine *)
(* that failed or was refused, or a stop between the two writes.             *)
DifferExplained ==
  status.by # NoEngine /\ timing.by # NoEngine /\ status.by # timing.by =>
    timing.of \in alone \cup unsaid \/ status.state # "measured"
=============================================================================
