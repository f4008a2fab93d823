# TLA+ models of BoltBeam

BoltBeam audits the inference time of a language model. A terminal program written in Go (`tui/`) starts pipelines
written in Python (`boltbeam/`), shows how far they are, and opens what they wrote. This folder models the parts of
it where order, timing and failure decide the result. TLC checks the models on small instances, and TLAPS proves
the safety properties for every instance.

The models are taken from the code. A comment above each definition names the code it stands for, and
`PROJECT.json` gives its file and lines.

Run `tlc -config <run>.cfg <module>` for a run of the table below, and `tlapm <module>.tla` for the proofs.

## 1. The system

| part | state | operations | talks to |
|---|---|---|---|
| job store, `tui/internal/jobs` | `<id>.json` with a pid, `<id>.log`, the kernel's process table | Start, Status, Alive, Stop, Tail | forks pipelines; shared by the commands of one TUI, by several TUIs and by `boltbeam-tui --json` |
| Run screen, `tui/internal/ui/model.go` | run, job and list on screen, tick flag, runs of this session | one handler for each message, one command for each read | job store and seam, through commands that answer by message |
| checklist and bar, `ui/steps.go` | `Facts`, the bar and its clock | `advance`, the step states | reads the log through `seam.ReadProgress` |
| seam, `tui/internal/seam` | none | one Python call per question; `NextName`, `ReadProgress`, `Fraction` | `boltbeam screen ...` |
| Setup screen, `model.go` | chip, model, profile, limit, engines, the flags of its spinners | pickers, scans, one handler for each answer | seam |
| pipeline, `boltbeam/workflow/screen.py` | the run folder, `run_manifest.json`, the log it prints | stages in order | stages, collectors |
| run folders, `screen.py`, `common.py`, `load.py`, `timing.py`, `output.py` | the work and the saved folder of each run | load, measure, role-time, compare, import, output, emit, save, delete, clean | one process per command; the screens ask for them |
| evidence of a run, `screen.py`, `output.py`, `gameplan.py`, `timing.py`, `collectors/` | timing trace, role traces, status, verdict, report, gameplan | pipeline, import, role-time, emit | engines and captures |
| isolated stage, `runtime/process_isolated.py` | a forked child, its group, a pipe | `run_isolated` | the callback and what it forks |
| server lifecycle, `adapters/llama_server_control.py` | a server, its group, a port | `serve`, `_running` | an engine's server |
| bounded job, `runtime/bounded_job.py` | a systemd unit | `run`, `stop` | systemd, cgroups |
| clock witness, `collectors/gpu_telemetry.py` | `measurement_clock.json`, the SM clock | `measurement_clock`, `hold` | nvidia-smi |
| ledger and cache, `ledger/`, `cache/` | an append-only file, an index file | add, latest, suppressed; add, status | the search |
| everything else | none that lasts | parsers, formulas, tables, reports | artifacts of a run |

What is hard in it:

* **Interleavings.** Every command of the terminal program runs on its own goroutine. Checks (`Alive`, `Status`)
  and the acts that rely on them (`fork`, `write`, `kill`) are separate steps; several processes share one folder.
* **Order of answers.** The screen reads the world by commands whose answers may arrive late and out of order.
* **Processes.** Children fork helpers, ignore signals, die in the middle of a message, leave zombies, outlive
  their parents; pids are reused; ports are taken by others.
* **Timeouts.** A deadline may pass before the child has a group, while it blocks in a pipe, or just as it answers.
* **Partial knowledge.** The bar is computed from the last 200 lines of a log that several runs may share.
* **Files.** Manifests, ledgers and indexes are rewritten in place; what one page says rests on several files, written
  one after another by several commands, each of which may be refused or stopped halfway.

What makes each part correct:

| part | correct when |
|---|---|
| Setup screen | what stands beside a model and a chip is of them; it waits for nothing that is not coming, but after a failed read; it settles on this machine's chip |
| run folders | a save that is listed is whole; a manifest that says finished has its report, or it is known how it came to be without; saving is one step for its reader |
| evidence | report and gameplan are of evidence on file that reconciles; files of different passes stand together only for a known reason |
| clock witness | its two arms are of one pass |
| bounded job | its unit does not outlive the call unexplained; success means the job itself exited 0 |
| job store | a live job can always be found; one measurement at a time; Stop reaches its own job; a stopped job is seen to end |
| Run screen | it never stops reading a job it shows live; it learns that a job ended; it shows the run that was picked; it deletes nothing of this session that took a name from a list it read |
| bar | the reader agrees with the pipeline; an older run does not leak in; the bar is never ahead, and goes back from full only |
| isolated stage | nothing of the call outlives it; the report is about how the callback ended; the deadline is kept |
| server lifecycle | nothing of a block outlives it unexplained; the cleanup ends; the block talks to its own server |

## 2. Modules

| module | models | extends / instantiates |
|---|---|---|
| `JobStore` | the job store and the commands that call it | |
| `RunScreen` | messages, commands and keys of the Run screen | |
| `RunProgress` | the pipeline's lines, their reader, the bar | |
| `StageOutcome` | what `run_isolated` promises: one report, about the one end of the callback | |
| `IsolatedStage` | `run_isolated`, `_invoke` and `_stop` | instantiates `StageOutcome` |
| `ServerGroup` | `serve`, `_wait_healthy` and `_running` | |
| `SavedRun` | what saving promises the reader of the saved list | |
| `RunFolders` | the commands that write run folders and saves | instantiates `SavedRun` |
| `RunEvidence` | the evidence in one run folder, the clock witness, report and gameplan | |
| `SetupScreen` | messages, commands and keys of the Setup screen | |
| `BoundedJob` | `bounded_job.run`, its signal handler and the system manager | |
| `...Proofs`, for `JobStore`, `RunScreen`, `RunProgress`, `ServerGroup`, `RunFolders`, `RunEvidence`, `SetupScreen` | the theorems | the module of their name |
| `RuntimeProofs` | the theorems about `IsolatedStage` and `BoundedJob`, the two modules of `boltbeam/runtime` | both modules |
| `MC...` | instances for TLC | the module of their name |

**JobStore.** A command of a TUI or an agent (`--json`) is a pair of a process and a slot, and stands at one of
`scan`, `check`, `fork`, `write`, `kill`: the points of `Alive`, `Start` and `Stop` between which another command,
another process or the kernel can act. `AliveLook` is one iteration of `Alive`'s loop; `StartCheck` is Status at the
head of `Start`; `StartFork` and `StartRecord` are the fork and the write of `<id>.json`, with their error paths.
The kernel's side (`Exit`, `Reap`, `StrangerStarts`) has zombies, reparenting to pid 1 and reuse of pids. `Quit` and
`Relaunch` are a TUI that ends and one that comes back. The history variables name what the store cannot know:
which starts raced (`raced`), which live jobs it has therefore lost (`lost`), which jobs a scan must not miss
(`since`).

**RunScreen.** The program's model changes only in `Update`, one message at a time, so a handler is one action
(`RunsMsg`, `RunMsg`, `JobMsg`, `StartedMsg`, `SavedRunMsg`, `DeletedMsg`, `CleanedMsg`, `TickMsg`); a key is one
action (`Press...`); and each command it returns is an element of `asked` that some later action runs, leaving
its answer in `sent` with what was true when it ran. The world changes between (`StageLands`, `JobEnds`). So every
order of reads and of answers is in the model. Identical commands under way are merged, since they read the same
things at the same places. Run folders are numbers, as their names are, and the content of one is how many stages it
holds. A list may fail to be read; the program stores an empty one then, as if there were no folder, and `blind` remembers
the runs whose name was taken without a list. `asked` and `sent` are sets and not queues because the program promises no order between commands.

**RunProgress.** `Pipeline` prints the log as `pipeline` and `_run_stages` do: headers, `start`, `progress`, `done`,
`skipped`, `failed` and its details, `pipeline done`; it may die without a word, and its tools may print between.
`ReadProgress`, `Fraction` and `Advance` are the Go functions of these names: `Readings` is what is known after each line, a recursive function over their
number, and `Reads` the step from one line to the next. `Look` reads the end of the log, `JobMsg` handles it, `TickMsg`
is a second on the screen. Times are natural numbers and shares of the bar are hundredths, both rounded down.

**IsolatedStage.** The parent stands at `join`, `term`, `grace`, `rejoin`, `poll` or `recv`; the child is `born`
until it called `setsid`, and may be `blocked` in `send` on a message larger than the pipe. A callback may fork a
helper into the group, with or without the pipe's write end. The constants `SlowStart` and `HeldPipe` let the two
situations happen that void the deadline, so that a run can also leave them out.

**ServerGroup.** The controller's places are those of `_running`; the server leads a group and may have a worker; an
interrupt may strike between any two steps. `why` records what may leave a process behind.

**RunFolders.** A command is a record in `cmd`: what it does, where it is, its folder, the entries it has still to
copy or remove, and what it read and will write (the results of a save, the manifest of a stage). Each place stands
between two writes, and `EndsEarly` is an end at any of them: a signal, a full disk, an exception. `exists` and `disk`
are the folders and five of their files; the evidence, the report and `results.json` are the number of the measurement
they are of. A manifest is `Torn` from the moment `write_json` opens it, and says `Finished` when it lists the output
stage. `LoadWrites` to `MeasureRefused` are the pipeline; `AmendBegins` is a role-time, compare or import alone, which
then measures as the pipeline does but beside a manifest that may be finished. `StageUpdates` and `StageUpdated` are
`update_manifest` of the stages before output, `OutputUpdates` to `OutputReports` are `output_run`, which `emit` and
`save` call too; `RemoveLists`, `RemoveFile` and `RemoveEnds` are `shutil.rmtree` for delete, clean and the old save;
`SaveBegins` to `SaveRecords` are `save`. At most one pipeline runs, since `startRun` asks `Alive` first; everything else
may run beside it. Three history variables name what the code does not exclude: `cut`, a removal or an emit that ended
inside a folder; `behind`, a command that ended when it owed the folder a report (`OwesReport`); `tangled`, two commands on
one run. A folder leaves `behind` when its report is rendered or a pipeline loads it again.

**SavedRun** is the abstract save: a name holds no save, the save of one measurement, or something in between.
`Kept` maps the saved area to it: a folder is a save when the list shows it and no save or removal is in it.

**RunEvidence.** One folder, one command at a time, so that many commands can follow each other. `job` is the command
and its place; the files carry the number of the command whose measurement they hold. `Differ`, `LedgerRefuses` and
`Reconciles` are the refusals of `results`: whether numbers reconcile is chosen when they are measured (`flawed`).
`declared`, `run_provider` and `shown` are the engine the run is said to be of and the engine whose roles are shown: the
run's, or another one's that has an older table, and the page says so (`report.other`). tinygrad's trace declares no
engine (`Unnamed`). `RolesTakenBroken` is a capture written and then refused by its own check, `RolesKept` one that is
refused before the older trace is removed. `ClockOpens` and `ClockCloses` are `measurement_clock`. The history variables say which passes never came to their
capture (`uncaptured`), were stopped before their status (`unsaid`) or went round `measurement_clock` (`alone`), and
whether a kill came between verdict and report (`broken`).

**SetupScreen.** The model of the program again changes one message at a time. `under` holds the commands whose
answer is not handled yet. A profile and a limit are functions of what was asked, so these commands carry the
question only; the chip list, the detected chip and the engines change with an autoscan or a scan, so those commands
read in a step of their own (`Reads`), and may fail. A failed read of the engines leaves none, as the code stores nil, and
`missed` remembers it. `RunMsg` is `followMeasured`: a limit asked for again when a run measured another speed, once
per speed (`Figures`). `ChipChanged` is the helper that most handlers end in. `last` and `late` record
which answer was overtaken, as the program itself cannot tell.

**BoundedJob.** `pc` is where `run` stands; `Terminate` is the SIGTERM handler, at every place where it is installed,
`Dies` is the signal without it, and `Interrupt` is Ctrl-C, an exception wherever it strikes. A stop works or fails
(`StopWorks`, `StopFails`): `stop()` does not look at what `systemctl` or `sudo -n` answered. `left` remembers why a unit
may run on. `systemd-run` and the unit are modelled by what `run` relies on. Samples are one
action each: nothing to read, no pressure, pressure, or a failed read.

## 3. Runs

| run | shows | bounds |
|---|---|---|
| `jobs_two_callers` | `Tracked`: a live job is on file, about to be, or lost in one of two named ways. `ScanSeesEveryJobOnFile`: a Run press forks only after every job on file when it looked has ended or was lost | one TUI, one agent, a slot each, 2 ids, 2 pids (symmetric) |
| `jobs_liveness` | `StoppedJobIsSeenToEnd`: a stopped job is at last not alive | as above with 1 id |
| `screen_polling` | `LiveIsPolled`, `ChainsPerStart`, `SessionRunsKept`, and that the end of a job is seen, `EndIsSeen` | 2 folders, 1 live from an earlier session and saved, 1 start; any list may fail; keys and ticks come while at most 1 command or message is under way |
| `progress_reader` | `ReaderAgrees`, `OutcomeAgrees` for every end of the log | 2 runs in a log, 1 setup and 2 counted stages, 1 other line, 2 details, a window of 7 lines |
| `progress_bar` | `BarNotAhead`, and `BarNearlyNeverBack`: the bar goes back from full to 99 only, when an overtaken read is handled last | 1 run of up to 2 stages, none of them setup, a window of 6 lines, 2 units of time (longer than the shortest step), two reads under way |
| `stage_safety` | `ChildEndsFirst`, `Implements` (refinement of `StageOutcome`), `HardDeadline` | complete; no bound |
| `stage_timeout_means_slow` (violation) | a stage that was done in time is reported as one that exceeded its time | complete, without slow starts and held pipes |
| `server_cleanup` | `SurvivorsExplained`, `CleanupEnds` | 2 servers in a row |
| `folders_saves` | `SaveIsWhole`: a save that is listed holds one evidence, and results and report of it. `FinishedReportedOrBehind`: a manifest that lists the output stage stands beside a report of the evidence, but after three named early ends. `Implements`: refinement of `SavedRun` | 1 name with both its folders, 2 commands at once (symmetric), 2 measurements, 4 commands |
| `evidence_flow` | `ReportTells`, `AdviceIsSound`: report and gameplan are of the evidence on file and sound. `WitnessOfArms`: a complete witness is of one pass. `OldRolesExplained`, `DifferExplained`: roles of another pass, and two engine names, have a named reason | 3 engines, one with a ledger and one whose trace names none, 2 clocks or none, 3 commands |
| `setup_answers` | `ProfileOfThePath`, `LimitOfTheScreen`, `EnginesOfTheChip`: what is shown is of the model and chip on screen unless an older question was answered last. `SettlesOnThisMachine`. `BusyIsUnderWay`: a spinner turns only for an answer under way, or after a failed read of the engines or the chips | a readable and an unreadable model, 2 chips of which one is new, 2 keys, 2 failing reads, 2 measured speeds; keys come while at most 1 command is under way |
| `bounded_job` | `NoUnitLeft`, `CompletedMeansExited` | 2 samples under pressure stop the job, 2 signals (SIGTERM or Ctrl-C) |

Each passing run checks a type invariant too, except `jobs_liveness` and `progress_reader`, whose modules have it
checked in the other run.

Why the bounds are enough. *JobStore*: a race of the store needs two commands, one id and one pid; a scan that must
skip a job needs a second id; reuse needs one pid to serve two owners, and two pids let a job and a stranger live at
once. The invariants are proved for all constants. *RunScreen*: an answer about the wrong run needs two folders; the
new folder is the second. `MaxFlying` bounds only when a tick or a key may come, not how many answers a handler
causes: up to five commands and messages are under way. A second start is covered by the theorems, which have no
bounds. *RunProgress*: a window of 6 or 7 cuts the head of the log off at every possible line of a run of 3 stages,
as 200 does in a long run. The bar's run has no setup stage and fewer stages, because it has two reads under way, which
is what lets them change places; what setup stages and longer runs do to the bar is left to its theorems, which bound neither
stages nor reads; two runs share a log in `progress_reader`; the theorems have no bounds. *ServerGroup*: the second server may meet
what the first one left. *RunFolders*: names do not share folders, so one is enough; two commands make every tangle,
and four starts leave room for a run, its save, a second run or a role-time, and a second save over the first, each
stopped anywhere.
*RunEvidence*: a file of an earlier pass beside a newer one needs two commands, a third reads both; the third engine lets
one table be another engine's beside a run of a third kind of trace; the second clock
lets a witness be of another one. *SetupScreen*: two keys pick a model and a chip, or scan, in any order while
boot is still answering; two failures lose any two of the reads; an overtaken answer needs two questions of a kind.
*BoundedJob*: the second signal meets the first one's handling. The theorems of these four modules hold without the bounds.

`CHECK_DEADLOCK FALSE` stands where the system may really stop: the call has returned, the last block is over, the
screen has nothing under way and no key is pressed, the last run is over, the last command the bound allows is over
or waits for a manifest that will not become whole, `run` is over.

**Fairness.** `JobStore`: the goroutine in `cmd.Wait()` is scheduled, and a process sent SIGTERM ends (the pipeline
installs no handler that ignores it); nothing is assumed of commands or of jobs that were not stopped. `RunScreen`:
a job's read and its answer come, and the other commands and
messages do not stop as a whole. The seam's calls have no timeout of their own, so that a
Python call ends is an assumption. The strong fairness of `TickMsg` is due to the bound on when ticks are taken; the
timer waits for nobody. Keys, stages and jobs are not assumed to do anything. `IsolatedStage`: parent, `setsid`,
SIGKILL and time; the callback and its helpers may never end. `ServerGroup`: the controller's own steps, all of
which have a timeout; the server promises nothing. `RunFolders`, `RunEvidence`, `SetupScreen` and `BoundedJob` state safety
only and assume no fairness: any command may stop for ever at any place. `BusyIsUnderWay` and `NoUnitLeft` say the
part of "it ends" that safety can: nothing waits for an answer nobody owes, and nothing runs on after the end.

## 4. What the models found

One run is a violation:

* `TimeoutMeansSlow`: the parent joins the child before it reads the pipe, so a result that does not fit the pipe
  always ends in "stage exceeded".

Met while modelling and left without a run of their own. Where a property would forbid it, the property names the
situation instead, and the name is in brackets.

*Job store.* jobs.go:106 and model.go:443 want one measurement on the GPU; look and fork are separate steps, and
`--json start` does not look. Stop may signal a stranger that reused the pid in an old job file.

*Run screen.* `runMsg` does not say what it was asked for, so a late answer about the run followed before puts it back
over the run just started, and nothing corrects it. Clean (model.go:532) promises never to delete a live run; a run that an
earlier session left running, is not on screen and has written no stage in this session is deleted. A list of runs that
cannot be read counts as an empty one (seam.go:222-229, model.go:736-743), so the next run is named 001 again, measures
into the folder of an earlier session, and a Clean pressed before it is known removes it, against model.go:532 "never one
of this session" and the docstring of `clean_work` (`SessionRunsKept`, `blind`). Two answers about one
run folder in the wrong order leave the older content on screen. steps.go:73 says of
the bar that "it never goes back while one job runs"; a tick reads the log again each second whether or not the last
read has answered (model.go:891-895), and two reads that change places let a full bar go back to 99
(`BarNearlyNeverBack`). A run may be started in a folder the cached list does not show yet.

*Servers and stages.* The port is free when asked for and not reserved, and any program's answer on `/health` counts.
A worker whose leader died by itself gets no signal (`SurvivorsExplained`). The deadline of a stage is void in two cases
(`HardDeadline`).

*Run folders.* `output_run` lists the output stage (output.py:239) before it renders the report (:245): a stop between
the two leaves a finished manifest beside the report of an earlier pass, or none. role-time and compare write their evidence
into a finished folder before they render its report, and an import (timing.py) renders none: until the next output
the report is of the evidence before (`behind`, as is a removal that was cut short). Save pressed twice starts two `save`
processes on one destination (`tangled`), and `update_manifest` takes no lock, so nothing holds of a folder two commands
work on. A folder with a torn manifest and a save record makes `saved` raise, so that no saved run is listed (`cut`). After
Clean a new run may take the name of a saved one, and the screen then shows it as saved.

*Evidence.* A killed pass, a failed pass of another engine, or an import leaves two engine names that differ. If the trace
declares its engine, every report is refused until a pass of one engine completes; tinygrad's declares none, and its step is
dropped from the report without a word (`DifferExplained`). vLLM's `decode_capture.json` is never removed, so it
blocks the reports of every other engine in that folder (`LedgerRefuses`). A gameplan of an earlier pass is still linked from
a newer report. A pass refused before its capture leaves the older roles in the report, and one whose engine has no roles on file shows
another engine's older table, named as such (`OldRolesExplained`).
`measure_status.json` may keep "not split by role" after a later role-time succeeded. A witness does not see imports and
`role-time` alone (`WitnessOfArms`).

*Setup screen.* A read of the engines that fails leaves nil (model.go:193, 779): "looking for engines..." then turns with
nothing under way, and `[ Scan again ]`, a row below the engines, is gone until the chip changes (steps.go:263, 519). A
chip list that fails leaves "reading the chip list..." (steps.go:946; `missed` and an empty list in `BusyIsUnderWay`).
Overtaken answers about a profile, a limit or the engines stay on screen (`late`), and the path
remembered for the next session is then the one on screen although the profile read was another model's. At boot a limit
may be asked for while no chip is known. The limit's "this machine" flag is not corrected when the detection arrives
after a chip given by flag or picked by hand (`LimitOfTheScreen`). A chip picked by hand is replaced when an autoscan
re-reads the list.

*Bounded job.* A cancel in the first moments stops a unit that does not exist yet, which may then run up to its
`RuntimeMaxSec` (`left = "early"`). Line 151 says of the finally block "Covers Ctrl-C": it does not between lines 90
and 91, nor in the block itself before its stop (`"interrupted"`). `stop()` does not notice that it failed, as `sudo -n`
may after a long job (`"failed"`). When
`systemd-run` dies first, the reason of the failure may read "success".

## 5. Proofs

All for every value of the constants, under the named assumptions of the modules (`ConstantsAssumption`,
`RunScreenAssumption`, `SwitchesAssumption`, `BlocksAssumption`, `BoundsAssumption`, `EvidenceAssumption`, `SetupScreenAssumption`,
`BoundedJobAssumption`, `RunProgressAssumption`), which say no more than that bounds are naturals and sentinels are
distinct; `SetupScreenAssumption` adds that this machine's chip is listed once it has a profile, and `RunProgressAssumption`
that every expected time is positive (a step that took less than the log's hundredth of a second is not modelled) and that the window holds what a failure prints in one go (the code prints at
most 40 lines behind a failure and reads 200; a failure longer than the window would push its own first line out).

* **JobStoreTyped, JobsAreTracked.** `Tracked` alone is not inductive: a starter between fork and write must still
  hold its own child when it writes. `IInv` adds that such a window holds an unreaped child of its own process
  (`WindowsHold`, true because nobody waits for it before the write), that two windows differ, that a free pid has
  no owner, and that a start no other start raced overwrites no live job (`CheckStands`: the Status check said so
  and only another write of the same file can make it false). One lemma per group of actions; `Quit` and `Exit` are
  the hard ones, as they move the job between parents and free its pid.
* **RunsWaitForJobsOnFile.** `ScanInv` says what a scan still has to look at covers what it must not miss, or that
  job is lost; `AliveLook` may pass a file only when the job in it is over.
* **RunScreenTyped, LiveJobsArePolled, TicksDoNotMultiply.** `TickInv` couples the flag with the count: with the
  flag set there is at least one chain and at most one per start and one more; with it cleared at most one per start,
  because the tick that cleared it was a chain.
* **CleanKeepsTheSession.** Clean takes only folders older than the session. `NameInv`: every list that was read, on
  screen or under way, names all old folders (no list predates the session, and old folders are only removed), so a
  `NextName` taken from one is never an old name, and no run of the session but the `blind` ones is old.
* **StageImplementsOutcome, ChildNeverOutlivesTheCall.** `ParentKnows` (past the join the child has ended; in `_stop`
  the deadline has passed) and `ChildTells` (how far the child is says how the callback ended and what is in the
  pipe) make each step of `IsolatedStage` a step of `StageOutcome` or a stutter, under the identity mapping.
* **StageTyped.** The type invariant is inductive with what the parent knows.
* **ServerGroupTyped, SurvivorsAreExplained.** For any number of servers in a row. `NotStarted`: a block ahead has no
  process, a group is signalled only by its own cleanup. `EndsTold`: a leader that ended unsignalled, and a passed
  deadline, left a reason; at `drain` the leader is gone. Together they give the cleanup's way out its explanation.

* **FoldersTyped, SavedRunsAreWhole, FinishedRunsAreReported.** A folder holds what it promises only between commands,
  so `Holds` (a save is whole) and `Reported` (a finished manifest has its report) are claimed of folders no command removes,
  rewrites or owes a report, unless one left them `cut` or `behind`, and `Written` says for each place of a command what
  its folder holds by then: the source a save copies is the evidence its results were read from, no record stands in a
  copy before the last write, a report follows a whole manifest. All of it is void for a name on which two commands
  worked at once, which `Apart` shows to be on record. `Evident` says only saves hold records. `Local` frames each
  step to one folder; one lemma per action.
* **SavingImplementsSavedRun.** `KeptAt` is the mapping for one name, and `Move` the steps `SavedRun` allows it. A save
  becomes trusted at its last write only, and a trusted one is left as it is by emits (`Distrusting`, `OneName`,
  `OtherNames`); one lemma per action shows its step is one of `SavedRun` or a stutter.
* **EvidenceTyped, ReportIsOfTheEvidence, NoAdviceOnFlawedEvidence, WitnessIsOfOnePass, OldRolesAreExplained,
  DifferIsExplained.** `Stages` says which command is where and whose step is on file by then; `Numbers` that no page
  holds a measurement of the command under way, so one that turns out flawed is in no page; `Verdict` that a passed
  verdict still holds when the report is written; `Arms` that a pass opens its phases anew and the captured one closes
  only after the native one of the same pass; `OldRoles` that what the report shall say of old roles holds of the files.
* **SetupTyped, NeverWaitsForNothing, ProfileIsOfThePath, LimitIsOfTheScreen, EnginesAreOfTheChip, SettlesOnItsMachine.**
  Each property speaks of a screen with nothing under way; the invariant says for every state that the last question
  asked is about the screen as it is, and that either it is still under way, or an older answer came last, or what is
  shown answers it. `ChipChangedKeeps` does this once for the helper most handlers end in; `EnginesInv` leaves the
  question to the end of a scan while one is on.
* **BoundedTyped, NoUnitIsLeft, CompletedJobExited.** `UnitIsStopped`: past the last stop a unit that runs on was
  still to come when that stop was asked. Every other way out of `run` goes through a stop that worked, or `left` tells why not. `ClientTells` and `CallerKnows`: exit code 0 of systemd-run is of a unit that
  is over and did not fail, and the judgement has seen the log if its main process was killed.

* **TypeCorrect, ReaderIsRight, OutcomeIsRight, LogIsRead.** What the reader makes of a log follows from its lines one by
  one, and the window cuts lines off while the pipeline adds some. So the invariant speaks of the lines of the current job
  (`Cur`): `OutcomeInv` says which of them tell an outcome, and that the stages said to be done come in order;
  `HeadInv` that, while they begin with the pipeline's head, reading them gives the pipeline's own counts
  (`Agrees`). Induction over the lines is out of the provers' reach as a schema, so `UpTo` proves it by the least line at
  which a fact fails; with it, `FailedRead`, `FinishedRead`, `TotalRead` and `DoneRead` say of any lines when a reading has
  failed, finished, its number of steps or a step done. `CurrentGrows` says what an appended line does to the lines of the
  current job when the head is cut off, when it is not, and when a new run begins; then one lemma per action of the pipeline.
* **BarIsNotAhead.** A read is handled when the pipeline is already further. `NotAhead` says of each reading, under way
  or on screen, that it is finished only if the pipeline is, and that the steps it counts have begun and weigh what the
  plan's do (unless it shows the setup share or nothing). The pipeline's next steps keep this true (`NotAheadStays`),
  because what may be shown only grows (`MayShowGrows`, on `SumsGrow` and `DivideInOrder`), and `WeightBound` bounds the
  running step by its weight. `BarInv` adds that the bar belongs to the job on screen.
* **BarGoesBackFromFullOnly.** For any number of reads under way. `Advance` keeps the greater share except when the greater
  one was full, which a reading that does not say "pipeline done" caps to almost full (`BarMoves`); `FullInv` says that
  behind a full bar stands a finished reading.

Only model-checked: liveness (`StoppedJobIsSeenToEnd`, `EndIsSeen`, `HardDeadline`, `CleanupEnds`), which the provers
do not reach, and the violation. Every safety property that a passing run checks is stated by a theorem.

## 6. Not modelled

* The compare job and its screens: the key that starts it is not offered by the checklist. Deleting unsaved runs one
  by one is not offered either.
* In `RunScreen`: the pickers, reads of a run that fail, and the keys that save and emit (what these do to the folders is in
  `RunFolders`; the Setup screen's facts are in `SetupScreen`). `[ Run ]` is offered once the
  list of runs was read. The saved list is taken as current.
* In `JobStore`: processes of a job that outlive its leader (the store knows only the leader's pid).
* In `RunProgress`: the text of a failure, expected times of 0, the estimate mark, `Over`; parts of a stage only grow.
* In `RunFolders`: the files that only tell (summary, rollback, machine facts), what each stage computes, `runner-plan`, which only adds its stage to the manifest, the cleaning of
  several folders in one command (each is a removal of its own), and writes of one file that are torn other than the
  manifest's: a stop there is a stop before the next file, and the folder is marked by `cut` where it matters.
* In `RunEvidence`: search, tie-out, repeat bands, batches and layouts; the workloads other than decode; a second command
  on the same folder at the same time (that is `RunFolders`).
* In `SetupScreen`: the engine picked among those found, the limits on other chips, workload, measurement, batch, files.
* In `BoundedJob`: SIGKILL of the program, which no handler sees; the numbers of the samples.
* `hold` of `gpu_telemetry.py`: the locked clock is the driver's state and the code never reads it back.
* The ledger and the cache index: one file each, written by one command at a time; what they answer is a function of
  their content.
* Rendering, formulas, parsers, candidates and their ranking, kernel analysis, reports and recorded data: functions
  without an order of events, most of them over floating-point numbers, or I/O. They are nearly all of the code by
  lines, which is why the models stand for a small share of it.

## 7. Plan

Done: all modules of section 2, and proofs of all their safety properties. What may follow, in this order:

1. The compositions: `RunScreen` with `RunFolders` (what Clean, Delete and Save pressed on a stale list do to the folders),
   and `RunFolders` with `RunEvidence` (two commands on the evidence of one folder).
2. The ledger: append, latest entry and suppression, as a refinement of a set of suppressed candidates.
3. The pure rules with edges (`provider_plan`, step bands, tie-out tolerances) as operators against a reference definition.
