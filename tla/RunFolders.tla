----------------------------- MODULE RunFolders -----------------------------
(***************************************************************************)
(* The run folders on disk and the commands that write them: a pipeline,   *)
(* role-time, compare or an import alone, `emit`, `save` into the saved    *)
(* area, and the removal of a folder (delete, clean-work), each a process  *)
(* of its own that may be stopped between any two writes                   *)
(* (boltbeam/workflow/screen.py, common.py, load.py, timing.py, output.py).*)
(* Which command a screen asks for, and when, is RunScreen's; whether the  *)
(* evidence reconciles is RunEvidence's: here results() answers.           *)
(***************************************************************************)
EXTENDS Integers

CONSTANTS Names,      \* run ids
          Cmds,       \* places for commands that are going on at once
          MaxPasses,  \* bound: measurements taken
          MaxStarts   \* bound: commands started

ASSUME BoundsAssumption == MaxPasses \in Nat /\ MaxStarts \in Nat

Dirs == {"work", "saved"} \X Names
Files == {"manifest", "evidence", "report", "results", "record"}
Absent == 0
Torn == -1      \* half written
Blank == -2     \* a report or a results.json of a run without a measurement
Loaded == 1     \* run_manifest.json lists no output stage
Finished == 2   \* it lists one
Content == Nat \cup {Torn, Blank}

VARIABLES
  exists,  \* the folders there are
  disk,    \* their files: for evidence, report and results the measurement they are of
  cmd,     \* what each command is doing
  made,    \* measurements taken
  starts,  \* commands started
  cut,     \* history: folders in which a removal or an emit's writes ended early
  behind,  \* history: folders whose report a command that ended early left behind
  tangled  \* history: names two commands worked on at once

vars == <<exists, disk, cmd, made, starts, cut, behind, tangled>>
history == <<made, starts, cut, behind, tangled>>

Idle == [op |-> "none", at |-> "idle", dir |-> <<>>, left |-> {}, res |-> Absent]
Ops == {"pipeline", "amend", "emit", "save", "remove"}
Places == {"idle", "load", "loading", "measure", "output", "updating", "writing", "report", "replace",
           "remove", "make", "copy", "results", "record"}

Init ==
  /\ exists = {} /\ disk = [d \in Dirs |-> [f \in Files |-> Absent]]
  /\ cmd = [c \in Cmds |-> Idle]
  /\ made = 0 /\ starts = 0 /\ cut = {} /\ behind = {} /\ tangled = {}

is_run(d) == d \in exists /\ disk[d]["manifest"] # Absent
Present(d) == {f \in Files : disk[d][f] # Absent}
Shown(e) == IF e = Absent THEN Blank ELSE e
Source(d) == <<"work", d[2]>>

-----------------------------------------------------------------------------
(* How a command begins, goes on and ends.                                   *)
Begin(c, op, at, d, res) ==
  /\ cmd[c] = Idle /\ starts < MaxStarts
  /\ cmd' = [cmd EXCEPT ![c] = [op |-> op, at |-> at, dir |-> d, left |-> {}, res |-> res]]
  /\ starts' = starts + 1
  /\ tangled' = IF \E b \in Cmds : cmd[b] # Idle /\ cmd[b].dir[2] = d[2]
                THEN tangled \cup {d[2]} ELSE tangled
  /\ UNCHANGED <<exists, disk, made, cut, behind>>

Goto(c, at) == cmd' = [cmd EXCEPT ![c].at = at]
GotoWith(c, at, left) == cmd' = [cmd EXCEPT ![c].at = at, ![c].left = left]
Done(c) == cmd' = [cmd EXCEPT ![c] = Idle]

(* The command has changed what the report tells of, and not the report: it  *)
(* listed the output stage, wrote new evidence beside a manifest that may    *)
(* list it already, or took a file away.                                     *)
OwesReport(c) ==
  \/ cmd[c].at \in {"report", "remove"}
  \/ cmd[c].op = "amend" /\ cmd[c].at = "output"

(* A signal, an error of the disk, or an exception ends a command where it   *)
(* is, and an import ends before `output`. What it wrote stays.              *)
EndsEarly(c) ==
  /\ cmd[c] # Idle /\ Done(c)
  /\ cut' = IF \/ cmd[c].at = "remove"
               \/ cmd[c].op = "emit" /\ cmd[c].at \in {"writing", "report"}
            THEN cut \cup {cmd[c].dir} ELSE cut
  /\ behind' = IF OwesReport(c) THEN behind \cup {cmd[c].dir} ELSE behind
  /\ UNCHANGED <<exists, disk, made, starts, tangled>>

Writes(d, f, v) == disk' = [disk EXCEPT ![d][f] = v]

-----------------------------------------------------------------------------
(* The pipeline. It makes the folder it writes to (run_dir, write_json), and *)
(* the manifest is written over in place: torn until its last byte.          *)
PipelineBegins(c, n) ==
  /\ \A b \in Cmds : cmd[b].op # "pipeline"
  /\ Begin(c, "pipeline", "load", <<"work", n>>, Absent)

LoadWrites(c) ==
  /\ cmd[c].at = "load" /\ Goto(c, "loading")
  /\ exists' = exists \cup {cmd[c].dir} /\ Writes(cmd[c].dir, "manifest", Torn)
  /\ UNCHANGED history

(* Mutant: a run again keeps the stages of the pass before.                  *)
LoadEndsKept(c) ==
  /\ cmd[c].at = "loading" /\ Goto(c, "measure")
  /\ Writes(cmd[c].dir, "manifest", IF disk[cmd[c].dir]["report"] = Absent THEN Loaded ELSE Finished)
  /\ behind' = behind \ {cmd[c].dir}
  /\ UNCHANGED <<exists, made, starts, cut, tangled>>

LoadEnds(c) ==
  /\ cmd[c].at = "loading" /\ Goto(c, "measure")
  /\ Writes(cmd[c].dir, "manifest", Loaded)
  /\ behind' = behind \ {cmd[c].dir}
  /\ UNCHANGED <<exists, made, starts, cut, tangled>>

(* role-time, compare and an import write new evidence into a run that may   *)
(* be finished; all of them read its manifest first.                         *)
AmendBegins(c, n) ==
  is_run(<<"work", n>>) /\ Begin(c, "amend", "measure", <<"work", n>>, Absent)

(* What measures either writes new evidence or, in a pipeline, is refused    *)
(* with the plan's reason. Each reads the manifest, which must be whole.     *)
Measure(c) ==
  /\ cmd[c].at = "measure" /\ disk[cmd[c].dir]["manifest"] \in {Loaded, Finished}
  /\ made < MaxPasses /\ made' = made + 1
  /\ Writes(cmd[c].dir, "evidence", made + 1) /\ Goto(c, "output")
  /\ UNCHANGED <<exists, starts, cut, behind, tangled>>

MeasureRefused(c) ==
  /\ cmd[c].op = "pipeline" /\ cmd[c].at = "measure" /\ disk[cmd[c].dir]["manifest"] \in {Loaded, Finished}
  /\ Goto(c, "output")
  /\ UNCHANGED <<exists, disk, history>>

(* update_manifest of the stages before output: it reads the manifest, tears *)
(* it while it writes over it, and leaves the output stage as it found it.   *)
StageUpdates(c) ==
  /\ cmd[c].op \in {"pipeline", "amend"} /\ cmd[c].at = "output"
  /\ disk[cmd[c].dir]["manifest"] \in {Loaded, Finished}
  /\ cmd' = [cmd EXCEPT ![c].at = "updating", ![c].res = disk[cmd[c].dir]["manifest"]]
  /\ Writes(cmd[c].dir, "manifest", Torn)
  /\ UNCHANGED <<exists, history>>

StageUpdated(c) ==
  /\ cmd[c].at = "updating" /\ Goto(c, "output")
  /\ exists' = exists \cup {cmd[c].dir} /\ Writes(cmd[c].dir, "manifest", cmd[c].res)
  /\ UNCHANGED history

(* output_run: the manifest must be whole, is updated, and report.html is    *)
(* rendered last, from the evidence as it is then.                           *)
OutputUpdates(c) ==
  /\ cmd[c].at = "output" /\ disk[cmd[c].dir]["manifest"] \in {Loaded, Finished}
  /\ Goto(c, "writing") /\ Writes(cmd[c].dir, "manifest", Torn)
  /\ UNCHANGED <<exists, history>>

OutputUpdated(c) ==
  /\ cmd[c].at = "writing" /\ Goto(c, "report")
  /\ exists' = exists \cup {cmd[c].dir} /\ Writes(cmd[c].dir, "manifest", Finished)
  /\ UNCHANGED history

OutputReports(c) ==
  /\ cmd[c].at = "report" /\ cmd[c].dir \in exists
  /\ Writes(cmd[c].dir, "report", Shown(disk[cmd[c].dir]["evidence"]))
  /\ IF cmd[c].op = "save" THEN Goto(c, "results") ELSE Done(c)
  /\ behind' = behind \ {cmd[c].dir}
  /\ UNCHANGED <<exists, made, starts, cut, tangled>>

(* emit writes the gameplan and runs output_run again, in the folder find_run*)
(* comes to first.                                                           *)
EmitBegins(c, n) ==
  \E d \in {e \in Dirs : e[2] = n /\ is_run(e)} :
    /\ d[1] = "saved" => ~is_run(<<"work", n>>)
    /\ Begin(c, "emit", "output", d, Absent)

-----------------------------------------------------------------------------
(* rmtree: the entries found, one by one, then the folder, which must be     *)
(* empty by then.                                                            *)
RemoveBegins(c, d) == is_run(d) /\ Begin(c, "remove", "replace", d, Absent)

RemoveLists(c) ==
  /\ cmd[c].at = "replace"
  /\ IF cmd[c].dir \in exists THEN GotoWith(c, "remove", Present(cmd[c].dir))
     ELSE cmd[c].op = "save" /\ Goto(c, "make")
  /\ UNCHANGED <<exists, disk, history>>

RemoveFile(c, f) ==
  /\ cmd[c].at = "remove" /\ f \in cmd[c].left /\ f \in Present(cmd[c].dir)
  /\ Writes(cmd[c].dir, f, Absent)
  /\ GotoWith(c, "remove", cmd[c].left \ {f})
  /\ UNCHANGED <<exists, history>>

RemoveEnds(c) ==
  /\ cmd[c].at = "remove" /\ cmd[c].left = {}
  /\ cmd[c].dir \in exists /\ Present(cmd[c].dir) = {}
  /\ exists' = exists \ {cmd[c].dir}
  /\ IF cmd[c].op = "save" THEN Goto(c, "make") ELSE Done(c)
  /\ UNCHANGED <<disk, history>>

-----------------------------------------------------------------------------
(* save: results() first, then the old save away, the copy, output_run in    *)
(* the copy, results.json, and the record that lists it.                     *)
SaveBegins(c, n) ==
  /\ is_run(<<"work", n>>) /\ disk[<<"work", n>>]["manifest"] # Torn
  /\ Begin(c, "save", "replace", <<"saved", n>>, Shown(disk[<<"work", n>>]["evidence"]))

(* Mutant: the record is written when the folder is made.                    *)
SaveCopiesListed(c) ==
  /\ cmd[c].at = "make" /\ cmd[c].dir \notin exists
  /\ exists' = exists \cup {cmd[c].dir} /\ Writes(cmd[c].dir, "record", 1)
  /\ GotoWith(c, "copy", Present(Source(cmd[c].dir)))
  /\ cut' = cut \ {cmd[c].dir}
  /\ UNCHANGED <<made, starts, behind, tangled>>

SaveCopies(c) ==
  /\ cmd[c].at = "make" /\ cmd[c].dir \notin exists
  /\ exists' = exists \cup {cmd[c].dir}
  /\ GotoWith(c, "copy", Present(Source(cmd[c].dir)))
  /\ cut' = cut \ {cmd[c].dir}
  /\ UNCHANGED <<disk, made, starts, behind, tangled>>

(* copytree goes on past a file that cannot be copied and raises at its end: *)
(* here it ends early.                                                       *)
CopyFile(c, f) ==
  /\ cmd[c].at = "copy" /\ f \in cmd[c].left
  /\ cmd[c].dir \in exists /\ f \in Present(Source(cmd[c].dir))
  /\ Writes(cmd[c].dir, f, disk[Source(cmd[c].dir)][f])
  /\ GotoWith(c, "copy", cmd[c].left \ {f})
  /\ UNCHANGED <<exists, history>>

(* Mutant: the copy's own report is kept.                                    *)
CopyEndsRaw(c) ==
  /\ cmd[c].at = "copy" /\ cmd[c].left = {} /\ Goto(c, "results")
  /\ UNCHANGED <<exists, disk, history>>

CopyEnds(c) ==
  /\ cmd[c].at = "copy" /\ cmd[c].left = {} /\ Goto(c, "output")
  /\ UNCHANGED <<exists, disk, history>>

SaveResults(c) ==
  /\ cmd[c].at = "results" /\ cmd[c].dir \in exists
  /\ Writes(cmd[c].dir, "results", cmd[c].res) /\ Goto(c, "record")
  /\ UNCHANGED <<exists, history>>

(* Mutant: the command is left at a place that is none.                      *)
SaveRecordsStays(c) ==
  /\ cmd[c].at = "record" /\ cmd[c].dir \in exists
  /\ Writes(cmd[c].dir, "record", 1) /\ Goto(c, "saved")
  /\ UNCHANGED <<exists, history>>

SaveRecords(c) ==
  /\ cmd[c].at = "record" /\ cmd[c].dir \in exists
  /\ Writes(cmd[c].dir, "record", 1) /\ Done(c)
  /\ UNCHANGED <<exists, history>>

-----------------------------------------------------------------------------
Command(c) ==
  \/ \E n \in Names : PipelineBegins(c, n) \/ AmendBegins(c, n) \/ EmitBegins(c, n) \/ SaveBegins(c, n)
  \/ \E d \in Dirs : RemoveBegins(c, d)
  \/ LoadWrites(c) \/ LoadEnds(c) \/ Measure(c) \/ MeasureRefused(c)
  \/ StageUpdates(c) \/ StageUpdated(c) \/ OutputUpdates(c) \/ OutputUpdated(c) \/ OutputReports(c)
  \/ RemoveLists(c) \/ RemoveEnds(c) \/ SaveCopies(c) \/ CopyEnds(c)
  \/ \E f \in Files : RemoveFile(c, f) \/ CopyFile(c, f)
  \/ SaveResults(c) \/ SaveRecords(c) \/ EndsEarly(c)

Next == \E c \in Cmds : Command(c)

Spec == Init /\ [][Next]_vars

-----------------------------------------------------------------------------
TypeOK ==
  /\ exists \subseteq Dirs /\ disk \in [Dirs -> [Files -> Content]]
  /\ cmd \in [Cmds -> [op : Ops \cup {"none"}, at : Places, dir : Dirs \cup {<<>>},
                       left : SUBSET Files, res : Content]]
  /\ made \in Nat /\ starts \in Nat
  /\ cut \subseteq Dirs /\ behind \subseteq Dirs /\ tangled \subseteq Names

Settled(d) == (\A c \in Cmds : cmd[c].dir # d) /\ d \notin cut /\ d[2] \notin tangled
Listed(n) == is_run(<<"saved", n>>) /\ disk[<<"saved", n>>]["record"] # Absent

(* A run the saved list shows holds the evidence it was saved with, and its  *)
(* report and results.json are of that evidence, whatever stopped the save   *)
(* or an earlier one: only a removal or an emit that ended early, or two     *)
(* commands on the run at once, may leave another one on the list.           *)
SaveIsWhole ==
  \A n \in Names :
    LET folder == disk[<<"saved", n>>] IN
    Listed(n) /\ Settled(<<"saved", n>>) =>
      /\ folder["manifest"] = Finished
      /\ folder["results"] = Shown(folder["evidence"])
      /\ folder["report"] = folder["results"]

(* A manifest that lists the output stage stands beside a report of the      *)
(* evidence in the folder: after a run again, a role-time or a compare alone,*)
(* and after a stop in the write of any manifest. What ended early may leave *)
(* the report behind in three ways, and in no other: between the output      *)
(* stage's manifest and its report, with new evidence in a finished run and  *)
(* no output yet, and in the middle of a removal. A folder two commands      *)
(* worked on at once is not spoken of.                                       *)
FinishedReportedOrBehind ==
  \A d \in Dirs :
    /\ disk[d]["manifest"] = Finished /\ (d[1] = "saved" => Listed(d[2]))
    /\ \A c \in Cmds : cmd[c].dir # d
    /\ d \notin behind /\ d[2] \notin tangled
    => disk[d]["report"] = Shown(disk[d]["evidence"])

(* The saved area as its reader sees it; an emit leaves the save what it was.*)
Kept == [n \in Names |->
  LET d == <<"saved", n>> IN
  IF d \notin exists THEN -4
  ELSE IF \/ ~Listed(n) \/ d \in cut \/ n \in tangled
          \/ \E c \in Cmds : cmd[c].dir = d /\ cmd[c].op # "emit" /\ cmd[c].at \notin {"replace"}
       THEN -5
  ELSE disk[d]["results"]]

(* save, emit and remove, stopped anywhere, implement saving in one step.    *)
Saving == INSTANCE SavedRun WITH kept <- Kept, made <- made
Implements == Saving!Spec
=============================================================================
