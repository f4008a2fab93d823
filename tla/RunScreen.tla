------------------------------ MODULE RunScreen ------------------------------
(* The Run screen of the terminal program: tui/internal/ui/model.go.           *)
(*                                                                             *)
(* The program's model is touched by one goroutine, which handles one message  *)
(* at a time; every read of the world (the runs folder, a run folder, a job)   *)
(* is a command on a goroutine of its own, whose answer comes back as a        *)
(* message. Commands run, and their answers arrive, in any order: a command in *)
(* asked has not read anything yet, a message in sent holds what was true when *)
(* its command ran. Run folders are numbered as their names are (<stem>-001,   *)
(* ...), and the content of a folder is the number of stages written to it.    *)
EXTENDS Naturals, FiniteSets, Sequences

CONSTANTS
  NumRuns,    \* folder names considered
  Last,       \* stages a run writes
  Old,        \* run folders in the work area when the session begins
  Going,      \* those of them whose job an earlier session left running
  SavedRuns,  \* runs in the saved-runs folder when the session begins
  MaxStarts,  \* bound: runs started in the session
  MaxFlying   \* bound: commands and messages under way when a tick or a key comes

NoRun == 0
Ids == 1 .. NumRuns
Shown == Ids \union {NoRun}

ASSUME RunScreenAssumption ==
  /\ NumRuns \in Nat \ {0} /\ Last \in Nat \ {0}
  /\ MaxStarts \in Nat /\ MaxFlying \in Nat
  /\ Old \subseteq Ids /\ Going \subseteq Old /\ SavedRuns \subseteq Ids

VARIABLES
  disk,     \* stages written to each run folder of the work area; 0: no folder
  job,      \* the job of each run: "none", "alive" or "over"
  old,      \* folders whose manifest was last written before the session
  saved,    \* runs in the saved-runs folder
  runs,     \* the cached list of runs; NotRead before the first answer and after a read that failed
  run,      \* the run on screen
  readOnly, \* the run on screen was opened from the saved runs
  runSet,   \* a run was picked; the screen no longer follows the newest one
  shownJob, \* the job on screen
  ticking,  \* a tick is believed to be pending
  ticks,    \* ticks pending
  session,  \* the runs started, in order
  blind,    \* history: those of them whose name was taken without a list that was read
  asked,    \* commands not run yet
  sent      \* messages not handled yet

world == <<disk, job, old, saved>>
tui == <<runs, run, readOnly, runSet, shownJob, ticking, ticks, session, blind>>
vars == <<world, tui, asked, sent>>

\* a List that failed answers an empty list beside its error; the screen treats that list and none alike
NotRead == <<>>
Lists == {NotRead} \union [ids : SUBSET Ids]
NoJob == [id |-> NoRun, alive |-> FALSE]

Commands ==
       [do : {"runs"}]
  \union [do : {"run", "job"}, id : Shown]
  \union [do : {"start"}, id : Ids, blind : BOOLEAN]
  \union [do : {"opensaved", "deletesaved"}, id : Ids]
  \union [do : {"clean"}, keep : SUBSET Ids]

Messages ==
       [msg : {"runs"}, list : Lists]
  \union [msg : {"run"}, id : Shown, found : BOOLEAN]
  \union [msg : {"job"}, id : Ids, status : {"none", "alive", "over"}]
  \union [msg : {"job"}, id : {NoRun}, status : {"none"}]
  \union [msg : {"started"}, id : Ids, blind : BOOLEAN]
  \union [msg : {"savedRun", "deleted"}, id : Ids]
  \union [msg : {"cleaned"}]

TypeOK ==
  /\ disk \in [Ids -> 0 .. Last] /\ job \in [Ids -> {"none", "alive", "over"}]
  /\ old \subseteq Ids /\ saved \subseteq Ids
  /\ runs \in Lists
  /\ run \in Shown
  /\ readOnly \in BOOLEAN /\ runSet \in BOOLEAN /\ ticking \in BOOLEAN
  /\ shownJob \in [id : Ids, alive : BOOLEAN] \union {NoJob}
  /\ ticks \in Nat /\ session \in Seq(Ids) /\ blind \subseteq Ids
  /\ asked \subseteq Commands /\ sent \subseteq Messages

Init ==
  /\ disk \in {d \in [Ids -> 0 .. Last] : \A i \in Ids : d[i] > 0 <=> i \in Old}
  /\ job = [i \in Ids |-> IF i \in Going THEN "alive" ELSE IF i \in Old THEN "over" ELSE "none"]
  /\ old = Old /\ saved = SavedRuns
  /\ runs = NotRead /\ run = NoRun
  /\ readOnly = FALSE /\ runSet = FALSE /\ shownJob = NoJob
  /\ ticking = FALSE /\ ticks = 0 /\ session = <<>> /\ blind = {}
  /\ asked = {[do |-> "runs"]} /\ sent = {}

-----------------------------------------------------------------------------
(* The world: pipelines write stages and end. *)

\* a pipeline whose name is taken writes over the folder that is there
StageLands(i) ==
  /\ job[i] = "alive" /\ (disk[i] < Last \/ i \in old)
  /\ disk' = [disk EXCEPT ![i] = IF @ < Last THEN @ + 1 ELSE @]
  /\ old' = old \ {i}
  /\ UNCHANGED <<job, saved, tui, asked, sent>>

JobEnds(i) ==
  /\ job[i] = "alive"
  /\ job' = [job EXCEPT ![i] = "over"]
  /\ UNCHANGED <<disk, old, saved, tui, asked, sent>>

-----------------------------------------------------------------------------
(* Commands: what each goroutine reads or does, and the message it sends. *)

Answers(c, ms) == asked' = asked \ {c} /\ sent' = sent \union ms

\* the screens look a run up in the work area only
Show(i) == i \in Ids /\ disk[i] > 0

Status(i) == IF i \in Ids THEN job[i] ELSE "none"

ReadRuns(ok) ==
  LET c == [do |-> "runs"] IN
  /\ c \in asked
  /\ Answers(c, {[msg |-> "runs", list |-> IF ok THEN [ids |-> {i \in Ids : disk[i] > 0}] ELSE NotRead]})
  /\ UNCHANGED <<world, tui>>

ReadRun(i) ==
  LET c == [do |-> "run", id |-> i] IN
  /\ c \in asked
  /\ Answers(c, {[msg |-> "run", id |-> i, found |-> Show(i)]})
  /\ UNCHANGED <<world, tui>>

ReadJob(i) ==
  LET c == [do |-> "job", id |-> i] IN
  /\ c \in asked
  /\ Answers(c, {[msg |-> "job", id |-> i, status |-> Status(i)]})
  /\ UNCHANGED <<world, tui>>

\* a live job refuses the start, with a note only
StartCommand(i, unread) ==
  LET c == [do |-> "start", id |-> i, blind |-> unread] IN
  /\ c \in asked
  /\ IF \E k \in Ids : job[k] = "alive"
     THEN job' = job /\ Answers(c, {})
     ELSE job' = [job EXCEPT ![i] = "alive"] /\ Answers(c, {[msg |-> "started", id |-> i, blind |-> unread]})
  /\ UNCHANGED <<disk, old, saved, tui>>

OpenSaved(i) ==
  LET c == [do |-> "opensaved", id |-> i] IN
  /\ c \in asked
  /\ Answers(c, IF i \in saved THEN {[msg |-> "savedRun", id |-> i]} ELSE {})
  /\ UNCHANGED <<world, tui>>

DeleteSaved(i) ==
  LET c == [do |-> "deletesaved", id |-> i] IN
  /\ c \in asked
  /\ saved' = saved \ {i}
  /\ Answers(c, IF i \in saved THEN {[msg |-> "deleted", id |-> i]} ELSE {})
  /\ UNCHANGED <<disk, job, old, tui>>

CleanedAnyAge(keep) == {i \in Ids \ keep : disk[i] > 0}

\* the folders a clean that keeps these runs removes
Cleaned(keep) == {i \in old \ keep : disk[i] > 0}

Clean(keep) ==
  LET c == [do |-> "clean", keep |-> keep] IN
  /\ c \in asked
  /\ disk' = [i \in Ids |-> IF i \in Cleaned(keep) THEN 0 ELSE disk[i]]
  /\ old' = old \ Cleaned(keep)
  /\ Answers(c, {[msg |-> "cleaned"]})
  /\ UNCHANGED <<job, saved, tui>>

-----------------------------------------------------------------------------
(* Messages: one handler each, as in update. *)

Asks(cs) == asked' = asked \union cs
Takes(m) == m \in sent /\ sent' = sent \ {m}

\* newestRun over a list; the model and the chip stay as they are in this module
Newest(ids) == IF ids = {} THEN NoRun ELSE CHOOSE i \in ids : \A k \in ids : k <= i

Named(list) == IF list = NotRead THEN {} ELSE list.ids

\* NextName over the cached list
NextName == CHOOSE i \in 1 .. NumRuns + 1 : i \notin Named(runs) /\ \A k \in 1 .. i - 1 : k \in Named(runs)

\* the list is stored whether it was read or not
RunsMsg(list) ==
  /\ Takes([msg |-> "runs", list |-> list])
  /\ runs' = list
  /\ IF ~ runSet /\ Newest(Named(list)) # run
     THEN /\ run' = NoRun /\ shownJob' = NoJob
          /\ Asks(IF Named(list) = {} THEN {} ELSE {[do |-> "run", id |-> Newest(Named(list))]})
     ELSE UNCHANGED <<run, shownJob, asked>>
  /\ UNCHANGED <<world, readOnly, runSet, ticking, ticks, session, blind>>

RunMsg(i, found) ==
  /\ Takes([msg |-> "run", id |-> i, found |-> found])
  /\ IF ~ found THEN UNCHANGED <<run, asked>>
     ELSE /\ run' = i
          /\ Asks(IF run # i THEN {[do |-> "job", id |-> i]} ELSE {})
  /\ UNCHANGED <<world, runs, readOnly, runSet, shownJob, ticking, ticks, session, blind>>

JobOfLenient(i, s) == [id |-> i, alive |-> s # "over"]

\* the job a status answer puts on screen
JobOf(i, s) == IF s = "none" THEN NoJob ELSE [id |-> i, alive |-> s = "alive"]

TicksNever(s) == FALSE
TicksAlways(s) == s = "alive"

\* a job answer starts a chain of ticks when the job is alive and none is believed to be pending
TicksAfter(s) == s = "alive" /\ ~ ticking

JobMsg(i, s) ==
  /\ Takes([msg |-> "job", id |-> i, status |-> s])
  /\ shownJob' = JobOf(i, s)
  /\ IF TicksAfter(s) THEN ticking' = TRUE /\ ticks' = ticks + 1 ELSE UNCHANGED <<ticking, ticks>>
  /\ UNCHANGED <<world, runs, run, readOnly, runSet, session, blind, asked>>

\* always one more tick, whether one is pending or not
StartedMsg(i, unread) ==
  /\ Takes([msg |-> "started", id |-> i, blind |-> unread])
  /\ session' = Append(session, i)
  /\ blind' = IF unread THEN blind \union {i} ELSE blind
  /\ run' = i
  /\ readOnly' = FALSE /\ runSet' = TRUE
  /\ shownJob' = [id |-> i, alive |-> TRUE]
  /\ ticking' = TRUE /\ ticks' = ticks + 1
  /\ Asks({[do |-> "job", id |-> i]})
  /\ UNCHANGED <<world, runs>>

SavedRunMsg(i) ==
  /\ Takes([msg |-> "savedRun", id |-> i])
  /\ run' = i
  /\ shownJob' = NoJob /\ readOnly' = TRUE /\ runSet' = TRUE
  /\ UNCHANGED <<world, runs, ticking, ticks, session, blind, asked>>

\* a saved run is gone; runSet stays as it was
DeletedMsg(i) ==
  /\ Takes([msg |-> "deleted", id |-> i])
  /\ IF readOnly /\ run = i
     THEN run' = NoRun /\ readOnly' = FALSE
     ELSE UNCHANGED <<run, readOnly>>
  /\ UNCHANGED <<world, runs, runSet, shownJob, ticking, ticks, session, blind, asked>>

CleanedMsg ==
  /\ Takes([msg |-> "cleaned"])
  /\ Asks({[do |-> "runs"]})
  /\ UNCHANGED <<world, tui>>

PollsNoJob == {[do |-> "runs"], [do |-> "run", id |-> run]}

\* what a tick asks for
Polls == {[do |-> "runs"], [do |-> "run", id |-> run]} \union
         (IF shownJob.alive THEN {[do |-> "job", id |-> run]} ELSE {})

Room == Cardinality(asked) + Cardinality(sent) <= MaxFlying

TickMsg ==
  /\ ticks > 0 /\ Room
  /\ IF shownJob.alive THEN UNCHANGED <<ticking, ticks>>
                       ELSE ticking' = FALSE /\ ticks' = ticks - 1
  /\ Asks(Polls)
  /\ UNCHANGED <<world, runs, run, readOnly, runSet, shownJob, session, blind, sent>>

-----------------------------------------------------------------------------
(* Keys. *)

StartsUnderWay == {c \in asked : c.do = "start"} \union {m \in sent : m.msg = "started"}

\* [ Run ] is offered when no live job is shown; the name is taken from the list as it is now,
\* read or not
PressRun ==
  /\ Room /\ ~ shownJob.alive
  /\ NextName \in Ids
  /\ Len(session) + Cardinality(StartsUnderWay) < MaxStarts
  /\ Asks({[do |-> "start", id |-> NextName, blind |-> runs = NotRead]})
  /\ UNCHANGED <<world, tui, sent>>

PressOpenSaved(i) ==
  /\ Room /\ i \in saved
  /\ Asks({[do |-> "opensaved", id |-> i]})
  /\ UNCHANGED <<world, tui, sent>>

PressDeleteSaved(i) ==
  /\ Room /\ i \in saved
  /\ Asks({[do |-> "deletesaved", id |-> i]})
  /\ UNCHANGED <<world, tui, sent>>

SessionRuns == {session[k] : k \in DOMAIN session}

\* offered when the cached list holds an unsaved run of an earlier session
PressClean ==
  /\ Room /\ Named(runs) \ (SessionRuns \union saved) # {}
  /\ Asks({[do |-> "clean", keep |-> SessionRuns \union ({run} \ {NoRun})]})
  /\ UNCHANGED <<world, tui, sent>>

-----------------------------------------------------------------------------
World == \E i \in Ids : StageLands(i) \/ JobEnds(i)

Command ==
  \/ \E ok \in BOOLEAN : ReadRuns(ok)
  \/ \E i \in Shown : ReadRun(i) \/ ReadJob(i)
  \/ \E i \in Ids : (\E unread \in BOOLEAN : StartCommand(i, unread)) \/ OpenSaved(i) \/ DeleteSaved(i)
  \/ \E c \in {a \in asked : a.do = "clean"} : Clean(c.keep)

Answer ==
  \/ \E m \in {s \in sent : s.msg = "runs"} : RunsMsg(m.list)
  \/ \E m \in {s \in sent : s.msg = "run"} : RunMsg(m.id, m.found)
  \/ \E m \in {s \in sent : s.msg = "job"} : JobMsg(m.id, m.status)
  \/ \E i \in Ids : (\E unread \in BOOLEAN : StartedMsg(i, unread)) \/ SavedRunMsg(i) \/ DeletedMsg(i)
  \/ CleanedMsg

Message == Answer \/ TickMsg

Key ==
  \/ PressRun \/ PressClean
  \/ \E i \in Ids : PressOpenSaved(i) \/ PressDeleteSaved(i)

Next == World \/ Command \/ Message \/ Key

Spec == Init /\ [][Next]_vars

ReadAJob == \E i \in Shown : ReadJob(i)
AJobMsg == \E m \in {s \in sent : s.msg = "job"} : JobMsg(m.id, m.status)

(* Every command runs to its end and every message is handled: each command    *)
(* has a goroutine of its own, and the program takes its messages from a       *)
(* channel. Less is assumed here: that the reads of a job and their answers    *)
(* come, and that the rest does not stop as a whole. The tick's fairness is    *)
(* strong only because Room bounds the model: the timer itself waits for       *)
(* nobody. Pipelines and keys are not assumed to do anything.                  *)
FairSpec ==
  /\ Spec
  /\ WF_vars(ReadAJob) /\ WF_vars(AJobMsg)
  /\ WF_vars(Command \/ Answer)
  /\ SF_vars(TickMsg)

-----------------------------------------------------------------------------
(* While a live job is on screen a tick is pending, so the screen keeps        *)
(* reading it. Ticks are started by three handlers (model.go:822, :832, :895), *)
(* dropped by one (:900), and nothing else reads the job again; the flag that  *)
(* says one is pending may be left by an earlier run's chain, and the job may  *)
(* become another run's between two ticks.                                     *)
LiveIsPolled == shownJob.alive => ticking /\ ticks > 0

(* Ticks do not multiply: startedMsg starts one more chain whether one is      *)
(* pending or not, a chain that stops clears ticking for all of them, and      *)
(* jobMsg then starts another beside those still pending. However these        *)
(* interleave, a session holds at most one chain more than it started runs.    *)
ChainsPerStart == ticks <= Len(session) + 1

(* Delete the unsaved runs from earlier sessions (clean_work, screen.py:1780)  *)
(* removes no folder of a run started in this session, with one exception: not *)
(* with the keep list taken before the run was known here, nor when a stale    *)
(* list made the run take a name that was used before. The exception is a run  *)
(* whose name was taken without a list that was read: a List that fails, or    *)
(* has not answered yet, leaves an empty one (seam.go:229, model.go:737), so   *)
(* the run takes the name of an old folder, and a Clean pressed before it was  *)
(* known here removes that folder, although "never one of this session"        *)
(* (model.go:532).                                                             *)
SessionRunsKept == [][\A i \in SessionRuns \ blind : disk[i] > 0 => disk'[i] > 0]_vars

(* A job shown alive when no job runs any more is not shown alive for ever:    *)
(* either the screen learns of the end or a new run is started. This is what   *)
(* frees [ Run ] again, which is not offered while a live job is shown.        *)
NothingRuns == \A i \in Ids : job[i] # "alive"
EndIsSeen == (shownJob.alive /\ NothingRuns) ~> (~ shownJob.alive \/ ~ NothingRuns)
=============================================================================
