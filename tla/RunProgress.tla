----------------------------- MODULE RunProgress -----------------------------
(* How a screen learns how far a run is. The pipeline (workflow/screen.py,     *)
(* pipeline and _run_stages) prints one line per event into the job's log; the *)
(* screen reads the last lines of the log (jobs.go, Tail), parses them         *)
(* (seam.go, ReadProgress), and moves a bar (steps.go, advance). Runs started  *)
(* under one id share a log. The setup stages of a run come first.             *)
EXTENDS Integers, Sequences, FiniteSets

CONSTANTS
  MaxJobs,    \* bound: jobs started under the id
  MaxSetup,   \* bound: setup stages of a run
  StepSeconds, \* the expected seconds of the counted stages, in order; a run has a first part of them
  MaxOther,   \* bound: lines of other output in the log
  MaxDetails, \* lines behind a failure (DETAIL_LINES)
  Window,     \* lines of the log the screen reads (200)
  MaxAge,     \* bound: time units shown inside a step
  MaxAnswers  \* bound: reads of the log under way at once

ASSUME RunProgressAssumption ==
  /\ StepSeconds \in Seq(Nat \ {0}) /\ StepSeconds # <<>>
  /\ {MaxJobs, MaxAnswers} \subseteq Nat \ {0}
  /\ {MaxSetup, MaxOther, MaxDetails, MaxAge, Window} \subseteq Nat
  /\ MaxDetails < Window /\ 2 <= Window  \* a failure has up to 40 lines, the window 200

Parts == 2              \* q of "progress p/q"
SameForAll == 2         \* the weight of every step when no expectation is printed
Full == 100             \* the bar in hundredths, rounded down
AlmostFull == 99
SetupShare == 2

VARIABLES
  jobs,    \* jobs started so far; the last one is the current one
  plan,    \* of the current job: its setup stages, the seconds of its counted ones, whether it prints them
  pc,      \* of its pipeline: "steps", "counted", "expect", "next", "stage" or "over"
  stage,   \* stages started
  sub,     \* parts reported inside the stage
  outcome, \* "none", "failed" or "finished"
  other,   \* lines of other output so far
  log,     \* the last lines of the log
  answers, \* reads of the log whose message is not handled yet
  seen,    \* the job and the lines the screen has
  bar,     \* the job the bar belongs to, how full it is, and the step count its clock was set at
  age      \* time since the bar's clock was set

pipe == <<jobs, plan, pc, stage, sub, outcome, other, log>>
screen == <<seen, bar, age>>
vars == <<pipe, answers, screen>>

NoPlan == [setup |-> 0, seconds |-> <<>>, printed |-> FALSE]
Plans == [setup : 0 .. MaxSetup, seconds : {SubSeq(StepSeconds, 1, n) : n \in DOMAIN StepSeconds}, printed : BOOLEAN]

Stages == plan.setup + Len(plan.seconds)
Counts(k) == k > plan.setup

Init ==
  /\ jobs = 0 /\ plan = NoPlan /\ pc = "over" /\ stage = 0 /\ sub = 0 /\ outcome = "none" /\ other = 0
  /\ log = <<>> /\ answers = {}
  /\ seen = [job |-> 0, lines |-> <<>>]
  /\ bar = [job |-> 0, full |-> 0, mark |-> 0] /\ age = 0

-----------------------------------------------------------------------------
(* The pipeline.                                                               *)

Cut(s, n) == SubSeq(s, (IF Len(s) > n THEN Len(s) - n ELSE 0) + 1, Len(s))

\* nothing reads more of the log than the window, so the model keeps no more
SayAll(lines) == log' = Cut(log \o lines, Window)
Say(line) == SayAll(<<line>>)

\* the job store heads the log of every job it starts
StartJob(p) ==
  /\ pc = "over" /\ jobs < MaxJobs
  /\ jobs' = jobs + 1 /\ plan' = p
  /\ pc' = "steps" /\ stage' = 0 /\ sub' = 0 /\ outcome' = "none"
  /\ Say([k |-> "job"])
  /\ UNCHANGED <<other, answers, screen>>

Header(at, line, next) ==
  /\ pc = at /\ pc' = next
  /\ Say(line)
  /\ UNCHANGED <<jobs, plan, stage, sub, outcome, other, answers, screen>>

SaySteps == Header("steps", [k |-> "steps", n |-> Len(plan.seconds)], "counted")
SayCounted == Header("counted", [k |-> "counted", flags |-> [i \in 1 .. Stages |-> Counts(i)]],
                     IF plan.printed THEN "expect" ELSE "next")
SayExpect == Header("expect", [k |-> "expect", seconds |-> plan.seconds], "next")

StageStarts ==
  /\ pc = "next" /\ stage < Stages
  /\ pc' = "stage" /\ stage' = stage + 1 /\ sub' = 0
  /\ Say([k |-> "start", stage |-> stage + 1])
  /\ UNCHANGED <<jobs, plan, outcome, other, answers, screen>>

StageReports ==
  /\ pc = "stage" /\ sub < Parts
  /\ sub' = sub + 1
  /\ Say([k |-> "progress", stage |-> stage, sub |-> sub + 1])
  /\ UNCHANGED <<jobs, plan, pc, stage, outcome, other, answers, screen>>

\* a stage that is skipped says so, and is done as any other
StageDone(skipped) ==
  /\ pc = "stage" /\ pc' = "next"
  /\ SayAll((IF skipped THEN <<[k |-> "skipped", stage |-> stage]>> ELSE <<>>) \o <<[k |-> "done", stage |-> stage]>>)
  /\ UNCHANGED <<jobs, plan, stage, sub, outcome, other, answers, screen>>

\* one failed line, then what stands behind it
StageFails(details) ==
  /\ pc = "stage" /\ pc' = "over" /\ outcome' = "failed"
  /\ SayAll(<<[k |-> "failed", stage |-> stage]>> \o [i \in 1 .. details |-> [k |-> "detail", stage |-> stage]])
  /\ UNCHANGED <<jobs, plan, stage, sub, other, answers, screen>>

\* "pipeline done" is the last line; the process ends after it
Finishes ==
  /\ pc = "next" /\ stage = Stages
  /\ pc' = "over" /\ outcome' = "finished"
  /\ Say([k |-> "pipeline done"])
  /\ UNCHANGED <<jobs, plan, stage, sub, other, answers, screen>>

\* stopped, or gone: nothing is printed
Dies ==
  /\ pc # "over" /\ pc' = "over"
  /\ UNCHANGED <<jobs, plan, stage, sub, outcome, other, log, answers, screen>>

\* a stage's own words, an engine's, a warning's
OtherOutput ==
  /\ pc # "over" /\ other < MaxOther
  /\ other' = other + 1
  /\ Say([k |-> "other"])
  /\ UNCHANGED <<jobs, plan, pc, stage, sub, outcome, answers, screen>>

-----------------------------------------------------------------------------
(* ReadProgress.                                                               *)

Tail200 == Cut(log, Window)

Heads(lines) == {i \in DOMAIN lines : lines[i].k \in {"job", "steps"}}
HeadsOfSteps(lines) == {i \in DOMAIN lines : lines[i].k = "steps"}

\* the lines from the last head on; all of them when the head is cut off
Current(lines) ==
  LET heads == Heads(lines)
      first == IF heads = {} THEN 1 ELSE CHOOSE i \in heads : \A j \in heads : j <= i
  IN SubSeq(lines, first, Len(lines))

Blank == [done |-> 0, total |-> 0, flags |-> <<>>, seconds |-> <<>>, started |-> 0, counted |-> TRUE,
          current |-> 0, sub |-> 0, finished |-> FALSE, failed |-> 0]

EndsAStageSkipped(k) == k \in {"done", "skipped"}
EndsAStage(k) == k = "done"

\* how one line changes what is known; a stage past the flags counts
Reads(p, line) ==
  CASE line.k = "steps"    -> [p EXCEPT !.total = line.n]
    [] line.k = "counted"  -> [p EXCEPT !.flags = line.flags]
    [] line.k = "expect"   -> [p EXCEPT !.seconds = line.seconds]
    [] line.k = "start"    -> [p EXCEPT !.counted = p.started + 1 \notin DOMAIN p.flags \/ p.flags[p.started + 1],
                                        !.started = @ + 1, !.current = line.stage, !.sub = 0]
    [] line.k = "progress" -> [p EXCEPT !.sub = line.sub]
    [] EndsAStage(line.k)  -> [p EXCEPT !.done = IF p.counted THEN @ + 1 ELSE @, !.current = 0, !.sub = 0]
    [] line.k = "failed"   -> [p EXCEPT !.failed = line.stage, !.current = 0]
    [] line.k = "pipeline done" -> [p EXCEPT !.finished = TRUE]
    [] OTHER -> p

\* what is known after each number of the lines
Readings(lines) ==
  LET known[i \in 0 .. Len(lines)] == IF i = 0 THEN Blank ELSE Reads(known[i - 1], lines[i])
  IN known
ReadAll(lines) == Readings(lines)[Len(lines)]

(* Mutant: the lines of earlier runs are read too. *)
ReadProgressWholeLog(lines) == ReadAll(lines)
ReadProgress(lines) == ReadAll(Current(lines))

InSetup(p) == ~ p.finished /\ p.failed = 0 /\ p.done = 0 /\ (p.current = 0 \/ ~ p.counted)

-----------------------------------------------------------------------------
(* Fraction and advance.                                                       *)

Lesser(a, b) == IF a < b THEN a ELSE b
Greater(a, b) == IF a > b THEN a ELSE b

\* the first n weights together
Sums(w) == LET sum[n \in 0 .. Len(w)] == IF n = 0 THEN 0 ELSE sum[n - 1] + w[n] IN sum
Total(w) == Sums(w)[Len(w)]

Weights(p) == IF Len(p.seconds) = p.total THEN p.seconds ELSE [i \in 1 .. p.total |-> SameForAll]

\* what the step now running adds: the time in it or its parts, never past its weight
InStepUncapped(p, e, t) == IF p.sub > 0 THEN Greater(t, (e * p.sub) \div Parts) ELSE t
InStep(p, e, t) == Lesser(InStepUncapped(p, e, t), e)

Fraction(p, t) ==
  LET w == Weights(p)
      ended == Sums(w)[Lesser(p.done, Len(w))]
      running == IF p.done < Len(w) /\ p.current # 0 THEN InStep(p, w[p.done + 1], t) ELSE 0
  IN IF p.finished THEN Full
     ELSE IF InSetup(p) THEN Lesser(SetupShare, t)
     ELSE IF p.total = 0 THEN 0
     ELSE Lesser(AlmostFull, (Full * (ended + running)) \div Total(w))

Fresh == -1
SetupMark == -2

\* the bar of a full screen after reading, when its clock says t
FilledForget(p, before, t) == Fraction(p, t)
Filled(p, before, t) ==
  LET full == Greater(before, Fraction(p, t))
  IN IF p.finished THEN full ELSE Lesser(full, AlmostFull)

\* now: the time since the bar's clock was set, unless this reading sets it again
Advance(s, now) ==
  LET p == ReadProgress(s.lines)
      was == IF bar.job = s.job THEN bar ELSE [job |-> s.job, full |-> 0, mark |-> Fresh]
      mark == IF InSetup(p) THEN SetupMark ELSE p.done
  IN \E t \in IF mark = was.mark THEN {now}
              ELSE IF was.mark = Fresh /\ p.done = 0 THEN 0 .. MaxAge  \* since the job began
              ELSE {0} :
       /\ age' = t
       /\ bar' = [job |-> s.job, full |-> Filled(p, was.full, t), mark |-> mark]

\* loadJob: the job and the end of its log
Look ==
  /\ jobs > 0 /\ Cardinality(answers) < MaxAnswers
  /\ answers' = answers \union {[job |-> jobs, lines |-> Tail200]}
  /\ UNCHANGED <<pipe, screen>>

JobMsg(a) ==
  /\ a \in answers /\ answers' = answers \ {a}
  /\ seen' = a
  /\ Advance(a, age)
  /\ UNCHANGED pipe

\* a second passes on the screen
TickMsg ==
  /\ seen.job # 0 /\ age < MaxAge
  /\ Advance(seen, age + 1)
  /\ UNCHANGED <<pipe, answers, seen>>

-----------------------------------------------------------------------------
Pipeline ==
  \/ \E p \in Plans : StartJob(p)
  \/ SaySteps \/ SayCounted \/ SayExpect
  \/ StageStarts \/ StageReports
  \/ \E skipped \in BOOLEAN : StageDone(skipped)
  \/ \E details \in 0 .. MaxDetails : StageFails(details)
  \/ Finishes \/ Dies \/ OtherOutput

Next == Pipeline \/ Look \/ (\E a \in answers : JobMsg(a)) \/ TickMsg

Spec == Init /\ [][Next]_vars

\* the log alone, for what the reader makes of every end of it
LogSpec == Init /\ [][Pipeline]_vars

-----------------------------------------------------------------------------
Bar == [job : 0 .. MaxJobs, full : 0 .. Full, mark : {Fresh, SetupMark} \union (0 .. MaxSetup + Len(StepSeconds))]

TypeOK ==
  /\ jobs \in 0 .. MaxJobs /\ plan \in Plans \union {NoPlan}
  /\ pc \in {"steps", "counted", "expect", "next", "stage", "over"}
  /\ stage \in 0 .. Stages /\ sub \in 0 .. Parts
  /\ outcome \in {"none", "failed", "finished"} /\ other \in 0 .. MaxOther
  /\ Cardinality(answers) <= MaxAnswers
  /\ bar \in Bar /\ age \in 0 .. MaxAge

\* what the pipeline itself knows
StagesEnded == IF pc = "stage" \/ outcome = "failed" THEN stage - 1 ELSE stage
StepsDone == Cardinality({k \in 1 .. stage : Counts(k) /\ k <= StagesEnded})
HeadShown == \E i \in HeadsOfSteps(Tail200) : \A j \in i .. Len(Tail200) : Tail200[j].k # "job"

(* ReadProgress and the pipeline agree on every count while the pipeline's     *)
(* head is among the lines read: n of N, the stage running now and its parts,  *)
(* whether the setup is over; whatever an earlier run left in the log and      *)
(* whatever else prints there (seam.go:538: "an older run in the same log does *)
(* not leak in"). A stage that died without a word stays the current one.      *)
ReaderAgrees ==
  HeadShown =>
    LET p == ReadProgress(Tail200) IN
    /\ p.total = Len(plan.seconds)
    /\ outcome = "none" => p.done <= StepsDone
    /\ pc \in {"next", "stage"} => /\ p.done = StepsDone
                                   /\ p.current = (IF pc = "stage" THEN stage ELSE 0)
                                   /\ p.current # 0 => p.sub = sub
                                   /\ InSetup(p) <=> StepsDone = 0 /\ ~ (pc = "stage" /\ Counts(stage))

(* A run that failed is read as failed at its stage and one that finished as   *)
(* finished, even when the head of the log is cut off; a run that did neither  *)
(* is read as neither, whatever an earlier run in the log says.                *)
OutcomeAgrees ==
  jobs > 0 =>
    LET p == ReadProgress(Tail200) IN
    /\ p.failed = (IF outcome = "failed" THEN stage ELSE 0)
    /\ p.finished <=> outcome = "finished"

(* The bar never runs ahead of the pipeline: it shows no more than the steps   *)
(* that ended and the whole of the one that runs, however slow that is and     *)
(* however often it was read; only "pipeline done" fills it (steps.go:105).    *)
MayShow ==
  LET w == IF plan.printed THEN plan.seconds ELSE [i \in 1 .. Len(plan.seconds) |-> SameForAll]
      begun == Cardinality({k \in 1 .. stage : Counts(k)})
  IN IF outcome = "finished" THEN Full
     ELSE Greater(SetupShare, Lesser(AlmostFull, (Full * Sums(w)[begun]) \div Total(w)))
BarNotAhead == bar.job = jobs /\ jobs > 0 => bar.full <= MayShow

(* The bar of one job goes back only from full to 99, and only when a read     *)
(* that ended before "pipeline done" is handled after one that has it; every   *)
(* other overtaken read leaves the bar where it is (steps.go:103-106). That    *)
(* much is less than steps.go:73 says, "it never goes back while one job       *)
(* runs": a tick reads the log again each second whether or not the last read  *)
(* was answered (model.go:891-895), so answers may change places.              *)
BarNearlyNeverBack ==
  [][bar'.job = bar.job /\ bar'.full < bar.full =>
       /\ bar.full = Full /\ bar'.full = AlmostFull
       /\ ReadProgress(seen.lines).finished /\ ~ ReadProgress(seen'.lines).finished]_vars
=============================================================================
