---------------------------- MODULE IsolatedStage ----------------------------
(***************************************************************************)
(* run_isolated of boltbeam/runtime/process_isolated.py: a callback runs   *)
(* in a forked child that sends its result through a pipe; the parent      *)
(* joins the child first and reads the pipe afterwards.                    *)
(***************************************************************************)
CONSTANTS SlowStart,  \* the deadline may pass before the child has called setsid
          HeldPipe    \* the callback may fork a helper that keeps the pipe's write end

ASSUME SwitchesAssumption == SlowStart \in BOOLEAN /\ HeldPipe \in BOOLEAN

VARIABLES
  place,   \* the parent's place in run_isolated and _stop
  child,   \* "born" (no session yet), "calling", "sending", "blocked" in send, "exited"
  ended,   \* how the callback ended: "no", "value", "raised", "died"
  load,    \* what the child sends: "none", "success" or "callback_error"
  pipe,    \* what a reader would find: "empty", "torn" or "whole"
  helper,  \* a process of the callback's in the group: "none", "plain" or "holds pipe"
  killed,  \* SIGKILL reached the group
  due,     \* the deadline has passed
  inTime,  \* history: the callback had ended and its result was being sent before that
  report   \* the StageResult's status, "none" before run_isolated returns

stageVars == <<place, child, ended, load, pipe, helper, killed, due, inTime, report>>
parent == <<place, killed, report>>
childsSide == <<child, ended, load, pipe, helper, due, inTime>>

(* The callback's end, the deadline and the report are the stage as its      *)
(* caller sees it; everything else is how it comes about.                    *)
Outcome == INSTANCE StageOutcome WITH ended <- ended, due <- due, report <- report

StageInit ==
  /\ place = "join" /\ child = "born" /\ ended = "no" /\ load = "none" /\ pipe = "empty"
  /\ helper = "none" /\ killed = FALSE /\ due = FALSE /\ inTime = FALSE /\ report = "none"

HasGroup == child # "born" \/ helper # "none"
Eof == child = "exited" /\ helper # "holds pipe"

-----------------------------------------------------------------------------
(* _invoke, in the child.                                                    *)
Setsid ==
  /\ child = "born" /\ child' = "calling"
  /\ UNCHANGED <<parent, ended, load, pipe, helper, due, inTime>>

ForkHelper(kind) ==
  /\ child = "calling" /\ helper = "none"
  /\ kind = "holds pipe" => HeldPipe
  /\ helper' = kind
  /\ UNCHANGED <<parent, child, ended, load, pipe, due, inTime>>

(* Mutant: the sender puts the callback's end where the status belongs.      *)
CallbackEndsUntyped(how, status) ==
  /\ child = "calling" /\ child' = "sending"
  /\ how = "raised" => status = "callback_error"
  /\ ended' = how /\ load' = how
  /\ UNCHANGED <<parent, pipe, helper, due, inTime>>

(* The callback returns or raises; a value that cannot be pickled is sent as *)
(* a callback_error by the except clause.                                    *)
CallbackEnds(how, status) ==
  /\ child = "calling" /\ child' = "sending"
  /\ how = "raised" => status = "callback_error"
  /\ ended' = how /\ load' = status
  /\ UNCHANGED <<parent, pipe, helper, due, inTime>>

(* conn.send writes the message and the child exits; a message larger than   *)
(* the pipe blocks, and nobody reads before the child has exited.            *)
Send(large) ==
  /\ child = "sending"
  /\ IF large THEN child' = "blocked" /\ pipe' = "torn"
              ELSE child' = "exited" /\ pipe' = "whole"
  /\ inTime' = ~due
  /\ UNCHANGED <<parent, ended, load, helper, due>>

(* The child is killed by something else, or the callback calls os._exit.    *)
ChildDies ==
  /\ child # "exited" /\ child' = "exited"
  /\ ended' = IF ended = "no" THEN "died" ELSE ended
  /\ UNCHANGED <<parent, load, pipe, helper, due, inTime>>

HelperExits ==
  /\ helper # "none" /\ helper' = "none"
  /\ UNCHANGED <<parent, child, ended, load, pipe, due, inTime>>

(* SIGKILL takes every process of the group.                                 *)
GroupKilled ==
  /\ killed /\ (child # "exited" \/ helper # "none")
  /\ child' = "exited" /\ helper' = "none"
  /\ ended' = IF ended = "no" THEN "died" ELSE ended
  /\ UNCHANGED <<parent, load, pipe, due, inTime>>

Deadline ==
  /\ ~due /\ due' = TRUE
  /\ child = "born" => SlowStart
  /\ UNCHANGED <<parent, child, ended, load, pipe, helper, inTime>>

-----------------------------------------------------------------------------
(* Mutant: is_alive is not asked after the join.                             *)
JoinReturnsUnasked ==
  /\ place = "join" /\ (child = "exited" \/ due)
  /\ place' = "poll"
  /\ UNCHANGED <<childsSide, killed, report>>

(* run_isolated: process.join(timeout_s), then is_alive.                     *)
JoinReturns ==
  /\ place = "join" /\ (child = "exited" \/ due)
  /\ place' = IF child = "exited" THEN "poll" ELSE "term"
  /\ UNCHANGED <<childsSide, killed, report>>

(* _stop: SIGTERM to the group, if it is there yet; a callback may ignore it, *)
(* so its effect is that ChildDies may follow.                               *)
StopTerm ==
  /\ place = "term" /\ place' = "grace"
  /\ UNCHANGED <<childsSide, killed, report>>

Return(status) == place' = "done" /\ report' = status

(* Mutant: the timeout is returned after the grace, whoever still runs.      *)
StopGraceLenient ==
  /\ place = "grace"
  /\ Return("timeout") /\ UNCHANGED killed
  /\ UNCHANGED childsSide

(* Mutant: no SIGKILL before the last join.                                  *)
StopGraceTermOnly ==
  /\ place = "grace"
  /\ IF child = "exited" THEN Return("timeout") ELSE place' = "rejoin" /\ UNCHANGED report
  /\ UNCHANGED <<childsSide, killed>>

(* _stop: join(grace_s); SIGKILL to the group if the child is still there:   *)
(* before setsid that is an ignored ProcessLookupError.                      *)
StopGrace ==
  /\ place = "grace"
  /\ IF child = "exited"
     THEN Return("timeout") /\ UNCHANGED killed
     ELSE place' = "rejoin" /\ killed' = HasGroup /\ UNCHANGED report
  /\ UNCHANGED childsSide

StopRejoin ==
  /\ place = "rejoin" /\ child = "exited"
  /\ Return("timeout")
  /\ UNCHANGED <<childsSide, killed>>

(* parent.poll until the deadline: data or end of file.                      *)
Poll ==
  /\ place = "poll"
  /\ \/ pipe # "empty" /\ place' = "recv" /\ UNCHANGED report
     \/ pipe = "empty" /\ Eof /\ place' = "recv" /\ UNCHANGED report
     \/ pipe = "empty" /\ ~Eof /\ due /\ Return("no_result")
  /\ UNCHANGED <<childsSide, killed>>

(* parent.recv: a torn message waits for the rest or for the end of file.    *)
Recv ==
  /\ place = "recv"
  /\ \/ pipe = "whole" /\ Return(load)
     \/ pipe # "whole" /\ Eof /\ Return("no_result")
  /\ UNCHANGED <<childsSide, killed>>

Parent == JoinReturns \/ StopTerm \/ StopGrace \/ StopRejoin \/ Poll \/ Recv

StageNext ==
  \/ Parent \/ Setsid \/ ChildDies \/ HelperExits \/ GroupKilled \/ Deadline
  \/ \E kind \in {"plain", "holds pipe"} : ForkHelper(kind)
  \/ \E how \in {"value", "raised"}, status \in {"success", "callback_error"} : CallbackEnds(how, status)
  \/ \E large \in BOOLEAN : Send(large)

StageSpec == StageInit /\ [][StageNext]_stageVars

(* The parent and the child are scheduled, SIGKILL takes effect and time     *)
(* passes.  The callback itself, and its helpers, may never end.             *)
FairStageSpec ==
  /\ StageSpec /\ WF_stageVars(Parent) /\ WF_stageVars(Setsid)
  /\ WF_stageVars(GroupKilled) /\ WF_stageVars(Deadline)

-----------------------------------------------------------------------------
StageTypeOK ==
  /\ place \in {"join", "term", "grace", "rejoin", "poll", "recv", "done"}
  /\ child \in {"born", "calling", "sending", "blocked", "exited"}
  /\ ended \in {"no", "value", "raised", "died"}
  /\ load \in {"none", "success", "callback_error"}
  /\ pipe \in {"empty", "torn", "whole"}
  /\ helper \in {"none", "plain", "holds pipe"}
  /\ killed \in BOOLEAN /\ due \in BOOLEAN /\ inTime \in BOOLEAN
  /\ report \in {"none", "success", "callback_error", "timeout", "no_result"}

(* run_isolated implements StageOutcome: no result is invented or doubled.   *)
Implements == Outcome!Spec

(* The child never outlives the call, on any of the ways out of it, nor does *)
(* a report of absent output come before the callback has ended.             *)
ChildEndsFirst == report # "none" => child = "exited"

(* docstring, line 83: "Run callback with a hard deadline": the call returns *)
(* once the deadline has passed, even when the callback ignores SIGTERM or   *)
(* is blocked in send.  Two things void it, and nothing else does: the       *)
(* deadline passes while the child has no group to signal, and _stop then    *)
(* joins it without a bound (lines 64, 74-78); or a helper of the callback   *)
(* keeps the pipe's write end, and recv waits for the rest of a torn         *)
(* message (line 104).                                                       *)
HardDeadline ==
  [](child = "born" => ~due) /\ [](helper # "holds pipe") => (due ~> report # "none")

(* line 101, "stage exceeded {timeout_s:g}s": a stage whose result was being *)
(* sent before the deadline is not reported as one that exceeded it.         *)
TimeoutMeansSlow == report = "timeout" => ~inTime
=============================================================================
