--------------------------- MODULE RuntimeProofs ---------------------------
(* Proofs about the two modules of boltbeam/runtime. IsolatedStage: the call   *)
(* never returns before the child has ended, and every behaviour of it is one  *)
(* StageOutcome allows. BoundedJob: a job outlives the program that started it *)
(* for a named reason only, a status of 0 means its main process exited 0.     *)
EXTENDS IsolatedStage, BoundedJob, TLAPS

-----------------------------------------------------------------------------
(* IsolatedStage. *)

(* The parent's place tells what it knows: past the join the child has       *)
(* ended, in _stop the deadline has passed.                                  *)
ParentKnows ==
  /\ place \in {"poll", "recv"} => child = "exited"
  /\ place \in {"term", "grace", "rejoin"} => due
  /\ place = "done" <=> report # "none"

(* What the child has got to tells how the callback ended and what is sent.  *)
ChildTells ==
  /\ child \in {"born", "calling"} <=> ended = "no"
  /\ child \in {"sending", "blocked"} => load # "none"
  /\ load = "success" => ended = "value"
  /\ load = "callback_error" => ended \in {"value", "raised"}
  /\ pipe # "empty" => load # "none"

StageInv == StageTypeOK /\ ParentKnows /\ ChildTells /\ ChildEndsFirst

LEMMA StageInitEstablishes == StageInit => StageInv
  BY DEF StageInit, StageInv, StageTypeOK, ParentKnows, ChildTells, ChildEndsFirst

LEMMA StageStutterPreserves == StageInv /\ UNCHANGED stageVars => StageInv'
<1>1. StageTypeOK /\ UNCHANGED stageVars => StageTypeOK'
  BY DEF stageVars, StageTypeOK
<1>2. ParentKnows /\ UNCHANGED stageVars => ParentKnows'
  BY DEF stageVars, ParentKnows
<1>3. ChildTells /\ UNCHANGED stageVars => ChildTells'
  BY DEF stageVars, ChildTells
<1>4. ChildEndsFirst /\ UNCHANGED stageVars => ChildEndsFirst'
  BY DEF stageVars, ChildEndsFirst
<1> QED
  BY <1>1, <1>2, <1>3, <1>4 DEF StageInv

LEMMA StageStepPreserves == StageInv /\ [StageNext]_stageVars => StageInv'
<1> SUFFICES ASSUME StageInv, [StageNext]_stageVars PROVE StageInv'
  OBVIOUS
<1> USE DEF StageInv, StageTypeOK, ParentKnows, ChildTells, ChildEndsFirst
<1>1. CASE Setsid
  BY <1>1 DEF Setsid, parent
<1>2. ASSUME NEW kind \in {"plain", "holds pipe"}, ForkHelper(kind) PROVE StageInv'
  BY <1>2 DEF ForkHelper, parent
<1>3. ASSUME NEW how \in {"value", "raised"}, NEW sent \in {"success", "callback_error"},
             CallbackEnds(how, sent)
      PROVE  StageInv'
  BY <1>3 DEF CallbackEnds, parent
<1>4. ASSUME NEW large \in BOOLEAN, Send(large) PROVE StageInv'
  BY <1>4 DEF Send, parent
<1>5. CASE ChildDies
  BY <1>5 DEF ChildDies, parent
<1>6. CASE HelperExits
  <2>1. StageTypeOK'
    BY <1>6 DEF HelperExits, parent
  <2>2. ParentKnows' /\ ChildEndsFirst'
    BY <1>6 DEF HelperExits, parent
  <2>3. ChildTells'
    BY <1>6 DEF HelperExits, parent
  <2> QED
    BY <2>1, <2>2, <2>3
<1>7. CASE GroupKilled
  BY <1>7 DEF GroupKilled, parent
<1>8. CASE Deadline
  <2>1. StageTypeOK'
    BY <1>8 DEF Deadline, parent
  <2>2. ParentKnows' /\ ChildEndsFirst'
    BY <1>8 DEF Deadline, parent
  <2>3. ChildTells'
    BY <1>8 DEF Deadline, parent
  <2> QED
    BY <2>1, <2>2, <2>3
<1>9. CASE JoinReturns
  BY <1>9 DEF JoinReturns, childsSide
<1>10. CASE StopTerm
  BY <1>10 DEF StopTerm, childsSide
<1>11. CASE StopGrace
  BY <1>11 DEF StopGrace, Return, HasGroup, childsSide
<1>12. CASE StopRejoin
  BY <1>12 DEF StopRejoin, Return, childsSide
<1>13. CASE Poll
  BY <1>13 DEF Poll, Return, childsSide
<1>14. CASE Recv
  BY <1>14 DEF Recv, Return, childsSide
<1>15. CASE UNCHANGED stageVars
  BY <1>15, StageStutterPreserves
<1> QED
  BY <1>1, <1>2, <1>3, <1>4, <1>5, <1>6, <1>7, <1>8, <1>9, <1>10, <1>11, <1>12, <1>13,
     <1>14, <1>15 DEF StageNext, Parent

LEMMA StageInvariant == StageSpec => []StageInv
<1>1. StageInit => StageInv
  BY StageInitEstablishes
<1>2. StageInv /\ [StageNext]_stageVars => StageInv'
  BY StageStepPreserves
<1> QED
  BY <1>1, <1>2, PTL DEF StageSpec

(* Every state of the parent, the child and the pipe is one of those named   *)
(* in IsolatedStage: a status of the pipe is a status of StageResult.        *)
THEOREM StageTyped == StageSpec => []StageTypeOK
<1>1. StageInv => StageTypeOK
  BY DEF StageInv
<1> QED
  BY StageInvariant, <1>1, PTL

(* Whatever the callback, its helpers and the clock do, run_isolated returns *)
(* only once the child process is gone.                                      *)
THEOREM ChildNeverOutlivesTheCall == StageSpec => []ChildEndsFirst
<1>1. StageInv => ChildEndsFirst
  BY DEF StageInv
<1> QED
  BY StageInvariant, <1>1, PTL

-----------------------------------------------------------------------------
LEMMA StepImplements ==
  StageInv /\ [StageNext]_stageVars => [Outcome!Next]_<<ended, due, report>>
<1> SUFFICES ASSUME StageInv, [StageNext]_stageVars PROVE [Outcome!Next]_<<ended, due, report>>
  OBVIOUS
<1> USE DEF StageInv, StageTypeOK, ParentKnows, ChildTells, Outcome!Next
<1>1. CASE \/ Setsid \/ HelperExits
           \/ \E kind \in {"plain", "holds pipe"} : ForkHelper(kind)
           \/ \E large \in BOOLEAN : Send(large)
  BY <1>1 DEF Setsid, HelperExits, ForkHelper, Send, parent
<1>2. ASSUME NEW how \in {"value", "raised"}, NEW sent \in {"success", "callback_error"},
             CallbackEnds(how, sent)
      PROVE  Outcome!End(how)
  BY <1>2 DEF CallbackEnds, Outcome!End, parent
<1>3. CASE ChildDies \/ GroupKilled
  <2>1. UNCHANGED <<due, report>>
    BY <1>3 DEF ChildDies, GroupKilled, parent
  <2>2. ended' = ended \/ (ended = "no" /\ ended' = "died")
    BY <1>3 DEF ChildDies, GroupKilled
  <2> QED
    BY <2>1, <2>2 DEF Outcome!End
<1>4. CASE Deadline
  BY <1>4 DEF Deadline, Outcome!Deadline, parent
<1>5. CASE JoinReturns \/ StopTerm
  BY <1>5 DEF JoinReturns, StopTerm, childsSide
<1>6. CASE StopGrace \/ StopRejoin
  <2>1. UNCHANGED <<ended, due>>
    BY <1>6 DEF StopGrace, StopRejoin, childsSide
  <2>2. UNCHANGED report \/ (due /\ report = "none" /\ report' = "timeout")
    BY <1>6 DEF StopGrace, StopRejoin, Return
  <2> QED
    BY <2>1, <2>2 DEF Outcome!Report
<1>7. CASE Poll
  <2>1. UNCHANGED <<ended, due>>
    BY <1>7 DEF Poll, childsSide
  <2>2. UNCHANGED report \/ (ended # "no" /\ report = "none" /\ report' = "no_result")
    BY <1>7 DEF Poll, Return
  <2> QED
    BY <2>1, <2>2 DEF Outcome!Report
<1>8. CASE Recv
  <2>1. UNCHANGED <<ended, due>> /\ report = "none"
    BY <1>8 DEF Recv, childsSide
  <2>2. CASE pipe = "whole" /\ report' = load
    <3>1. CASE load = "success"
      BY <2>1, <2>2, <3>1 DEF Outcome!Report
    <3>2. CASE load = "callback_error"
      BY <2>1, <2>2, <3>2 DEF Outcome!Report
    <3> QED
      BY <2>2, <3>1, <3>2
  <2>3. CASE ended # "no" /\ report' = "no_result"
    BY <2>1, <2>3 DEF Outcome!Report
  <2>4. ended # "no"
    BY <1>8 DEF Recv
  <2> QED
    BY <1>8, <2>2, <2>3, <2>4 DEF Recv, Return
<1>9. CASE UNCHANGED stageVars
  BY <1>9 DEF stageVars
<1> QED
  BY <1>1, <1>2, <1>3, <1>4, <1>5, <1>6, <1>7, <1>8, <1>9 DEF StageNext, Parent

(* run_isolated implements the abstract stage: a success is the callback's   *)
(* own value, a timeout comes only after the deadline, absent output is      *)
(* reported only of a callback that ended, and there is one report.          *)
THEOREM StageImplementsOutcome == StageSpec => Implements
<1>1. StageInit => Outcome!Init
  BY DEF StageInit, Outcome!Init
<1>2. StageInv /\ [StageNext]_stageVars => [Outcome!Next]_<<ended, due, report>>
  BY StepImplements
<1> QED
  BY <1>1, <1>2, StageInvariant, PTL DEF StageSpec, Implements, Outcome!Spec

-----------------------------------------------------------------------------
(* BoundedJob. *)

(* Before Popen there is neither systemd-run nor a unit, and past the last     *)
(* stop there is a reason for a unit that runs on or is still to come.         *)
UnitIsStopped ==
  /\ pc \in {"begin", "armed"} => client = None
  /\ client \in {None, "asking"} => unit.state = None
  /\ pc \in {"draining", "leaving", "over"} /\ (unit.state = "active" \/ client = "asking") => left # "no"

(* What systemd-run said is what became of the unit: it gives 0 only for a     *)
(* unit that is over, and logs it when the main process was killed.            *)
ClientTells ==
  /\ unit.main # None <=> unit.state = "over"
  /\ unit.result = "success" => unit.main \in {None, "zero", "signal"}
  /\ client = "zero" =>
       unit.state = "over" /\ unit.result = "success" /\ (logged <=> unit.main = "signal")

(* What run() concluded so far: the exit code is systemd-run's, and 0 without  *)
(* a reason, past the judgement, is the exit code of the job.                  *)
CallerKnows ==
  /\ rc # None => rc = client
  /\ pc = "judging" => rc # None
  /\ pc \in {"begin", "armed", "spawned", "poll", "waiting"} => rc = None
  /\ pc \in {"cleanup", "draining", "leaving"} /\ ~raised => rc # None
  /\ pc \in {"cleanup", "draining", "leaving"} /\ ~raised /\ reason = None /\ rc = "zero" =>
       unit.main = "zero"
  /\ pc # "over" => status = None

(* The job is stopped at the StallLimit-th sample in a row.                    *)
StallCounted == stalled = StallLimit => pc \notin {"begin", "armed", "spawned", "poll"}

IInv ==
  TypeOK /\ StallCounted /\ UnitIsStopped /\ ClientTells /\ CallerKnows /\ CompletedMeansExited

LEMMA InitEstablishes == Init => IInv
<1> SUFFICES ASSUME Init PROVE IInv
  OBVIOUS
<1> USE DEF Init, None, NoUnit, Places, Handled, InTry, InFinally, Exited
<1>1. TypeOK
  <2>1. stalled \in 0 .. StallLimit /\ signals \in 0 .. MaxSignals
    BY BoundedJobAssumption
  <2>2. unit \in [state : {None, "active", "stopping", "over"},
                  main : {None, "zero", "nonzero", "signal"}, result : {"success", "failure"}]
    OBVIOUS
  <2> QED
    BY <2>1, <2>2 DEF TypeOK
<1>2. StallCounted
  BY BoundedJobAssumption DEF StallCounted
<1>3. UnitIsStopped /\ ClientTells
  BY DEF UnitIsStopped, ClientTells
<1>4. CallerKnows /\ CompletedMeansExited
  BY DEF CallerKnows, CompletedMeansExited
<1> QED
  BY <1>1, <1>2, <1>3, <1>4 DEF IInv

-----------------------------------------------------------------------------
(* The manager's steps do not touch run(). *)

LEMMA ManagerPreserves == IInv /\ Manager => IInv'
<1> SUFFICES ASSUME IInv, Manager PROVE IInv'
  OBVIOUS
<1> USE DEF IInv, TypeOK, StallCounted, caller, None, Exited
<1>1. CASE ClientAsks
  BY <1>1 DEF ClientAsks, UnitIsStopped, ClientTells, CallerKnows, CompletedMeansExited
<1>2. CASE UnitEnds
  <2>1. TypeOK' /\ StallCounted' /\ unit'.state = "over" /\ unit'.main # None
    BY <1>2 DEF UnitEnds
  <2>2. unit'.result = "success" => unit'.main \in {"zero", "signal"}
    BY <1>2 DEF UnitEnds
  <2>3. unit.state # "over" /\ unit.main = None /\ client \notin {"zero"}
    BY <1>2 DEF UnitEnds, ClientTells
  <2>4. UnitIsStopped' /\ ClientTells'
    BY <1>2, <2>1, <2>2, <2>3 DEF UnitEnds, UnitIsStopped, ClientTells
  <2>5. CallerKnows' /\ CompletedMeansExited'
    BY <1>2, <2>3 DEF UnitEnds, CallerKnows, CompletedMeansExited
  <2> QED
    BY <2>1, <2>4, <2>5
<1>3. CASE ClientEnds
  <2>1. /\ UNCHANGED <<caller, unit, left, signals>> /\ client = "waiting" /\ unit.state = "over"
        /\ client' \in Exited /\ (client' = "zero" <=> unit.result = "success")
        /\ logged' \in BOOLEAN /\ (logged' <=> unit.main = "signal")
    BY <1>3 DEF ClientEnds
  <2>2. TypeOK' /\ StallCounted'
    BY <2>1
  <2>3. UnitIsStopped' /\ ClientTells'
    BY <2>1 DEF UnitIsStopped, ClientTells
  <2>4. CallerKnows' /\ CompletedMeansExited'
    BY <2>1 DEF CallerKnows, CompletedMeansExited
  <2> QED
    BY <2>2, <2>3, <2>4
<1>4. CASE ClientDies
  BY <1>4 DEF ClientDies, UnitIsStopped, ClientTells, CallerKnows, CompletedMeansExited
<1> QED
  BY <1>1, <1>2, <1>3, <1>4 DEF Manager

-----------------------------------------------------------------------------
(* A stop: the unit that can be stopped is on its way down, or there is a      *)
(* reason why not, and one that is still to come is noted.                     *)

LEMMA StopLeavesNothing ==
  ASSUME TypeOK, UnitIsStopped, ClientTells, Stop,
         client' = client \/ (client = None /\ client' = "asking"), UNCHANGED logged
  PROVE  /\ unit' \in [state : {None, "active", "stopping", "over"},
                        main : {None, "zero", "nonzero", "signal"}, result : {"success", "failure"}]
         /\ unit'.main = unit.main /\ unit'.result = unit.result
         /\ (unit'.state = "over" <=> unit.state = "over")
         /\ (unit'.state = None <=> unit.state = None)
         /\ left' \in {"no", "early", "failed", "interrupted"}
         /\ (unit'.state = "active" \/ client' = "asking" => left' # "no")
         /\ ClientTells'
<1> USE DEF None, TypeOK
<1>1. client' = "asking" => unit.state = None
  BY DEF UnitIsStopped
<1>2. CASE StopWorks
  <2>1. /\ unit' \in [state : {None, "stopping", "over"},
                      main : {None, "zero", "nonzero", "signal"}, result : {"success", "failure"}]
        /\ unit'.main = unit.main /\ unit'.result = unit.result
        /\ (unit'.state = "over" <=> unit.state = "over") /\ (unit'.state = None <=> unit.state = None)
    BY <1>2 DEF StopWorks
  <2>2. left' \in {"no", "early"} /\ (client' = "asking" => left' = "early")
    BY <1>1, <1>2 DEF StopWorks
  <2>3. ClientTells'
    BY <2>1 DEF ClientTells
  <2> QED
    BY <2>1, <2>2, <2>3
<1>3. CASE StopFails
  <2>1. ClientTells'
    BY <1>3 DEF StopFails, ClientTells
  <2> QED
    BY <1>3, <2>1 DEF StopFails
<1> QED
  BY <1>2, <1>3 DEF Stop

(* The steps of run() that stop nothing leave the unit and what systemd-run    *)
(* says as they are.                                                           *)
LEMMA QuietStepPreserves ==
  ASSUME IInv, \/ Prepare \/ EnterTry \/ ClientIsSeenToEnd \/ Wait \/ Judge \/ Drain \/ Leave \/ Dies
  PROVE  IInv'
<1> USE BoundedJobAssumption
    DEF IInv, TypeOK, NoStop, World, None, Exited, Places, Handled, InTry, InFinally
<1>1. CASE Prepare
  <2>1. TypeOK'
    <3>1. pc' \in Places
      BY <1>1 DEF Prepare
    <3>2. raised' \in BOOLEAN
      BY <1>1 DEF Prepare
    <3>3. UNCHANGED <<reason, stalled, rc, status, client, logged, unit, left, signals>>
      BY <1>1 DEF Prepare
    <3> QED
      BY <3>1, <3>2, <3>3
  <2>8. StallCounted'
    BY <1>1 DEF Prepare, StallCounted
  <2>2. UnitIsStopped' /\ ClientTells'
    BY <1>1 DEF Prepare, UnitIsStopped, ClientTells
  <2>3. CallerKnows' /\ CompletedMeansExited'
    BY <1>1 DEF Prepare, UnitIsStopped, ClientTells, CallerKnows, CompletedMeansExited
  <2> QED
    BY <2>1, <2>2, <2>3, <2>8
<1>2. CASE EnterTry
  <2>1. TypeOK'
    BY <1>2 DEF EnterTry
  <2>8. StallCounted'
    BY <1>2 DEF EnterTry, StallCounted
  <2>2. UnitIsStopped' /\ ClientTells'
    BY <1>2 DEF EnterTry, UnitIsStopped, ClientTells
  <2>3. CallerKnows' /\ CompletedMeansExited'
    BY <1>2 DEF EnterTry, UnitIsStopped, ClientTells, CallerKnows, CompletedMeansExited
  <2> QED
    BY <2>1, <2>2, <2>3, <2>8
<1>3. CASE ClientIsSeenToEnd
  <2>1. TypeOK'
    BY <1>3 DEF ClientIsSeenToEnd
  <2>8. StallCounted'
    BY <1>3 DEF ClientIsSeenToEnd, StallCounted
  <2>2. UnitIsStopped' /\ ClientTells'
    BY <1>3 DEF ClientIsSeenToEnd, UnitIsStopped, ClientTells
  <2>3. CallerKnows' /\ CompletedMeansExited'
    BY <1>3 DEF ClientIsSeenToEnd, UnitIsStopped, ClientTells, CallerKnows, CompletedMeansExited
  <2> QED
    BY <2>1, <2>2, <2>3, <2>8
<1>4. CASE Wait
  <2>1. TypeOK'
    <3>1. pc' \in Places /\ rc' \in {None} \union Exited
      BY <1>4 DEF Wait
    <3>2. raised' \in BOOLEAN
      BY <1>4 DEF Wait
    <3>3. UNCHANGED <<reason, stalled, status, client, logged, unit, left, signals>>
      BY <1>4 DEF Wait
    <3> QED
      BY <3>1, <3>2, <3>3
  <2>8. StallCounted'
    BY <1>4 DEF Wait, StallCounted
  <2>2. UnitIsStopped' /\ ClientTells'
    BY <1>4 DEF Wait, UnitIsStopped, ClientTells
  <2>3. CallerKnows' /\ CompletedMeansExited'
    BY <1>4 DEF Wait, UnitIsStopped, ClientTells, CallerKnows, CompletedMeansExited
  <2> QED
    BY <2>1, <2>2, <2>3, <2>8
<1>5. CASE Judge
  <2>1. TypeOK'
    <3>1. pc' \in Places /\ reason' \in {None, "pressure", "result", "signal"}
      BY <1>5 DEF Judge
    <3>2. raised' \in BOOLEAN
      BY <1>5 DEF Judge
    <3>3. UNCHANGED <<stalled, rc, status, client, logged, unit, left, signals>>
      BY <1>5 DEF Judge
    <3> QED
      BY <3>1, <3>2, <3>3
  <2>8. StallCounted'
    BY <1>5 DEF Judge, StallCounted
  <2>4. UnitIsStopped' /\ ClientTells'
    BY <1>5 DEF Judge, UnitIsStopped, ClientTells
  <2>2. ~raised' /\ reason' = None /\ rc = "zero" => unit.main = "zero"
    BY <1>5 DEF Judge, ClientTells, CallerKnows, ShowsKill
  <2>3. CallerKnows' /\ CompletedMeansExited'
    BY <1>5, <2>2 DEF Judge, CallerKnows, CompletedMeansExited
  <2> QED
    BY <2>1, <2>3, <2>4, <2>8
<1>6. CASE Drain
  <2>1. TypeOK'
    <3>1. pc' \in Places
      BY <1>6 DEF Drain
    <3>2. raised' \in BOOLEAN
      BY <1>6 DEF Drain
    <3>3. UNCHANGED <<reason, stalled, rc, status, client, logged, unit, left, signals>>
      BY <1>6 DEF Drain
    <3> QED
      BY <3>1, <3>2, <3>3
  <2>8. StallCounted'
    BY <1>6 DEF Drain, StallCounted
  <2>2. UnitIsStopped' /\ ClientTells'
    BY <1>6 DEF Drain, UnitIsStopped, ClientTells
  <2>3. CallerKnows' /\ CompletedMeansExited'
    BY <1>6 DEF Drain, UnitIsStopped, ClientTells, CallerKnows, CompletedMeansExited
  <2> QED
    BY <2>1, <2>2, <2>3, <2>8
<1>7. CASE Leave
  <2>1. TypeOK'
    BY <1>7 DEF Leave
  <2>8. StallCounted'
    BY <1>7 DEF Leave, StallCounted
  <2>2. UnitIsStopped' /\ ClientTells'
    BY <1>7 DEF Leave, UnitIsStopped, ClientTells
  <2>3. CallerKnows' /\ CompletedMeansExited'
    BY <1>7 DEF Leave, UnitIsStopped, ClientTells, CallerKnows, CompletedMeansExited
  <2> QED
    BY <2>1, <2>2, <2>3, <2>8
<1>8. CASE Dies
  <2>1. TypeOK'
    BY <1>8 DEF Dies, Signalled
  <2>8. StallCounted'
    BY <1>8 DEF Dies, StallCounted, Signalled
  <2>2. UnitIsStopped' /\ ClientTells'
    BY <1>8 DEF Dies, UnitIsStopped, ClientTells, Signalled
  <2>3. CallerKnows' /\ CompletedMeansExited'
    BY <1>8 DEF Dies, UnitIsStopped, ClientTells, CallerKnows, CompletedMeansExited, Signalled
  <2> QED
    BY <2>1, <2>2, <2>3, <2>8
<1> QED
  BY <1>1, <1>2, <1>3, <1>4, <1>5, <1>6, <1>7, <1>8

LEMMA StoppingStepPreserves ==
  ASSUME IInv, Popen \/ Sample \/ Cleanup \/ Terminate \/ Interrupt
  PROVE  IInv'
<1> USE BoundedJobAssumption
    DEF IInv, TypeOK, World, None, Exited, Places, Handled, InTry, InFinally
<1>1. CASE Popen
  <2>1. TypeOK'
    <3>1. pc' \in Places /\ client' \in {None, "asking", "waiting"} \union Exited
      BY <1>1 DEF Popen
    <3>2. raised' \in BOOLEAN
      BY <1>1 DEF Popen
    <3>3. UNCHANGED <<reason, stalled, rc, status, logged, unit, left, signals>>
      BY <1>1 DEF Popen, NoStop
    <3> QED
      BY <3>1, <3>2, <3>3
  <2>8. StallCounted'
    BY <1>1 DEF Popen, StallCounted, NoStop
  <2>2. UnitIsStopped' /\ ClientTells'
    BY <1>1 DEF Popen, UnitIsStopped, ClientTells, NoStop
  <2>3. CallerKnows' /\ CompletedMeansExited'
    BY <1>1 DEF Popen, UnitIsStopped, ClientTells, CallerKnows, CompletedMeansExited, NoStop
  <2> QED
    BY <2>1, <2>2, <2>3, <2>8
<1>2. CASE Sample /\ NoStop
  <2>1. TypeOK'
    <3>1. pc' \in Places /\ reason' \in {None, "pressure", "result", "signal"}
      BY <1>2 DEF Sample
    <3>2. stalled' \in 0 .. StallLimit
      BY <1>2 DEF Sample
    <3>3. raised' \in BOOLEAN
      BY <1>2 DEF Sample
    <3>4. UNCHANGED <<rc, status, client, logged, unit, left, signals>>
      BY <1>2 DEF Sample, NoStop
    <3> QED
      BY <3>1, <3>2, <3>3, <3>4
  <2>8. StallCounted'
    BY <1>2 DEF Sample, StallCounted, NoStop
  <2>2. UnitIsStopped' /\ ClientTells'
    BY <1>2 DEF Sample, UnitIsStopped, ClientTells, NoStop
  <2>3. CallerKnows' /\ CompletedMeansExited'
    BY <1>2 DEF Sample, UnitIsStopped, ClientTells, CallerKnows, CompletedMeansExited, NoStop
  <2> QED
    BY <2>1, <2>2, <2>3, <2>8
<1>3. CASE Sample /\ Stop
  <2>1. UNCHANGED <<client, logged>>
    BY <1>3 DEF Sample
  <2>4. TypeOK'
    <3>1. pc' \in Places /\ reason' \in {None, "pressure", "result", "signal"}
      BY <1>3 DEF Sample
    <3>2. stalled' \in 0 .. StallLimit
      BY <1>3 DEF Sample
    <3>3. raised' \in BOOLEAN
      BY <1>3 DEF Sample
    <3>4. UNCHANGED <<rc, status, client, logged, signals>>
      BY <1>3 DEF Sample
    <3>5. left' \in {"no", "early", "failed", "interrupted"} /\ unit' \in [state : {None, "active", "stopping", "over"},
              main : {None, "zero", "nonzero", "signal"}, result : {"success", "failure"}]
      BY <1>3, <2>1, StopLeavesNothing
    <3> QED
      BY <3>1, <3>2, <3>3, <3>4, <3>5
  <2>8. StallCounted'
    BY <1>3, <2>1, StopLeavesNothing DEF Sample, StallCounted
  <2>2. UnitIsStopped' /\ ClientTells'
    BY <1>3, <2>1, StopLeavesNothing DEF Sample, UnitIsStopped
  <2>3. CallerKnows' /\ CompletedMeansExited'
    BY <1>3, <2>1, StopLeavesNothing DEF Sample, CallerKnows, CompletedMeansExited
  <2> QED
    BY <2>2, <2>3, <2>4, <2>8
<1>4. CASE Cleanup
  <2>1. UNCHANGED <<client, logged>> /\ Stop
    BY <1>4 DEF Cleanup
  <2>4. TypeOK'
    BY <1>4, <2>1, StopLeavesNothing DEF Cleanup
  <2>8. StallCounted'
    BY <1>4, <2>1, StopLeavesNothing DEF Cleanup, StallCounted
  <2>2. UnitIsStopped' /\ ClientTells'
    BY <1>4, <2>1, StopLeavesNothing DEF Cleanup, UnitIsStopped
  <2>3. CallerKnows' /\ CompletedMeansExited'
    BY <1>4, <2>1, StopLeavesNothing DEF Cleanup, CallerKnows, CompletedMeansExited
  <2> QED
    BY <2>2, <2>3, <2>4, <2>8
<1>5. CASE Terminate
  <2>1. UNCHANGED logged /\ Stop /\ (client' = client \/ (client = None /\ client' = "asking"))
    BY <1>5 DEF Terminate, Forked, UnitIsStopped
  <2>4. TypeOK'
    BY <1>5, <2>1, StopLeavesNothing DEF Terminate, Signalled
  <2>8. StallCounted'
    BY <1>5, <2>1, StopLeavesNothing DEF Terminate, StallCounted, Signalled
  <2>2. UnitIsStopped' /\ ClientTells'
    BY <1>5, <2>1, StopLeavesNothing DEF Terminate, UnitIsStopped, Signalled
  <2>3. CallerKnows' /\ CompletedMeansExited'
    BY <1>5, <2>1, StopLeavesNothing DEF Terminate, Signalled, CallerKnows, CompletedMeansExited
  <2> QED
    BY <2>2, <2>3, <2>4, <2>8
<1>7. CASE Interrupt
  <2>1. /\ UNCHANGED <<logged, unit>> /\ left' \in {"no", "early", "failed", "interrupted"}
        /\ client' = client \/ (client = None /\ client' = "asking" /\ left' = "interrupted")
    BY <1>7 DEF Interrupt, Forked, UnitIsStopped
  <2>2. pc' \in {"cleanup", "leaving"} /\ raised' = TRUE /\ signals' \in 0 .. MaxSignals
        /\ UNCHANGED <<reason, stalled, rc, status>>
    BY <1>7 DEF Interrupt, Signalled
  <2>4. TypeOK'
    BY <2>1, <2>2
  <2>8. StallCounted'
    BY <2>2 DEF StallCounted
  <2>3. UnitIsStopped'
    BY <1>7, <2>1 DEF Interrupt, UnitIsStopped
  <2>5. ClientTells'
    BY <2>1 DEF ClientTells
  <2>6. CallerKnows' /\ CompletedMeansExited'
    <3>1. rc # None => rc' = client'
      BY <2>1, <2>2 DEF CallerKnows
    <3> QED
      BY <1>7, <2>1, <2>2, <3>1 DEF Interrupt, CallerKnows, CompletedMeansExited
  <2> QED
    BY <2>3, <2>4, <2>5, <2>6, <2>8
<1>6. Sample => NoStop \/ Stop
  BY DEF Sample
<1> QED
  BY <1>1, <1>2, <1>3, <1>4, <1>5, <1>6, <1>7

LEMMA StutterPreserves == IInv /\ UNCHANGED vars => IInv'
  BY DEF vars, caller, IInv, TypeOK, StallCounted, UnitIsStopped, ClientTells, CallerKnows, CompletedMeansExited

LEMMA BoundedInvariant == Spec => []IInv
<1>1. Init => IInv
  BY InitEstablishes
<1>2. IInv /\ [Next]_vars => IInv'
  BY ManagerPreserves, QuietStepPreserves, StoppingStepPreserves, StutterPreserves
  DEF Next, Caller
<1> QED
  BY <1>1, <1>2, PTL DEF Spec

-----------------------------------------------------------------------------
(* Every state of run(), of systemd-run and of the unit is one of those named  *)
(* in BoundedJob, and a job is stopped at the StallLimit-th sample in a row.   *)
THEOREM BoundedTyped == Spec => []TypeOK
<1>1. IInv => TypeOK
  BY DEF IInv
<1> QED
  BY BoundedInvariant, <1>1, PTL

(* Whatever fails or is signalled, run() is not over while its unit runs on,   *)
(* unless systemd-run had not asked for the unit at the last stop, that stop   *)
(* failed, or Ctrl-C came where run() has no stop left to make.                *)
THEOREM NoUnitIsLeft == Spec => []NoUnitLeft
<1>1. IInv => NoUnitLeft
  BY DEF IInv, UnitIsStopped, NoUnitLeft
<1> QED
  BY BoundedInvariant, <1>1, PTL

(* A status file with exit code 0 is the job's own exit code 0, although the   *)
(* manager calls a unit that was stopped a success.                            *)
THEOREM CompletedJobExited == Spec => []CompletedMeansExited
<1>1. IInv => CompletedMeansExited
  BY DEF IInv
<1> QED
  BY BoundedInvariant, <1>1, PTL
=============================================================================
