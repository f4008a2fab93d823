---------------------------- MODULE BoundedJob -----------------------------
(* Memory-heavy work in a service of the system manager:                       *)
(* boltbeam/runtime/bounded_job.py.                                            *)
(*                                                                             *)
(* The job's process is not a child of the program: the program starts         *)
(* systemd-run, which asks the system manager for a transient unit and waits   *)
(* for its end. A signal to the program's process group therefore does not     *)
(* reach the job, and every way out of run() has to stop the unit by name:     *)
(* the normal end, a failed sample, memory pressure, Ctrl-C, and SIGTERM, whose *)
(* handler stops the unit and raises. The stop itself may fail unnoticed. The  *)
(* manager, systemd-run and the job are modelled by what run() relies on.      *)
EXTENDS Naturals

CONSTANTS
  StallLimit, \* samples in a row under memory pressure that stop the job
  MaxSignals  \* bound: SIGTERMs and Ctrl-Cs sent to the process group

ASSUME BoundedJobAssumption == StallLimit \in Nat \ {0} /\ MaxSignals \in Nat

VARIABLES
  pc,      \* where run() is
  raised,  \* an exception is on its way out of run()
  reason,  \* failure_reason so far
  stalled, \* samples in a row under memory pressure
  rc,      \* the exit code systemd-run gave
  status,  \* the exit code of the status file, None when it is not written
  client,  \* systemd-run
  logged,  \* systemd-run logged that the main process was killed
  unit,    \* the service: its state, how its main process ended, its Result
  left,    \* history: why a unit may run on, "no" after a stop that worked
  signals  \* SIGTERMs and Ctrl-Cs sent

caller == <<pc, raised, reason, stalled, rc, status>>
vars == <<caller, client, logged, unit, left, signals>>

None == "none"

\* the states of run(): "begin" before the SIGTERM handler is installed,
\* "armed" and "spawned" before and after Popen, both outside the try block,
\* "poll", "waiting" and "judging" inside it, "cleanup" and "draining" in its
\* finally, "leaving" once the handler is restored
InTry == {"poll", "waiting", "judging"}
InFinally == {"cleanup", "draining"}
Handled == {"armed", "spawned"} \union InTry \union InFinally
Places == {"begin", "leaving", "over"} \union Handled

\* systemd-run is over, with exit code 0 or another
Exited == {"zero", "nonzero"}

TypeOK ==
  /\ pc \in Places /\ raised \in BOOLEAN /\ stalled \in 0 .. StallLimit
  /\ reason \in {None, "pressure", "result", "signal"}
  /\ rc \in {None} \union Exited /\ status \in {None} \union Exited
  /\ client \in {None, "asking", "waiting"} \union Exited /\ logged \in BOOLEAN
  /\ unit \in [state : {None, "active", "stopping", "over"},
               main : {None, "zero", "nonzero", "signal"}, result : {"success", "failure"}]
  /\ left \in {"no", "early", "failed", "interrupted"} /\ signals \in 0 .. MaxSignals

NoUnit == [state |-> None, main |-> None, result |-> "success"]

Init ==
  /\ pc = "begin" /\ raised = FALSE /\ reason = None /\ stalled = 0
  /\ rc = None /\ status = None
  /\ client = None /\ logged = FALSE /\ unit = NoUnit
  /\ left = "no" /\ signals = 0

-----------------------------------------------------------------------------
(* systemd-run, the system manager and the job. *)

ClientAsks ==
  /\ client = "asking"
  /\ client' = "waiting" /\ unit' = [unit EXCEPT !.state = "active"]
  /\ UNCHANGED <<caller, logged, left, signals>>

\* the main process exits, is killed for its memory, or runs out of time; one
\* that is stopped, by run() or by hand, dies of SIGTERM, which the manager calls
\* a success, or of SIGKILL, or exits at the same time
UnitEnds ==
  /\ unit.state \in {"active", "stopping"}
  /\ unit' \in [state : {"over"}, main : {"zero"}, result : {"success"}]
       \union [state : {"over"}, main : {"nonzero", "signal"}, result : {"failure"}]
       \union [state : {"over"}, main : {"signal"}, result : {"success"}]
  /\ UNCHANGED <<caller, client, logged, left, signals>>

ClientEnds ==
  /\ client = "waiting" /\ unit.state = "over"
  /\ client' = IF unit.result = "success" THEN "zero" ELSE "nonzero"
  /\ logged' = (unit.main = "signal")
  /\ UNCHANGED <<caller, unit, left, signals>>

\* systemd-run, which is in the program's process group, may die before its unit
ClientDies ==
  /\ client \in {"asking", "waiting"}
  /\ client' = "nonzero"
  /\ UNCHANGED <<caller, logged, unit, left, signals>>

-----------------------------------------------------------------------------
(* run(). *)

\* stop(unit): without effect while there is no such unit; systemctl may be
\* refused, which nobody looks at, or not answer in time
StopWorks ==
  /\ unit' = [unit EXCEPT !.state = IF @ = "active" THEN "stopping" ELSE @]
  /\ left' = IF unit.state = None /\ client' = "asking" THEN "early" ELSE "no"

StopFails == left' = "failed" /\ UNCHANGED unit

Stop == StopWorks \/ StopFails

NoStop == UNCHANGED <<unit, left>>
World == UNCHANGED <<client, logged, signals>>

\* memory_budget or prepare_slice may refuse; nothing was started
Prepare ==
  /\ pc = "begin"
  /\ \/ pc' = "armed" /\ raised' = raised
     \/ pc' = "over" /\ raised' = TRUE
  /\ UNCHANGED <<reason, stalled, rc, status>> /\ NoStop /\ World

Popen ==
  /\ pc = "armed"
  /\ \/ pc' = "spawned" /\ client' = "asking" /\ raised' = raised
     \/ pc' = "leaving" /\ raised' = TRUE /\ client' = client
  /\ UNCHANGED <<reason, stalled, rc, status, logged, signals>> /\ NoStop

EnterTry ==
  /\ pc = "spawned" /\ pc' = "poll"
  /\ UNCHANGED <<raised, reason, stalled, rc, status>> /\ NoStop /\ World

ClientIsSeenToEnd ==
  /\ pc = "poll" /\ client \in Exited
  /\ pc' = "waiting"
  /\ UNCHANGED <<raised, reason, stalled, rc, status>> /\ NoStop /\ World

(* Mutant: the job is stopped one sample too late. *)
SampleLate ==
  /\ pc = "poll" /\ client \notin Exited /\ World
  /\ \/ /\ stalled' \in {0, stalled}
        /\ UNCHANGED <<pc, raised, reason>> /\ NoStop
     \/ /\ unit.state \in {"active", "stopping"} /\ stalled < StallLimit
        /\ stalled' = stalled + 1
        /\ UNCHANGED <<pc, raised, reason>> /\ NoStop
     \/ /\ unit.state \in {"active", "stopping"} /\ stalled = StallLimit
        /\ stalled' = stalled + 1
        /\ reason' = "pressure" /\ Stop
        /\ \/ pc' = "waiting" /\ raised' = raised
           \/ pc' = "cleanup" /\ raised' = TRUE
     \/ /\ pc' = "cleanup" /\ raised' = TRUE
        /\ UNCHANGED <<stalled, reason>> /\ NoStop
  /\ UNCHANGED <<rc, status>>

\* one sample: no control group to read, no pressure, pressure, or a failed read
Sample ==
  /\ pc = "poll" /\ client \notin Exited /\ World
  /\ \/ /\ stalled' \in {0, stalled}
        /\ UNCHANGED <<pc, raised, reason>> /\ NoStop
     \/ /\ unit.state \in {"active", "stopping"} /\ stalled + 1 < StallLimit
        /\ stalled' = stalled + 1
        /\ UNCHANGED <<pc, raised, reason>> /\ NoStop
     \/ /\ unit.state \in {"active", "stopping"} /\ stalled + 1 = StallLimit
        /\ stalled' = stalled + 1
        /\ reason' = "pressure" /\ Stop
        /\ \/ pc' = "waiting" /\ raised' = raised
           \/ pc' = "cleanup" /\ raised' = TRUE
     \/ /\ pc' = "cleanup" /\ raised' = TRUE
        /\ UNCHANGED <<stalled, reason>> /\ NoStop
  /\ UNCHANGED <<rc, status>>

\* process.wait(timeout=15)
Wait ==
  /\ pc = "waiting"
  /\ \/ /\ client \in Exited /\ rc' = client
        /\ pc' = "judging" /\ raised' = raised
     \/ client \notin Exited /\ rc' = rc /\ pc' = "cleanup" /\ raised' = TRUE
  /\ UNCHANGED <<reason, stalled, status>> /\ NoStop /\ World

\* what the unit's properties tell; a unit that succeeded may be unloaded by now
ShowsKill == unit.state = "over" /\ unit.main = "signal"

(* Mutant: only the unit's own properties tell that it was killed. *)
JudgeByUnit ==
  /\ pc = "judging" /\ pc' = "cleanup"
  /\ \/ /\ raised' = raised
        /\ \E shown \in {FALSE, ShowsKill} :
             reason' = IF reason # None THEN reason
                       ELSE IF rc # "zero" THEN "result"
                       ELSE IF shown THEN "signal" ELSE None
     \/ raised' = TRUE /\ reason' = reason
  /\ UNCHANGED <<stalled, rc, status>> /\ NoStop /\ World

\* systemctl show, which may fail, then the log
Judge ==
  /\ pc = "judging" /\ pc' = "cleanup"
  /\ \/ /\ raised' = raised
        /\ \E shown \in {FALSE, ShowsKill} :
             reason' = IF reason # None THEN reason
                       ELSE IF rc # "zero" THEN "result"
                       ELSE IF shown \/ logged THEN "signal" ELSE None
     \/ raised' = TRUE /\ reason' = reason
  /\ UNCHANGED <<stalled, rc, status>> /\ NoStop /\ World

(* Mutant: the finally block leaves the stop to the signal handler. *)
CleanupWaits ==
  /\ pc = "cleanup" /\ NoStop
  /\ pc' = "draining" /\ raised' = raised
  /\ UNCHANGED <<reason, stalled, rc, status>> /\ World

\* the finally block: stop, which may time out, then wait for systemd-run
Cleanup ==
  /\ pc = "cleanup" /\ World /\ Stop
  /\ \/ pc' = "draining" /\ raised' = raised
     \/ pc' = "leaving" /\ raised' = TRUE
  /\ UNCHANGED <<reason, stalled, rc, status>>

Drain ==
  /\ pc = "draining" /\ pc' = "leaving"
  /\ raised' \in (IF client \in Exited THEN {raised} ELSE {raised, TRUE})
  /\ UNCHANGED <<reason, stalled, rc, status>> /\ NoStop /\ World

\* the status file is written when nothing was raised
Leave ==
  /\ pc = "leaving" /\ pc' = "over"
  /\ status' = IF raised THEN None ELSE IF reason = None THEN rc ELSE "nonzero"
  /\ UNCHANGED <<raised, reason, stalled, rc>> /\ NoStop /\ World

-----------------------------------------------------------------------------
(* SIGTERM: the terminal program stops a job by its process group. Ctrl-C      *)
(* comes from a terminal.                                                      *)

Signalled == signals < MaxSignals /\ signals' = signals + 1

\* an exception in the middle of Popen leaves a systemd-run it had started
Forked == client' \in (IF pc = "armed" THEN {None, "asking"} ELSE {client})

\* cancelled_by_term: the handler stops the unit and raises where run() is
Terminate ==
  /\ Signalled /\ pc \in Handled
  /\ Forked /\ Stop
  /\ raised' = TRUE /\ pc' = IF pc \in InTry THEN "cleanup" ELSE "leaving"
  /\ UNCHANGED <<reason, stalled, rc, status, logged>>

\* Ctrl-C raises where run() is: only inside the try block is there a stop to
\* come, and one in the finally block may come before the stop is asked
Interrupt ==
  /\ Signalled /\ pc \in Handled
  /\ Forked /\ UNCHANGED unit
  /\ left' = IF pc \in {"armed", "spawned", "cleanup"} THEN "interrupted" ELSE left
  /\ raised' = TRUE /\ pc' = IF pc \in InTry THEN "cleanup" ELSE "leaving"
  /\ UNCHANGED <<reason, stalled, rc, status, logged>>

\* without the handler either signal ends the program
Dies ==
  /\ Signalled /\ pc \in {"begin", "leaving"}
  /\ pc' = "over" /\ raised' = TRUE
  /\ UNCHANGED <<reason, stalled, rc, status, client, logged>> /\ NoStop

Caller ==
  \/ Prepare \/ Popen \/ EnterTry \/ ClientIsSeenToEnd \/ Sample \/ Wait
  \/ Judge \/ Cleanup \/ Drain \/ Leave

Manager == ClientAsks \/ UnitEnds \/ ClientEnds \/ ClientDies

Next == Caller \/ Manager \/ Terminate \/ Interrupt \/ Dies

Spec == Init /\ [][Next]_vars

-----------------------------------------------------------------------------
(* What run() promises. *)

\* When run() is over its unit is not running on, unless the last stop came
\* before systemd-run had asked for the unit, or failed (stop() does not look at
\* what systemctl says, bounded_job.py:55-56), or Ctrl-C came where no stop is
\* left to come: between the handler and the try block (:89-91) or in the finally
\* block before its stop (:150-152). So each of the handler, the pressure rule and
\* the finally block has to stop it, wherever the others were cut short.
NoUnitLeft == pc = "over" /\ unit.state = "active" => left # "no"

\* A status of 0 says the job's main process itself exited 0: one that was
\* stopped or killed, which the manager may call a success, never reads as a
\* completed benchmark (bounded_job.py:131-146).
CompletedMeansExited == status = "zero" => unit.main = "zero"
=============================================================================
