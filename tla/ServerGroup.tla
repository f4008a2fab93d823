----------------------------- MODULE ServerGroup -----------------------------
(***************************************************************************)
(* One inference server after another, each started for one block of       *)
(* measurements and stopped at its end: serve, _wait_healthy and _running  *)
(* of boltbeam/adapters/llama_server_control.py.  A server leads a process *)
(* group of its own and may have a worker in it (vLLM's engine); other     *)
(* programs may take its port, and an interrupt (SIGINT, or SIGTERM turned *)
(* into KeyboardInterrupt) may strike the controller between any two steps.*)
(***************************************************************************)
EXTENDS Naturals

CONSTANT NBlocks  \* servers started one after another

ASSUME BlocksAssumption == NBlocks \in Nat \ {0}

Blocks == 1..NBlocks

VARIABLES
  pc,      \* the controller's place in _running
  b,       \* the block in hand
  leader,  \* leader[k]: "none", "loading", "serving" or "exited"
  worker,  \* blocks whose worker process runs
  port,    \* who answers /health on b's port: "nobody", "server" or "other"
  termed,  \* groups sent SIGTERM
  killed,  \* groups sent SIGKILL
  late,    \* stop_timeout_s has passed since the SIGTERM
  why      \* why[k], history: what may leave processes of block k behind

vars == <<pc, b, leader, worker, port, termed, killed, late, why>>

Reasons == {"leader died", "deadline", "interrupted", "unkillable"}
Because(k, r) == why' = [why EXCEPT ![k] = @ \cup {r}]
Goto(from, to) == pc = from /\ pc' = to
Runs(k) == leader[k] \in {"loading", "serving"}

Init ==
  /\ pc = "free port" /\ b = 1
  /\ leader = [k \in Blocks |-> "none"] /\ worker = {} /\ port = "nobody"
  /\ termed = {} /\ killed = {} /\ late = FALSE
  /\ why = [k \in Blocks |-> {}]

-----------------------------------------------------------------------------
(* serve: _free_port binds port 0, reads the number and closes the socket.   *)
FreePort ==
  /\ Goto("free port", "popen")
  /\ port' = "nobody" /\ late' = FALSE
  /\ UNCHANGED <<b, leader, worker, termed, killed, why>>

Popen ==
  /\ Goto("popen", "born")
  /\ leader' = [leader EXCEPT ![b] = "loading"]
  /\ UNCHANGED <<b, worker, port, termed, killed, late, why>>

EnterTry ==
  /\ Goto("born", "health")
  /\ UNCHANGED <<b, leader, worker, port, termed, killed, late, why>>

(* _wait_healthy: poll the leader, then ask /health, until the deadline; any *)
(* answer but 200 within a second, and no answer, go round again.            *)
HealthPoll ==
  /\ pc = "health"
  /\ pc' = IF Runs(b) THEN "ask" ELSE "finally"
  /\ UNCHANGED <<b, leader, worker, port, termed, killed, late, why>>

HealthAsk ==
  /\ pc = "ask"
  /\ pc' \in {"health", "block"}
  /\ pc' = "block" => port # "nobody"
  /\ UNCHANGED <<b, leader, worker, port, termed, killed, late, why>>

HealthTimeout ==
  /\ Goto("health", "finally")
  /\ UNCHANGED <<b, leader, worker, port, termed, killed, late, why>>

(* The block returns or raises.                                              *)
BlockEnds ==
  /\ Goto("block", "finally")
  /\ UNCHANGED <<b, leader, worker, port, termed, killed, late, why>>

(* finally: nothing is signalled when the leader is gone already.            *)
Terminate ==
  /\ pc = "finally"
  /\ IF Runs(b)
     THEN pc' = "wait" /\ termed' = termed \cup {b}
     ELSE pc' = "out" /\ UNCHANGED termed
  /\ UNCHANGED <<b, leader, worker, port, killed, late, why>>

WaitReturns ==
  /\ Goto("wait", "drain") /\ ~Runs(b)
  /\ UNCHANGED <<b, leader, worker, port, termed, killed, late, why>>

(* Mutant: process.wait() without a timeout.                                 *)
WaitNoTimeout == FALSE

WaitTimeout ==
  /\ Goto("wait", "reap") /\ Runs(b)
  /\ late' = TRUE
  /\ killed' = killed \cup {b}
  /\ Because(b, "deadline")
  /\ UNCHANGED <<b, leader, worker, port, termed>>

(* process.wait(timeout=5) after SIGKILL; a process the kernel cannot end    *)
(* (stuck in a driver) makes it raise out of the finally clause.             *)
ReapReturns ==
  /\ Goto("reap", "drain") /\ ~Runs(b)
  /\ UNCHANGED <<b, leader, worker, port, termed, killed, late, why>>

ReapTimeout ==
  /\ Goto("reap", "out") /\ Runs(b)
  /\ Because(b, "unkillable")
  /\ UNCHANGED <<b, leader, worker, port, termed, killed, late>>

(* Mutant: the group is not waited for once its leader has gone.             *)
DrainSkipped ==
  /\ Goto("drain", "out")
  /\ UNCHANGED <<b, leader, worker, port, termed, killed, late, why>>

(* The group is polled with signal 0 until it is empty or the deadline.      *)
DrainEnds ==
  /\ Goto("drain", "out")
  /\ late \/ b \notin worker
  /\ UNCHANGED <<b, leader, worker, port, termed, killed, late, why>>

DeadlinePasses ==
  /\ pc = "drain" /\ ~late
  /\ late' = TRUE
  /\ Because(b, "deadline")
  /\ UNCHANGED <<pc, b, leader, worker, port, termed, killed>>

(* Mutant: one server too many.                                              *)
NextBlockPastLast ==
  /\ Goto("out", "free port") /\ b <= NBlocks
  /\ b' = b + 1
  /\ UNCHANGED <<leader, worker, port, termed, killed, late, why>>

(* The caller goes on to its next server, also after an exception it caught. *)
NextBlock ==
  /\ Goto("out", "free port") /\ b < NBlocks
  /\ b' = b + 1
  /\ UNCHANGED <<leader, worker, port, termed, killed, late, why>>

(* An exception out of thin air: inside the try it runs the finally clause,  *)
(* elsewhere it leaves the function.                                         *)
Interrupt ==
  /\ pc \in {"popen", "born", "health", "ask", "block", "finally", "wait", "reap", "drain"}
  /\ pc' = IF pc \in {"health", "ask", "block"} THEN "finally" ELSE "out"
  /\ IF pc \in {"health", "ask", "block"} THEN UNCHANGED why ELSE Because(b, "interrupted")
  /\ UNCHANGED <<b, leader, worker, port, termed, killed, late>>

-----------------------------------------------------------------------------
(* The servers and the rest of the machine.                                  *)
OtherTakesPort ==
  /\ pc \in {"popen", "born", "health", "ask"} /\ port = "nobody"
  /\ port' = "other"
  /\ UNCHANGED <<pc, b, leader, worker, termed, killed, late, why>>

ServerListens ==
  /\ leader[b] = "loading" /\ port = "nobody" /\ pc # "out"
  /\ leader' = [leader EXCEPT ![b] = "serving"] /\ port' = "server"
  /\ UNCHANGED <<pc, b, worker, termed, killed, late, why>>

ServerForksWorker ==
  /\ leader[b] = "loading" /\ b \notin worker
  /\ worker' = worker \cup {b}
  /\ UNCHANGED <<pc, b, leader, port, termed, killed, late, why>>

(* A leader ends by itself (a port it cannot bind, a crash) or is signalled. *)
LeaderExits(k) ==
  /\ Runs(k)
  /\ leader' = [leader EXCEPT ![k] = "exited"]
  /\ port' = IF k = b /\ port = "server" THEN "nobody" ELSE port
  /\ IF k \in termed THEN UNCHANGED why ELSE Because(k, "leader died")
  /\ UNCHANGED <<pc, b, worker, termed, killed, late>>

(* A worker exits when told to, or once it sees that its leader is gone.     *)
WorkerExits(k) ==
  /\ k \in worker /\ (k \in termed \/ ~Runs(k))
  /\ worker' = worker \ {k}
  /\ UNCHANGED <<pc, b, leader, port, termed, killed, late, why>>

(* SIGKILL takes the whole group.                                            *)
GroupKilled(k) ==
  /\ k \in killed /\ (Runs(k) \/ k \in worker)
  /\ leader' = [leader EXCEPT ![k] = "exited"] /\ worker' = worker \ {k}
  /\ port' = IF k = b /\ port = "server" THEN "nobody" ELSE port
  /\ UNCHANGED <<pc, b, termed, killed, late, why>>

Controller ==
  \/ FreePort \/ Popen \/ EnterTry \/ HealthPoll \/ HealthAsk \/ HealthTimeout \/ BlockEnds
  \/ Terminate \/ WaitReturns \/ WaitTimeout \/ ReapReturns \/ ReapTimeout
  \/ DrainEnds \/ DeadlinePasses \/ NextBlock

Machine ==
  \/ OtherTakesPort \/ ServerListens \/ ServerForksWorker
  \/ \E k \in Blocks : LeaderExits(k) \/ WorkerExits(k) \/ GroupKilled(k)

Next == Controller \/ Interrupt \/ Machine

Spec == Init /\ [][Next]_vars

(* The controller is one thread that the kernel schedules, and its waits all *)
(* have a timeout.  The servers promise nothing.                             *)
FairSpec == Spec /\ WF_vars(Terminate \/ WaitReturns \/ WaitTimeout \/ ReapReturns \/ ReapTimeout
                            \/ DrainEnds \/ DeadlinePasses)

-----------------------------------------------------------------------------
TypeOK ==
  /\ pc \in {"free port", "popen", "born", "health", "ask", "block", "finally", "wait", "reap", "drain", "out"}
  /\ b \in Blocks
  /\ leader \in [Blocks -> {"none", "loading", "serving", "exited"}]
  /\ worker \subseteq Blocks /\ termed \subseteq Blocks /\ killed \subseteq Blocks
  /\ port \in {"nobody", "server", "other"}
  /\ late \in BOOLEAN
  /\ why \in [Blocks -> SUBSET Reasons]

(* The block k is over.                                                      *)
Over(k) == k < b \/ (k = b /\ pc = "out")

(* lines 156-168: once a block is over, its leader runs on only when an      *)
(* interrupt cut the cleanup short or the kernel could not end it, and its   *)
(* worker only when the leader had died by itself, or the worker ignored     *)
(* SIGTERM until the deadline.                                               *)
SurvivorsExplained ==
  \A k \in Blocks : Over(k) =>
    /\ Runs(k) => why[k] \cap {"interrupted", "unkillable"} # {}
    /\ k \in worker => why[k] # {}

(* Every cleanup ends, whatever the server does.                             *)
CleanupEnds == pc = "finally" ~> pc = "out"

=============================================================================
