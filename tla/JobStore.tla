------------------------------ MODULE JobStore ------------------------------
(***************************************************************************)
(* The TUI's job store (tui/internal/jobs/jobs.go) under the commands of   *)
(* tui/internal/ui/model.go that call it.  A bubbletea command runs on a   *)
(* goroutine of its own, and several TUIs may share one state folder, so   *)
(* each call is split where another command, another TUI or the kernel can *)
(* come in between: the scan of Alive, the Status read, the fork, the      *)
(* write of <id>.json, and the signal of Stop.                             *)
(***************************************************************************)
EXTENDS Naturals, FiniteSets

CONSTANTS Tuis,     \* TUI processes that share the state folder
          Agents,   \* "boltbeam-tui --json" processes: one command, then exit
          Slots,    \* commands one process may have in flight
          Ids,      \* job ids, which are the names of run folders
          Pids,     \* the kernel's process ids: few, so that they are reused
          NoPid,    \* no (readable) job file
          NoId,     \* the job of an idle command
          Stranger, \* owner of a process that no job store started
          Init1     \* pid 1, the parent of the orphans

Callers == Tuis \cup Agents
Commands == Callers \X Slots

ASSUME ConstantsAssumption ==
  /\ NoPid \notin Pids
  /\ Stranger \notin Ids
  /\ Init1 \notin Callers
  /\ Tuis \cap Agents = {}

VARIABLES
  up,      \* the TUI and agent processes that are running
  file,    \* file[id]: the pid in <id>.json, NoPid when absent or not JSON
  st,      \* st[p]: "free", "running" or "zombie" in the process table
  owner,   \* owner[p]: the job p was forked for, or Stranger
  parent,  \* parent[p]: the caller that must wait for p, or pid 1
  waited,  \* children some "go cmd.Wait()" waits for
  term,    \* processes with a SIGTERM delivered
  pc,      \* pc[c]: where command c stands
  job,     \* job[c]: the id command c is about
  todo,    \* todo[c]: job files Alive still has to look at
  pid,     \* pid[c]: the pid command c holds in a local variable
  \* History, read by no guard:
  raced,   \* commands whose job file another start wrote since their Status check
  lost,    \* live jobs whose file was never written or was overwritten in a race
  since    \* since[c]: jobs on file when c's Alive began that still run

kernel  == <<st, owner, parent, waited, term>>
local   == <<pc, job, todo, pid>>
history == <<raced, lost, since>>
vars    == <<up, file, kernel, local, history>>

-----------------------------------------------------------------------------
(* A command returns; its locals are gone.                                   *)
Return(c) ==
  /\ pc' = [pc EXCEPT ![c] = "idle"]
  /\ job' = [job EXCEPT ![c] = NoId]
  /\ todo' = [todo EXCEPT ![c] = {}]
  /\ pid' = [pid EXCEPT ![c] = NoPid]

(* alive: kill(pid, 0) finds the pid, zombie or not, whoever it is now.      *)
alive(p) == p \in Pids /\ st[p] # "free"

(* Status(id).Alive, an unreadable file being an error the callers skip.     *)
StatusAlive(id) == alive(file[id])

(* A process that a Start forked and that still runs.                        *)
Measuring(p) == st[p] = "running" /\ owner[p] \in Ids

(* The starter of p has forked it and has not yet written its file.          *)
BeingRecorded(p) == \E c \in Commands : pc[c] = "write" /\ pid[c] = p

(* p runs and its job file, written for it, names it.                        *)
OnFile(p) == Measuring(p) /\ file[owner[p]] = p /\ ~BeingRecorded(p)

Ready(c) == c[1] \in up /\ pc[c] = "idle"

Init ==
  /\ up = Callers
  /\ file = [id \in Ids |-> NoPid]
  /\ st = [p \in Pids |-> "free"]
  /\ owner = [p \in Pids |-> Stranger]
  /\ parent = [p \in Pids |-> Init1]
  /\ waited = {} /\ term = {}
  /\ pc = [c \in Commands |-> "idle"]
  /\ job = [c \in Commands |-> NoId] /\ todo = [c \in Commands |-> {}]
  /\ pid = [c \in Commands |-> NoPid]
  /\ raced = {}
  /\ lost = {} /\ since = [c \in Commands |-> {}]

-----------------------------------------------------------------------------
(* startRun: Alive lists the job files, then asks Status of each; one live   *)
(* job is enough to refuse.  Only then is the run's name chosen.             *)
StartRun(c) ==
  /\ Ready(c) /\ c[1] \in Tuis
  /\ pc' = [pc EXCEPT ![c] = "scan"]
  /\ todo' = [todo EXCEPT ![c] = {id \in Ids : file[id] # NoPid}]
  /\ since' = [since EXCEPT ![c] = {p \in Pids : OnFile(p)}]
  /\ UNCHANGED <<up, file, kernel, job, pid, raced, lost>>

(* Mutant: only the first job file is looked at.                             *)
AliveLookFirstOnly(c, id) ==
  /\ pc[c] = "scan" /\ id \in todo[c]
  /\ IF StatusAlive(id)
     THEN Return(c) /\ since' = [since EXCEPT ![c] = {}]
     ELSE /\ todo' = [todo EXCEPT ![c] = {}]
          /\ UNCHANGED <<pc, job, pid, since>>
  /\ UNCHANGED <<up, file, kernel, raced, lost>>

AliveLook(c, id) ==
  /\ pc[c] = "scan" /\ id \in todo[c]
  /\ IF StatusAlive(id)
     THEN Return(c) /\ since' = [since EXCEPT ![c] = {}]
     ELSE /\ todo' = [todo EXCEPT ![c] = @ \ {id}]
          /\ UNCHANGED <<pc, job, pid, since>>
  /\ UNCHANGED <<up, file, kernel, raced, lost>>

NextName(c, id) ==
  /\ pc[c] = "scan" /\ todo[c] = {}
  /\ pc' = [pc EXCEPT ![c] = "check"]
  /\ job' = [job EXCEPT ![c] = id]
  /\ UNCHANGED <<up, file, kernel, todo, pid, history>>

(* "--json start", main.go: straight to the store, Alive is not asked.       *)
AgentStart(c, id) ==
  /\ Ready(c) /\ c[1] \in Agents
  /\ pc' = [pc EXCEPT ![c] = "check"]
  /\ job' = [job EXCEPT ![c] = id]
  /\ UNCHANGED <<up, file, kernel, todo, pid, history>>

(* Mutant: Start does not refuse a job that is alive.                        *)
StartCheckNothing(c) ==
  /\ pc[c] = "check"
  /\ pc' = [pc EXCEPT ![c] = "fork"]
  /\ UNCHANGED <<up, file, kernel, job, todo, pid, history>>

(* Start, up to the refusal of a live job of the same id.                    *)
StartCheck(c) ==
  /\ pc[c] = "check"
  /\ IF StatusAlive(job[c])
     THEN Return(c) /\ since' = [since EXCEPT ![c] = {}]
     ELSE pc' = [pc EXCEPT ![c] = "fork"] /\ UNCHANGED <<job, todo, pid, since>>
  /\ UNCHANGED <<up, file, kernel, raced, lost>>

(* Start, cmd.Start: the child leads a process group of its own.             *)
StartFork(c, p) ==
  /\ pc[c] = "fork" /\ st[p] = "free"
  /\ st' = [st EXCEPT ![p] = "running"]
  /\ owner' = [owner EXCEPT ![p] = job[c]]
  /\ parent' = [parent EXCEPT ![p] = c[1]]
  /\ pid' = [pid EXCEPT ![c] = p]
  /\ pc' = [pc EXCEPT ![c] = "write"]
  /\ UNCHANGED <<up, file, waited, term, job, todo, history>>

(* Start, the state folder, the log or the child cannot be made.             *)
StartError(c) ==
  /\ pc[c] = "fork"
  /\ Return(c)
  /\ raced' = raced \ {c}
  /\ since' = [since EXCEPT ![c] = {}]
  /\ UNCHANGED <<up, file, kernel, lost>>

(* A live job whose file is replaced is lost to the store; the history only  *)
(* excuses it when the writer could not have seen it.                        *)
Overwritten(c) ==
  {p \in Pids : p = file[job[c]] /\ p # pid[c] /\ c \in raced /\ Measuring(p)}

(* Mutant: nobody waits for the child.                                       *)
StartRecordNoWait(c) ==
  /\ pc[c] = "write"
  /\ file' = [file EXCEPT ![job[c]] = pid[c]]
  /\ Return(c)
  /\ raced' = (raced \cup {d \in Commands : pc[d] \in {"fork", "write"} /\ job[d] = job[c]}) \ {c}
  /\ lost' = lost \cup Overwritten(c)
  /\ since' = [since EXCEPT ![c] = {}]
  /\ UNCHANGED <<up, st, owner, parent, waited, term>>

(* Start, os.WriteFile of <id>.json and go cmd.Wait().                       *)
StartRecord(c) ==
  /\ pc[c] = "write"
  /\ file' = [file EXCEPT ![job[c]] = pid[c]]
  /\ waited' = waited \cup {pid[c]}
  /\ Return(c)
  /\ raced' = (raced \cup {d \in Commands : pc[d] \in {"fork", "write"} /\ job[d] = job[c]}) \ {c}
  /\ lost' = lost \cup Overwritten(c)
  /\ since' = [since EXCEPT ![c] = {}]
  /\ UNCHANGED <<up, st, owner, parent, term>>

(* Start, os.WriteFile fails: the file is as it was or truncated, and nobody *)
(* will wait for the child.                                                  *)
StartRecordError(c) ==
  /\ pc[c] = "write"
  /\ \E old \in {file[job[c]], NoPid} : file' = [file EXCEPT ![job[c]] = old]
  /\ Return(c)
  /\ raced' = raced \ {c}
  /\ lost' = lost \cup {pid[c]} \cup Overwritten(c)
  /\ since' = [since EXCEPT ![c] = {}]
  /\ UNCHANGED <<up, kernel>>

(* stopRun: Stop reads Status, then signals the group -PID.                  *)
StopCheck(c, id) ==
  /\ Ready(c) /\ StatusAlive(id)
  /\ pc' = [pc EXCEPT ![c] = "kill"]
  /\ job' = [job EXCEPT ![c] = id]
  /\ pid' = [pid EXCEPT ![c] = file[id]]
  /\ UNCHANGED <<up, file, kernel, todo, history>>

StopKill(c) ==
  /\ pc[c] = "kill"
  /\ Return(c)
  /\ term' = IF alive(pid[c]) THEN term \cup {pid[c]} ELSE term
  /\ UNCHANGED <<up, file, st, owner, parent, waited, history>>

-----------------------------------------------------------------------------
(* Mutant: a freed pid keeps no owner at all.                                *)
FreeOwnerless(P) ==
  /\ st' = [p \in Pids |-> IF p \in P THEN "free" ELSE st[p]]
  /\ owner' = [p \in Pids |-> IF p \in P THEN NoId ELSE owner[p]]
  /\ term' = term \ P

(* The kernel frees pids, which are free for reuse at once.                  *)
Free(P) ==
  /\ st' = [p \in Pids |-> IF p \in P THEN "free" ELSE st[p]]
  /\ owner' = [p \in Pids |-> IF p \in P THEN Stranger ELSE owner[p]]
  /\ term' = term \ P

(* A process ends, by itself or by the signal.  Its parent must wait for it; *)
(* pid 1 reaps at once.                                                      *)
Exit(p) ==
  /\ st[p] = "running"
  /\ IF parent[p] = Init1
     THEN Free({p})
     ELSE st' = [st EXCEPT ![p] = "zombie"] /\ UNCHANGED <<owner, term>>
  /\ lost' = IF parent[p] = Init1 THEN lost \ {p} ELSE lost
  /\ since' = [c \in Commands |-> since[c] \ {p}]
  /\ UNCHANGED <<up, file, parent, waited, local, raced>>

Reap(p) ==
  /\ st[p] = "zombie" /\ p \in waited
  /\ Free({p})
  /\ parent' = [parent EXCEPT ![p] = Init1]
  /\ waited' = waited \ {p}
  /\ lost' = lost \ {p}
  /\ UNCHANGED <<up, file, local, raced, since>>

(* The process quits or dies: its commands stop where they are, its zombies  *)
(* are reaped and its running children get pid 1 as parent.                  *)
Quit(t) ==
  LET kids == {p \in Pids : parent[p] = t}
      mine == {c \in Commands : c[1] = t}
  IN /\ t \in up
     /\ up' = up \ {t}
     /\ Free({p \in kids : st[p] = "zombie"})
     /\ parent' = [p \in Pids |-> IF p \in kids THEN Init1 ELSE parent[p]]
     /\ waited' = waited \ kids
     /\ pc' = [c \in Commands |-> IF c \in mine THEN "idle" ELSE pc[c]]
     /\ job' = [c \in Commands |-> IF c \in mine THEN NoId ELSE job[c]]
     /\ todo' = [c \in Commands |-> IF c \in mine THEN {} ELSE todo[c]]
     /\ pid' = [c \in Commands |-> IF c \in mine THEN NoPid ELSE pid[c]]
     /\ raced' = raced \ mine
     /\ lost' = {p \in Pids : \/ p \in lost /\ ~(p \in kids /\ st[p] = "zombie")
                              \/ st[p] = "running" /\ \E c \in mine : pc[c] = "write" /\ pid[c] = p}
     /\ since' = [c \in Commands |-> IF c \in mine THEN {} ELSE since[c]]
     /\ UNCHANGED file

Relaunch(t) ==
  /\ t \notin up
  /\ up' = up \cup {t}
  /\ UNCHANGED <<file, kernel, local, history>>

(* Some other program's process group leader gets a free pid.                *)
StrangerStarts(p) ==
  /\ st[p] = "free"
  /\ st' = [st EXCEPT ![p] = "running"]
  /\ UNCHANGED <<up, file, owner, parent, waited, term, local, history>>

Next ==
  \/ \E c \in Commands :
       \/ StartRun(c) \/ StartCheck(c) \/ StartError(c)
       \/ StartRecord(c) \/ StartRecordError(c) \/ StopKill(c)
       \/ \E id \in Ids : AliveLook(c, id) \/ NextName(c, id) \/ AgentStart(c, id) \/ StopCheck(c, id)
       \/ \E p \in Pids : StartFork(c, p)
  \/ \E p \in Pids : Exit(p) \/ Reap(p) \/ StrangerStarts(p)
  \/ \E t \in Callers : Quit(t) \/ Relaunch(t)

Spec == Init /\ [][Next]_vars

(* The goroutine of "go cmd.Wait()" is scheduled, and a process that was     *)
(* sent SIGTERM ends: the pipeline installs no handler that ignores it.      *)
Fairness == \A p \in Pids : WF_vars(Reap(p)) /\ WF_vars(p \in term /\ Exit(p))

FairSpec == Spec /\ Fairness

-----------------------------------------------------------------------------
TypeOK ==
  /\ up \subseteq Callers
  /\ file \in [Ids -> Pids \cup {NoPid}]
  /\ st \in [Pids -> {"free", "running", "zombie"}]
  /\ owner \in [Pids -> Ids \cup {Stranger}]
  /\ parent \in [Pids -> Callers \cup {Init1}]
  /\ waited \subseteq Pids /\ term \subseteq Pids /\ lost \subseteq Pids
  /\ pc \in [Commands -> {"idle", "scan", "check", "fork", "write", "kill"}]
  /\ job \in [Commands -> Ids \cup {NoId}]
  /\ todo \in [Commands -> SUBSET Ids]
  /\ pid \in [Commands -> Pids \cup {NoPid}]
  /\ raced \subseteq Commands
  /\ since \in [Commands -> SUBSET Pids]

(* Every job that runs can be found: its file names it, or its starter is    *)
(* about to write the file.  The only jobs the store loses are those whose   *)
(* starter died or failed between fork and write, and those overwritten by a *)
(* start of the same id that had checked before they were on file.           *)
Tracked ==
  \A p \in Pids : Measuring(p) => file[owner[p]] = p \/ BeingRecorded(p) \/ p \in lost

(* "Two measurements on one GPU would both be wrong" (model.go:443): a job   *)
(* on file when startRun began to look has ended, or was lost, before that   *)
(* command may fork, although it reads one file at a time while others       *)
(* start, end and are replaced.                                              *)
ScanSeesEveryJobOnFile ==
  \A c \in Commands : pc[c] \in {"check", "fork", "write"} => since[c] \subseteq lost

(* A stopped job on file stops being alive, so that Run is offered again:    *)
(* the zombie of a child is waited for by its TUI, or by pid 1 after it.     *)
StoppedJobIsSeenToEnd ==
  \A p \in Pids : (p \in term /\ OnFile(p) /\ p \notin lost) ~> ~alive(p)

=============================================================================
