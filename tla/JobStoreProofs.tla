--------------------------- MODULE JobStoreProofs ---------------------------
(* Proofs about JobStore, for any callers, ids and pids.                     *)
EXTENDS JobStore, TLAPS

(* A command between fork and write holds its own unreaped child.            *)
WindowsHold ==
  \A c \in Commands : pc[c] = "write" =>
    /\ pid[c] \in Pids
    /\ st[pid[c]] # "free"
    /\ owner[pid[c]] = job[c]
    /\ parent[pid[c]] = c[1]
    /\ pid[c] \notin waited

(* No two starters hold the same child.                                      *)
WindowsDisjoint ==
  \A c, d \in Commands : pc[c] = "write" /\ pc[d] = "write" /\ pid[c] = pid[d] => c = d

WaitedExist == \A p \in waited : st[p] # "free" /\ parent[p] # Init1

JobsNamed == \A c \in Commands : pc[c] \in {"check", "fork", "write", "kill"} => job[c] \in Ids

(* While no other start of its id has recorded, a starter about to write     *)
(* will not overwrite a live job that the store still has on file.           *)
CheckStands ==
  \A c \in Commands : pc[c] \in {"fork", "write"} /\ c \notin raced =>
    \A x \in Pids : x = file[job[c]] /\ Measuring(x) /\ owner[x] = job[c] =>
      BeingRecorded(x) \/ x \in lost

(* A free pid belongs to no job.                                             *)
FreeUnowned == \A p \in Pids : st[p] = "free" => owner[p] = Stranger

IInv ==
  /\ TypeOK
  /\ FreeUnowned
  /\ WindowsHold
  /\ WindowsDisjoint
  /\ WaitedExist
  /\ JobsNamed
  /\ CheckStands
  /\ Tracked

LEMMA InitEstablishes == Init => IInv
  BY ConstantsAssumption, SMTT(30)
  DEF Init, IInv, TypeOK, FreeUnowned, WindowsHold, WindowsDisjoint, WaitedExist, JobsNamed, CheckStands, Tracked,
      Measuring, Commands, Callers

(* Actions of a command that leave the processes, the files and the windows  *)
(* of other commands alone.                                                  *)
LEMMA ScanPreserves ==
  ASSUME IInv, NEW c \in Commands,
         \/ StartRun(c) \/ StopKill(c)
         \/ \E id \in Ids : AliveLook(c, id) \/ NextName(c, id) \/ AgentStart(c, id) \/ StopCheck(c, id)
  PROVE  IInv'
<1> USE ConstantsAssumption DEF IInv, Return, kernel, local, history, Ready, Measuring, BeingRecorded
<1>1. TypeOK' /\ FreeUnowned'
  BY DEF TypeOK, FreeUnowned, StartRun, AliveLook, NextName, AgentStart, StopCheck, StopKill, StatusAlive, alive, OnFile
<1>2. WindowsHold' /\ WindowsDisjoint' /\ WaitedExist'
  BY DEF TypeOK, WindowsHold, WindowsDisjoint, WaitedExist, StartRun, AliveLook, NextName, AgentStart, StopCheck, StopKill
<1>3. JobsNamed'
  BY DEF TypeOK, JobsNamed, StartRun, AliveLook, NextName, AgentStart, StopCheck, StopKill
<1>4. CheckStands'
  BY DEF TypeOK, CheckStands, StartRun, AliveLook, NextName, AgentStart, StopCheck, StopKill
<1>5. Tracked'
  BY DEF TypeOK, Tracked, StartRun, AliveLook, NextName, AgentStart, StopCheck, StopKill
<1>6. QED BY <1>1, <1>2, <1>3, <1>4, <1>5

(* The Status check itself is what makes CheckStands true.                   *)
LEMMA CheckPreserves ==
  ASSUME IInv, NEW c \in Commands, StartCheck(c) \/ StartError(c)
  PROVE  IInv'
<1> USE ConstantsAssumption DEF IInv, Return, kernel, Measuring, BeingRecorded, StartCheck, StartError
<1>1. TypeOK' /\ FreeUnowned'
  BY DEF TypeOK, FreeUnowned
<1>2. WindowsHold' /\ WindowsDisjoint' /\ WaitedExist' /\ JobsNamed'
  BY DEF TypeOK, WindowsHold, WindowsDisjoint, WaitedExist, JobsNamed
<1>3. CheckStands'
  BY DEF TypeOK, CheckStands, StatusAlive, alive
<1>4. Tracked'
  BY DEF TypeOK, Tracked
<1>5. QED BY <1>1, <1>2, <1>3, <1>4

LEMMA ForkPreserves ==
  ASSUME IInv, NEW c \in Commands, NEW p \in Pids, StartFork(c, p)
  PROVE  IInv'
<1> USE ConstantsAssumption DEF IInv, history, Measuring, BeingRecorded, StartFork
<1>1. TypeOK' /\ FreeUnowned'
  BY DEF TypeOK, FreeUnowned, JobsNamed, Commands
<1>2. WindowsHold' /\ WindowsDisjoint' /\ WaitedExist' /\ JobsNamed'
  BY DEF TypeOK, WindowsHold, WindowsDisjoint, WaitedExist, JobsNamed
<1>3. CheckStands'
  BY DEF TypeOK, CheckStands
<1>4. Tracked'
  BY DEF TypeOK, Tracked
<1>5. QED BY <1>1, <1>2, <1>3, <1>4

(* The write may replace a job on file only after another start's write.     *)
LEMMA RecordPreserves ==
  ASSUME IInv, NEW c \in Commands, StartRecord(c) \/ StartRecordError(c)
  PROVE  IInv'
<1> USE ConstantsAssumption DEF IInv, Return, kernel, Measuring, BeingRecorded, Overwritten, StartRecord, StartRecordError
<1>1. TypeOK' /\ FreeUnowned'
  BY DEF TypeOK, FreeUnowned, WindowsHold, JobsNamed
<1>2. WindowsHold' /\ WindowsDisjoint' /\ WaitedExist' /\ JobsNamed'
  <2>1. parent[pid[c]] # Init1
    BY DEF WindowsHold, Commands
  <2>2. QED
    BY <2>1 DEF TypeOK, WindowsHold, WindowsDisjoint, WaitedExist, JobsNamed
<1>3. CheckStands'
  <2>1. CASE StartRecord(c)
    BY <2>1 DEF TypeOK, WindowsHold, CheckStands
  <2>2. CASE StartRecordError(c)
    BY <2>2 DEF TypeOK, WindowsHold, CheckStands
  <2>3. QED BY <2>1, <2>2
<1>4. Tracked'
  <2>1. CASE StartRecord(c)
    BY <2>1 DEF TypeOK, WindowsHold, JobsNamed, CheckStands, Tracked
  <2>2. CASE StartRecordError(c)
    BY <2>2 DEF TypeOK, WindowsHold, JobsNamed, CheckStands, Tracked
  <2>3. QED BY <2>1, <2>2
<1>5. QED BY <1>1, <1>2, <1>3, <1>4

LEMMA ExitPreserves ==
  ASSUME IInv, NEW p \in Pids, Exit(p) \/ Reap(p) \/ StrangerStarts(p)
  PROVE  IInv'
<1> USE ConstantsAssumption DEF IInv, local, history, Free, Measuring, BeingRecorded
<1>1. CASE Exit(p)
  <2> USE <1>1 DEF Exit
  <2>1. TypeOK' /\ FreeUnowned'
    BY DEF TypeOK, FreeUnowned
  <2>2. WindowsHold' /\ WindowsDisjoint' /\ WaitedExist' /\ JobsNamed'
    <3>1. CASE parent[p] = Init1
      <4>1. \A c \in Commands : pc[c] = "write" => pid[c] # p
        BY <3>1 DEF WindowsHold, Commands
      <4>2. p \notin waited
        BY <3>1 DEF WaitedExist
      <4>3. QED
        BY <3>1, <4>1, <4>2 DEF TypeOK, WindowsHold, WindowsDisjoint, WaitedExist, JobsNamed
    <3>2. CASE parent[p] # Init1
      BY <3>2 DEF TypeOK, WindowsHold, WindowsDisjoint, WaitedExist, JobsNamed
    <3>3. QED BY <3>1, <3>2
  <2>3. CheckStands' /\ Tracked'
    <3>1. \A x \in Pids : (Measuring(x))' => x # p /\ Measuring(x) /\ owner'[x] = owner[x] /\ (x \in lost => x \in lost')
      BY DEF TypeOK
    <3>2. UNCHANGED <<file, pc, job, pid, raced>>
      OBVIOUS
    <3>3. QED BY <3>1, <3>2 DEF TypeOK, CheckStands, Tracked
  <2>4. QED BY <2>1, <2>2, <2>3
<1>2. CASE Reap(p)
  <2> USE <1>2 DEF Reap
  <2>1. TypeOK' /\ FreeUnowned'
    BY DEF TypeOK, FreeUnowned
  <2>2. WindowsHold' /\ WindowsDisjoint' /\ WaitedExist' /\ JobsNamed'
    BY DEF TypeOK, WindowsHold, WindowsDisjoint, WaitedExist, JobsNamed
  <2>3. CheckStands' /\ Tracked'
    <3>1. \A x \in Pids : (Measuring(x))' => x # p /\ Measuring(x) /\ owner'[x] = owner[x] /\ (x \in lost => x \in lost')
      BY DEF TypeOK
    <3>2. UNCHANGED <<file, pc, job, pid, raced>>
      OBVIOUS
    <3>3. QED BY <3>1, <3>2 DEF TypeOK, CheckStands, Tracked
  <2>4. QED BY <2>1, <2>2, <2>3
<1>3. CASE StrangerStarts(p)
  <2> USE <1>3 DEF StrangerStarts
  <2>1. owner[p] = Stranger
    BY DEF FreeUnowned
  <2>2. TypeOK' /\ FreeUnowned'
    BY <2>1 DEF TypeOK, FreeUnowned
  <2>3. WindowsHold' /\ WindowsDisjoint' /\ WaitedExist' /\ JobsNamed'
    BY DEF TypeOK, WindowsHold, WindowsDisjoint, WaitedExist, JobsNamed
  <2>4. CheckStands' /\ Tracked'
    BY <2>1 DEF TypeOK, CheckStands, Tracked
  <2>5. QED BY <2>2, <2>3, <2>4
<1>4. QED BY <1>1, <1>2, <1>3

LEMMA QuitPreserves ==
  ASSUME IInv, NEW t \in Callers, Quit(t) \/ Relaunch(t)
  PROVE  IInv'
<1> USE ConstantsAssumption DEF IInv, kernel, local, history, Free, Measuring, BeingRecorded
<1>1. CASE Quit(t)
  <2> USE <1>1 DEF Quit
  <2>1. TypeOK' /\ FreeUnowned'
    BY DEF TypeOK, FreeUnowned
  <2>2. WindowsHold' /\ WindowsDisjoint' /\ WaitedExist' /\ JobsNamed'
    BY DEF TypeOK, WindowsHold, WindowsDisjoint, WaitedExist, JobsNamed, Commands
  <2>3. CheckStands' /\ Tracked'
    BY DEF TypeOK, WindowsHold, CheckStands, Tracked
  <2>4. QED BY <2>1, <2>2, <2>3
<1>2. CASE Relaunch(t)
  BY <1>2 DEF Relaunch, TypeOK, FreeUnowned, WindowsHold, WindowsDisjoint, WaitedExist, JobsNamed, CheckStands, Tracked
<1>3. QED BY <1>1, <1>2

LEMMA StepPreserves == IInv /\ [Next]_vars => IInv'
<1> SUFFICES ASSUME IInv, [Next]_vars PROVE IInv'
  OBVIOUS
<1>1. CASE UNCHANGED vars
  BY <1>1 DEF vars, kernel, local, history, IInv, TypeOK, FreeUnowned, WindowsHold, WindowsDisjoint, WaitedExist, JobsNamed,
     CheckStands, Tracked, Measuring, BeingRecorded
<1>2. CASE Next
  <2>1. ASSUME NEW c \in Commands, NEW id \in Ids,
               AliveLook(c, id) \/ NextName(c, id) \/ AgentStart(c, id) \/ StopCheck(c, id)
        PROVE  IInv'
    BY <2>1, ScanPreserves
  <2>2. ASSUME NEW c \in Commands, StartRun(c) \/ StopKill(c)
        PROVE  IInv'
    BY <2>2, ScanPreserves
  <2>3. ASSUME NEW c \in Commands, StartCheck(c) \/ StartError(c)
        PROVE  IInv'
    BY <2>3, CheckPreserves
  <2>4. ASSUME NEW c \in Commands, StartRecord(c) \/ StartRecordError(c)
        PROVE  IInv'
    BY <2>4, RecordPreserves
  <2>5. ASSUME NEW c \in Commands, NEW p \in Pids, StartFork(c, p)
        PROVE  IInv'
    BY <2>5, ForkPreserves
  <2>6. ASSUME NEW p \in Pids, Exit(p) \/ Reap(p) \/ StrangerStarts(p)
        PROVE  IInv'
    BY <2>6, ExitPreserves
  <2>7. ASSUME NEW t \in Callers, Quit(t) \/ Relaunch(t)
        PROVE  IInv'
    BY <2>7, QuitPreserves
  <2>8. QED
    BY <1>2, <2>1, <2>2, <2>3, <2>4, <2>5, <2>6, <2>7 DEF Next
<1>3. QED BY <1>1, <1>2

(* Types are respected in every reachable state, whatever the processes,     *)
(* ids and pids.                                                             *)
THEOREM JobStoreTyped == Spec => []TypeOK
<1>1. IInv => TypeOK BY DEF IInv
<1>2. QED BY <1>1, InitEstablishes, StepPreserves, PTL DEF Spec

(* jobs.go Start and Status: a running job is always findable by its id,     *)
(* except where its starter failed or was overtaken (Tracked).               *)
THEOREM JobsAreTracked == Spec => []Tracked
<1>1. IInv => Tracked BY DEF IInv
<1>2. QED BY <1>1, InitEstablishes, StepPreserves, PTL DEF Spec

-----------------------------------------------------------------------------
(* What a scan still has to look at covers every job that was on file when   *)
(* it began and that the store has not lost since.                           *)
ScanInv ==
  \A c \in Commands : \A p \in since[c] :
    /\ Measuring(p)
    /\ p \in lost \/ (OnFile(p) /\ pc[c] = "scan" /\ owner[p] \in todo[c])

LEMMA ScanInvPreserved == IInv /\ ScanInv /\ [Next]_vars => ScanInv'
<1> SUFFICES ASSUME IInv, ScanInv, [Next]_vars,
                    NEW e \in Commands, NEW x \in (since[e])'
             PROVE  (/\ Measuring(x)
                     /\ x \in lost \/ (OnFile(x) /\ pc[e] = "scan" /\ owner[x] \in todo[e]))'
  BY DEF ScanInv
<1> USE ConstantsAssumption DEF IInv, TypeOK, ScanInv, Measuring, OnFile, BeingRecorded
<1>1. CASE UNCHANGED vars
  BY <1>1 DEF vars, kernel, local, history
<1>2. ASSUME NEW c \in Commands, StartRun(c)
      PROVE  (/\ Measuring(x)
              /\ x \in lost \/ (OnFile(x) /\ pc[e] = "scan" /\ owner[x] \in todo[e]))'
  BY <1>2 DEF StartRun, kernel
<1>3. ASSUME NEW c \in Commands, NEW id \in Ids,
             AliveLook(c, id) \/ NextName(c, id) \/ AgentStart(c, id) \/ StopCheck(c, id)
      PROVE  (/\ Measuring(x)
              /\ x \in lost \/ (OnFile(x) /\ pc[e] = "scan" /\ owner[x] \in todo[e]))'
  BY <1>3 DEF AliveLook, NextName, AgentStart, StopCheck, Ready, kernel, history, Return, StatusAlive, alive
<1>4. ASSUME NEW c \in Commands, StartCheck(c) \/ StartError(c) \/ StopKill(c)
      PROVE  (/\ Measuring(x)
              /\ x \in lost \/ (OnFile(x) /\ pc[e] = "scan" /\ owner[x] \in todo[e]))'
  BY <1>4 DEF StartCheck, StartError, StopKill, kernel, history, Return
<1>5. ASSUME NEW c \in Commands, StartRecord(c) \/ StartRecordError(c)
      PROVE  (/\ Measuring(x)
              /\ x \in lost \/ (OnFile(x) /\ pc[e] = "scan" /\ owner[x] \in todo[e]))'
  <2>1. x \in since[e] /\ e # c
    BY <1>5 DEF StartRecord, StartRecordError
  <2>2. /\ Measuring(x)'
        /\ x \in lost => x \in lost'
        /\ pc'[e] = pc[e] /\ todo'[e] = todo[e] /\ owner'[x] = owner[x]
    BY <1>5, <2>1 DEF StartRecord, StartRecordError, Return, kernel
  <2>3. CASE x \in lost
    BY <2>2, <2>3
  <2>4. CASE x \notin lost
    <3>1. OnFile(x) /\ x \in Pids /\ x # pid[c]
      BY <1>5, <2>1, <2>4 DEF StartRecord, StartRecordError
    <3>2. ~(BeingRecorded(x))'
      BY <1>5, <3>1 DEF StartRecord, StartRecordError, Return
    <3>3. CASE owner[x] = job[c]
      BY <1>5, <2>2, <2>4, <3>1, <3>3 DEF StartRecord, StartRecordError, Overwritten, CheckStands
    <3>4. CASE owner[x] # job[c]
      BY <1>5, <2>1, <2>2, <2>4, <3>1, <3>2, <3>4 DEF StartRecord, StartRecordError
    <3>5. QED BY <3>3, <3>4
  <2>5. QED BY <2>3, <2>4
<1>6. ASSUME NEW c \in Commands, NEW p \in Pids, StartFork(c, p)
      PROVE  (/\ Measuring(x)
              /\ x \in lost \/ (OnFile(x) /\ pc[e] = "scan" /\ owner[x] \in todo[e]))'
  BY <1>6 DEF StartFork, history
<1>7. ASSUME NEW p \in Pids, Exit(p) \/ Reap(p) \/ StrangerStarts(p)
      PROVE  (/\ Measuring(x)
              /\ x \in lost \/ (OnFile(x) /\ pc[e] = "scan" /\ owner[x] \in todo[e]))'
  BY <1>7 DEF Exit, Reap, StrangerStarts, Free, local, history
<1>8. ASSUME NEW t \in Callers, Quit(t) \/ Relaunch(t)
      PROVE  (/\ Measuring(x)
              /\ x \in lost \/ (OnFile(x) /\ pc[e] = "scan" /\ owner[x] \in todo[e]))'
  <2>1. CASE Relaunch(t)
    BY <2>1 DEF Relaunch, kernel, local, history
  <2>2. CASE Quit(t)
    <3> DEFINE kids == {p \in Pids : parent[p] = t}
    <3>1. x \in since[e] /\ x \in Pids /\ Measuring(x) /\ e[1] # t
      BY <2>2 DEF Quit
    <3>2. Measuring(x)' /\ owner'[x] = owner[x] /\ file' = file
      BY <2>2, <3>1 DEF Quit, Free
    <3>3. pc'[e] = pc[e] /\ todo'[e] = todo[e]
      BY <2>2, <3>1 DEF Quit
    <3>4. CASE x \in lost
      BY <2>2, <3>1, <3>2, <3>4 DEF Quit
    <3>5. CASE x \notin lost
      <4>1. OnFile(x) /\ pc[e] = "scan" /\ owner[x] \in todo[e]
        BY <3>1, <3>5
      <4>2. \A d \in Commands : pc'[d] = "write" /\ pid'[d] = x => pc[d] = "write" /\ pid[d] = x
        BY <2>2 DEF Quit
      <4>3. OnFile(x)'
        BY <3>1, <3>2, <4>1, <4>2
      <4> QED
        BY <3>2, <3>3, <4>1, <4>3
    <3> QED
      BY <3>4, <3>5
  <2> QED
    BY <1>8, <2>1, <2>2
<1>9. QED
  BY <1>1, <1>2, <1>3, <1>4, <1>5, <1>6, <1>7, <1>8 DEF Next

(* model.go startRun: no run is forked while a job that was on file when the *)
(* command looked still runs, unless the store had lost it.                  *)
THEOREM RunsWaitForJobsOnFile == Spec => []ScanSeesEveryJobOnFile
<1>1. Init => ScanInv
  BY DEF Init, ScanInv
<1>2. ScanInv => ScanSeesEveryJobOnFile
  BY DEF ScanInv, ScanSeesEveryJobOnFile
<1>3. QED
  BY <1>1, <1>2, InitEstablishes, StepPreserves, ScanInvPreserved, PTL DEF Spec

=============================================================================
