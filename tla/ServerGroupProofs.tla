-------------------------- MODULE ServerGroupProofs --------------------------
(* Proofs about ServerGroup, for any number of servers one after another.    *)
EXTENDS ServerGroup, TLAPS

(* The controller has not signalled the group of its block yet.              *)
BeforeTerm == {"free port", "popen", "born", "health", "ask", "block", "finally"}

(* Blocks that were not started have no process, and no group is signalled   *)
(* before its finally clause.                                                *)
NotStarted ==
  /\ \A k \in Blocks : k > b \/ (k = b /\ pc \in {"free port", "popen"}) => leader[k] = "none" /\ k \notin worker
  /\ \A k \in termed : leader[k] # "none" /\ (k < b \/ (k = b /\ pc \notin BeforeTerm))
  /\ killed \subseteq termed
  /\ pc \in {"wait", "reap", "drain"} => b \in termed
  /\ pc \in {"born", "health", "ask", "block", "finally", "wait", "reap", "drain"} => leader[b] # "none"

(* What the controller knows at its place, and what the history says of it:  *)
(* a leader is gone by itself or after a signal, the deadline passed.        *)
EndsTold ==
  /\ \A k \in Blocks : leader[k] = "exited" /\ k \notin termed => why[k] # {}
  /\ pc = "drain" => ~ Runs(b)
  /\ late /\ pc # "free port" => why[b] # {}

IInv == TypeOK /\ NotStarted /\ EndsTold /\ SurvivorsExplained

LEMMA BlocksAreNat == Blocks \subseteq Nat /\ 1 \in Blocks /\ NBlocks \in Nat
  BY BlocksAssumption DEF Blocks

LEMMA InitEstablishes == Init => IInv
<1> SUFFICES ASSUME Init PROVE IInv
  OBVIOUS
<1> USE BlocksAreNat DEF Init
<1>1. TypeOK
  BY DEF TypeOK
<1>2. NotStarted /\ EndsTold
  BY DEF NotStarted, EndsTold, BeforeTerm
<1>3. SurvivorsExplained
  BY DEF SurvivorsExplained, Over, Runs
<1> QED
  BY <1>1, <1>2, <1>3 DEF IInv

(* The controller's steps leave the servers alone, but for Popen.            *)
LEMMA PopenPreserves == IInv /\ Popen => IInv'
<1> SUFFICES ASSUME IInv, Popen PROVE IInv'
  OBVIOUS
<1> USE BlocksAreNat DEF IInv, TypeOK, Popen, Goto
<1>1. TypeOK'
  OBVIOUS
<1>2. NotStarted'
  BY DEF NotStarted, BeforeTerm
<1>3. EndsTold'
  BY DEF EndsTold, Runs
<1>4. SurvivorsExplained'
  BY DEF SurvivorsExplained, Over, Runs
<1> QED
  BY <1>1, <1>2, <1>3, <1>4

(* Steps of the controller that leave the servers, the signals and the       *)
(* history alone: only the place changes, and it stays before the cleanup.   *)
LEMMA EarlyPreserves ==
  ASSUME IInv, FreePort \/ EnterTry \/ HealthPoll \/ HealthAsk \/ HealthTimeout \/ BlockEnds
  PROVE  IInv'
<1> USE BlocksAreNat DEF IInv
<1>1. UNCHANGED <<b, leader, worker, termed, killed, why>>
  BY DEF FreePort, EnterTry, HealthPoll, HealthAsk, HealthTimeout, BlockEnds
<1>2. /\ pc \in BeforeTerm /\ pc' \in BeforeTerm \ {"free port"}
      /\ pc' = "popen" => pc = "free port"
      /\ pc' # "popen" => pc \notin {"free port", "popen"}
  <2>1. CASE FreePort
    BY <2>1 DEF FreePort, Goto, BeforeTerm
  <2>2. CASE EnterTry \/ HealthTimeout \/ BlockEnds
    BY <2>2 DEF EnterTry, HealthTimeout, BlockEnds, Goto, BeforeTerm
  <2>3. CASE HealthPoll
    BY <2>3 DEF HealthPoll, BeforeTerm
  <2>4. CASE HealthAsk
    BY <2>4 DEF HealthAsk, BeforeTerm
  <2> QED
    BY <2>1, <2>2, <2>3, <2>4
<1>p. port' \in {port, "nobody"}
  BY DEF FreePort, EnterTry, HealthPoll, HealthAsk, HealthTimeout, BlockEnds
<1>l. late' = FALSE \/ (late' = late /\ pc # "free port")
  BY DEF FreePort, EnterTry, HealthPoll, HealthAsk, HealthTimeout, BlockEnds, Goto
<1>3. TypeOK'
  BY <1>1, <1>2, <1>p, <1>l DEF TypeOK, BeforeTerm
<1>4. NotStarted'
  BY <1>1, <1>2 DEF NotStarted, BeforeTerm
<1>5. EndsTold'
  <2>1. pc' # "drain"
    BY <1>2 DEF BeforeTerm
  <2>2. late' => late /\ pc # "free port"
    BY <1>l, Zenon
  <2>3. late' /\ pc' # "free port" => why'[b'] # {}
    BY <2>2, <1>1 DEF EndsTold
  <2> QED
    BY <1>1, <2>1, <2>3 DEF EndsTold
<1>6. SurvivorsExplained'
  BY <1>1, <1>2 DEF SurvivorsExplained, Over, Runs, BeforeTerm
<1> QED
  BY <1>3, <1>4, <1>5, <1>6

(* A reason given to a block is a reason it keeps.                           *)
LEMMA ReasonsGrow ==
  ASSUME TypeOK, NEW k \in Blocks, NEW r \in Reasons, Because(k, r)
  PROVE  /\ why' \in [Blocks -> SUBSET Reasons]
         /\ r \in why'[k]
         /\ \A j \in Blocks : why[j] \subseteq why'[j]
  BY DEF TypeOK, Because

LEMMA TerminatePreserves == ASSUME IInv, Terminate PROVE IInv'
<1> USE BlocksAreNat DEF IInv
<1>b. b \in Blocks
  BY DEF TypeOK
<1>1. /\ pc = "finally" /\ pc' \in {"wait", "out"}
      /\ pc' = "wait" => Runs(b) /\ termed' = termed \union {b}
      /\ pc' = "out" => ~ Runs(b) /\ termed' = termed
      /\ UNCHANGED <<b, leader, worker, port, killed, late, why>>
  BY DEF Terminate
<1>2. b \notin termed /\ leader[b] # "none"
  BY <1>1, <1>b DEF NotStarted, BeforeTerm
<1>3. TypeOK'
  BY <1>1, <1>b DEF TypeOK
<1>4. NotStarted'
  BY <1>1, <1>2, <1>b DEF NotStarted, BeforeTerm
<1>5. EndsTold'
  BY <1>1 DEF EndsTold
<1>6. ~ Runs(b) => why[b] # {}
  BY <1>2, <1>b DEF EndsTold, Runs, TypeOK
<1>7. SurvivorsExplained'
  BY <1>1, <1>6, <1>b DEF SurvivorsExplained, Over, Runs
<1> QED
  BY <1>3, <1>4, <1>5, <1>7

(* The waits that end because the leader, or the group, has.                 *)
LEMMA EndsPreserve == ASSUME IInv, WaitReturns \/ ReapReturns \/ DrainEnds PROVE IInv'
<1> USE BlocksAreNat DEF IInv
<1>b. b \in Blocks
  BY DEF TypeOK
<1>1. /\ UNCHANGED <<b, leader, worker, port, termed, killed, late, why>>
      /\ \/ pc \in {"wait", "reap"} /\ pc' = "drain" /\ ~ Runs(b)
         \/ pc = "drain" /\ pc' = "out" /\ (late \/ b \notin worker)
  BY DEF WaitReturns, ReapReturns, DrainEnds, Goto
<1>2. TypeOK'
  BY <1>1 DEF TypeOK
<1>3. NotStarted'
  BY <1>1, <1>b DEF NotStarted, BeforeTerm
<1>4. EndsTold'
  BY <1>1 DEF EndsTold, Runs
<1>5. pc = "drain" => ~ Runs(b) /\ (late => why[b] # {})
  BY DEF EndsTold
<1>6. SurvivorsExplained'
  BY <1>1, <1>5, <1>b DEF SurvivorsExplained, Over, Runs
<1> QED
  BY <1>2, <1>3, <1>4, <1>6

(* The steps that leave a reason behind: a deadline, a process the kernel    *)
(* cannot end, an interrupt.                                                 *)
LEMMA ReasonsPreserve ==
  ASSUME IInv, WaitTimeout \/ DeadlinePasses \/ ReapTimeout \/ (Interrupt /\ pc \notin {"health", "ask", "block"})
  PROVE  IInv'
<1> USE BlocksAreNat DEF IInv
<1>b. b \in Blocks
  BY DEF TypeOK
<1>1. PICK r \in Reasons : /\ Because(b, r)
                           /\ pc' = "out" => r \in {"unkillable", "interrupted"}
  BY DEF WaitTimeout, DeadlinePasses, ReapTimeout, Interrupt, Goto, Reasons
<1>2. /\ why' \in [Blocks -> SUBSET Reasons] /\ r \in why'[b]
      /\ \A j \in Blocks : why[j] \subseteq why'[j]
  BY <1>1, <1>b, ReasonsGrow
<1>3. /\ UNCHANGED <<b, leader, worker, port, termed>>
      /\ late' \in BOOLEAN /\ killed' \in {killed, killed \union {b}}
      /\ \/ pc = "wait" /\ pc' = "reap"
         \/ pc = "drain" /\ pc' = "drain" /\ killed' = killed
         \/ pc # "out" /\ pc' = "out" /\ killed' = killed
  BY DEF WaitTimeout, DeadlinePasses, ReapTimeout, Interrupt, Goto, TypeOK
<1>4. TypeOK'
  BY <1>2, <1>3, <1>b DEF TypeOK
<1>5. NotStarted'
  BY <1>3, <1>b DEF NotStarted, BeforeTerm
<1>6. EndsTold'
  <2>1. \A k \in Blocks : leader'[k] = "exited" /\ k \notin termed' => why'[k] # {}
    BY <1>2, <1>3 DEF EndsTold
  <2>2. pc' = "drain" => ~ Runs(b)'
    BY <1>3 DEF EndsTold, Runs
  <2> QED
    BY <1>2, <1>3, <2>1, <2>2 DEF EndsTold
<1>7. SurvivorsExplained'
  <2> SUFFICES ASSUME NEW k \in Blocks, Over(k)'
               PROVE  /\ Runs(k)' => why'[k] \cap {"interrupted", "unkillable"} # {}
                      /\ k \in worker' => why'[k] # {}
    BY DEF SurvivorsExplained
  <2>1. CASE k < b
    BY <2>1, <1>2, <1>3 DEF SurvivorsExplained, Over, Runs
  <2>2. CASE k = b /\ pc' = "out"
    BY <2>2, <1>1, <1>2
  <2> QED
    BY <2>1, <2>2, <1>3 DEF Over
<1> QED
  BY <1>4, <1>5, <1>6, <1>7

(* An interrupt inside the try only leads to the finally clause.             *)
LEMMA InterruptedTryPreserves == ASSUME IInv, Interrupt, pc \in {"health", "ask", "block"} PROVE IInv'
<1> USE BlocksAreNat DEF IInv
<1>1. pc' = "finally" /\ UNCHANGED <<b, leader, worker, port, termed, killed, late, why>>
  BY DEF Interrupt
<1>2. TypeOK'
  BY <1>1 DEF TypeOK
<1>3. NotStarted'
  BY <1>1 DEF NotStarted, BeforeTerm
<1>4. EndsTold' /\ SurvivorsExplained'
  BY <1>1 DEF EndsTold, SurvivorsExplained, Over, Runs
<1> QED
  BY <1>2, <1>3, <1>4

LEMMA NextBlockPreserves == ASSUME IInv, NextBlock PROVE IInv'
<1> USE BlocksAreNat DEF IInv
<1>0. b \in Blocks /\ b < NBlocks => b + 1 \in Blocks
  BY DEF Blocks
<1>1. /\ pc = "out" /\ pc' = "free port" /\ b' = b + 1 /\ b \in Blocks /\ b' \in Blocks /\ b \in Nat
      /\ UNCHANGED <<leader, worker, port, termed, killed, late, why>>
  BY <1>0 DEF NextBlock, Goto, TypeOK
<1>2. TypeOK'
  BY <1>1 DEF TypeOK
<1>m. \A k \in Blocks : (k > b' \/ k = b' => k > b) /\ (k < b \/ k = b => k < b') /\ (k < b' => k < b \/ k = b)
  <2> SUFFICES ASSUME NEW k \in Nat, NEW c \in Nat
               PROVE  /\ k > c + 1 \/ k = c + 1 => k > c
                      /\ k < c \/ k = c => k < c + 1
                      /\ k < c + 1 => k < c \/ k = c
    BY <1>1
  <2> QED
    OBVIOUS
<1>3. NotStarted'
  <2>1. \A k \in Blocks : k > b' \/ (k = b' /\ pc' \in {"free port", "popen"}) => leader'[k] = "none" /\ k \notin worker'
    BY <1>1, <1>m DEF NotStarted
  <2>2. \A k \in termed' : leader'[k] # "none" /\ (k < b' \/ (k = b' /\ pc' \notin BeforeTerm))
    <3> SUFFICES ASSUME NEW k \in termed PROVE leader[k] # "none" /\ k < b'
      BY <1>1
    <3>1. leader[k] # "none" /\ (k < b \/ k = b)
      BY DEF NotStarted
    <3>2. k \in Blocks
      BY DEF TypeOK
    <3> QED
      BY <3>1, <3>2, <1>m, <1>1
  <2>3. killed' \subseteq termed'
    BY <1>1 DEF NotStarted
  <2> QED
    BY <1>1, <2>1, <2>2, <2>3 DEF NotStarted
<1>4. EndsTold'
  BY <1>1 DEF EndsTold
<1>5. SurvivorsExplained'
  <2> SUFFICES ASSUME NEW k \in Blocks, Over(k)'
               PROVE  /\ Runs(k)' => why'[k] \cap {"interrupted", "unkillable"} # {}
                      /\ k \in worker' => why'[k] # {}
    BY DEF SurvivorsExplained
  <2>2. Over(k)
    BY <1>1, <1>m DEF Over
  <2> QED
    BY <2>2, <1>1 DEF SurvivorsExplained, Runs
<1> QED
  BY <1>2, <1>3, <1>4, <1>5

(* The servers: what a leader or a worker does to its own block.             *)
LEMMA ServersPreserve ==
  ASSUME IInv, OtherTakesPort \/ ServerListens \/ ServerForksWorker PROVE IInv'
<1> USE BlocksAreNat DEF IInv
<1>b. b \in Blocks
  BY DEF TypeOK
<1>1. /\ UNCHANGED <<pc, b, termed, killed, late, why>> /\ port' \in {port, "server", "other"}
      /\ \/ UNCHANGED <<leader, worker>>
         \/ leader[b] = "loading" /\ leader' = [leader EXCEPT ![b] = "serving"] /\ worker' = worker
         \/ leader[b] = "loading" /\ worker' = worker \union {b} /\ leader' = leader
  BY DEF OtherTakesPort, ServerListens, ServerForksWorker
<1>2. TypeOK'
  BY <1>1, <1>b DEF TypeOK
<1>3. \A k \in Blocks : \/ leader'[k] = leader[k]
                        \/ k = b /\ leader[k] = "loading" /\ leader'[k] = "serving"
  BY <1>1, <1>b DEF TypeOK
<1>w. \A k \in Blocks : k \in worker' => (k \in worker \/ (k = b /\ leader[k] = "loading"))
  BY <1>1
<1>r. \A k \in Blocks : /\ Runs(k)' <=> Runs(k)
                        /\ leader'[k] = "none" <=> leader[k] = "none"
                        /\ leader'[k] = "exited" <=> leader[k] = "exited"
  BY <1>3 DEF Runs
<1>4. NotStarted'
  <2>1. \A k \in Blocks : k > b' \/ (k = b' /\ pc' \in {"free port", "popen"}) => leader'[k] = "none" /\ k \notin worker'
    <3> SUFFICES ASSUME NEW k \in Blocks, k > b \/ (k = b /\ pc \in {"free port", "popen"})
                 PROVE  leader'[k] = "none" /\ k \notin worker'
      BY <1>1
    <3>1. leader[k] = "none" /\ k \notin worker
      BY DEF NotStarted
    <3> QED
      BY <3>1, <1>r, <1>w
  <2>2. \A k \in termed' : leader'[k] # "none" /\ (k < b' \/ (k = b' /\ pc' \notin BeforeTerm))
    BY <1>1, <1>r DEF NotStarted, TypeOK
  <2> QED
    BY <1>1, <1>r, <1>b, <2>1, <2>2 DEF NotStarted
<1>5. EndsTold'
  BY <1>1, <1>r, <1>b DEF EndsTold
<1>6. SurvivorsExplained'
  <2> SUFFICES ASSUME NEW k \in Blocks, Over(k)
               PROVE  /\ Runs(k)' => why[k] \cap {"interrupted", "unkillable"} # {}
                      /\ k \in worker' => why[k] # {}
    BY <1>1 DEF SurvivorsExplained, Over
  <2>1. /\ Runs(k) => why[k] \cap {"interrupted", "unkillable"} # {}
        /\ k \in worker => why[k] # {}
    BY DEF SurvivorsExplained
  <2>2. leader[k] = "loading" => Runs(k)
    BY DEF Runs
  <2> QED
    BY <2>1, <2>2, <1>r, <1>w
<1> QED
  BY <1>2, <1>4, <1>5, <1>6

LEMMA ExitsPreserve ==
  ASSUME IInv, NEW k \in Blocks, LeaderExits(k) \/ WorkerExits(k) \/ GroupKilled(k) PROVE IInv'
<1> USE BlocksAreNat DEF IInv
<1>b. b \in Blocks
  BY DEF TypeOK
<1>1. /\ UNCHANGED <<pc, b, termed, killed, late>> /\ port' \in {port, "nobody"}
      /\ worker' \subseteq worker
      /\ \/ leader' = leader
         \/ leader' = [leader EXCEPT ![k] = "exited"] /\ leader[k] # "none"
  BY DEF LeaderExits, WorkerExits, GroupKilled, Runs, NotStarted
<1>2. why' \in [Blocks -> SUBSET Reasons] /\ \A j \in Blocks : why[j] \subseteq why'[j]
  <2>1. CASE UNCHANGED why
    BY <2>1 DEF TypeOK
  <2>2. CASE Because(k, "leader died")
    BY <2>2, ReasonsGrow DEF Reasons
  <2> QED
    BY <2>1, <2>2 DEF LeaderExits, WorkerExits, GroupKilled
<1>3. leader'[k] = "exited" /\ k \notin termed => why'[k] # {} \/ leader[k] = "exited"
  <2>1. CASE LeaderExits(k) /\ k \notin termed
    BY <2>1, ReasonsGrow DEF LeaderExits, Reasons
  <2>2. CASE WorkerExits(k)
    BY <2>2 DEF WorkerExits
  <2>3. CASE GroupKilled(k)
    BY <2>3 DEF GroupKilled, NotStarted
  <2> QED
    BY <2>1, <2>2, <2>3
<1>4. TypeOK'
  BY <1>1, <1>2 DEF TypeOK
<1>c. \A j \in Blocks : leader'[j] = leader[j] \/ (j = k /\ leader'[j] = "exited" /\ leader[j] # "none")
  BY <1>1 DEF TypeOK
<1>5. \A j \in Blocks : /\ leader'[j] = "none" <=> leader[j] = "none"
                        /\ Runs(j)' => Runs(j)
                        /\ leader'[j] = "exited" => (leader[j] = "exited" \/ j = k)
  BY <1>c DEF Runs
<1>6. NotStarted'
  <2>1. \A j \in Blocks : j > b' \/ (j = b' /\ pc' \in {"free port", "popen"}) => leader'[j] = "none" /\ j \notin worker'
    BY <1>1, <1>5 DEF NotStarted
  <2>2. \A j \in termed' : leader'[j] # "none" /\ (j < b' \/ (j = b' /\ pc' \notin BeforeTerm))
    BY <1>1, <1>5 DEF NotStarted, TypeOK
  <2> QED
    BY <1>1, <1>5, <1>b, <2>1, <2>2 DEF NotStarted
<1>7. EndsTold'
  <2>1. \A j \in Blocks : leader'[j] = "exited" /\ j \notin termed' => why'[j] # {}
    BY <1>1, <1>2, <1>3, <1>5 DEF EndsTold
  <2>2. pc' = "drain" => ~ Runs(b)'
    BY <1>1, <1>5, <1>b DEF EndsTold, Runs
  <2> QED
    BY <1>1, <1>2, <1>b, <2>1, <2>2 DEF EndsTold
<1>8. SurvivorsExplained'
  <2> SUFFICES ASSUME NEW j \in Blocks, Over(j)
               PROVE  /\ Runs(j)' => why'[j] \cap {"interrupted", "unkillable"} # {}
                      /\ j \in worker' => why'[j] # {}
    BY <1>1 DEF SurvivorsExplained, Over
  <2>1. /\ Runs(j) => why[j] \cap {"interrupted", "unkillable"} # {}
        /\ j \in worker => why[j] # {}
    BY DEF SurvivorsExplained
  <2> QED
    BY <1>1, <1>2, <1>5, <2>1
<1> QED
  BY <1>4, <1>6, <1>7, <1>8

LEMMA StutterPreserves == ASSUME IInv, UNCHANGED vars PROVE IInv'
<1> USE DEF vars
<1>1. TypeOK'
  BY DEF IInv, TypeOK
<1>2. NotStarted'
  BY DEF IInv, NotStarted
<1>3. EndsTold' /\ SurvivorsExplained'
  BY DEF IInv, EndsTold, SurvivorsExplained, Over, Runs
<1> QED
  BY <1>1, <1>2, <1>3 DEF IInv

LEMMA StepPreserves == IInv /\ [Next]_vars => IInv'
<1> SUFFICES ASSUME IInv, [Next]_vars PROVE IInv'
  OBVIOUS
<1>1. CASE Controller
  <2>1. CASE FreePort \/ EnterTry \/ HealthPoll \/ HealthAsk \/ HealthTimeout \/ BlockEnds
    BY <2>1, EarlyPreserves
  <2>2. CASE Popen \/ NextBlock
    BY <2>2, PopenPreserves, NextBlockPreserves
  <2>3. CASE Terminate \/ WaitReturns \/ ReapReturns \/ DrainEnds
    BY <2>3, TerminatePreserves, EndsPreserve
  <2>4. CASE WaitTimeout \/ DeadlinePasses \/ ReapTimeout
    BY <2>4, ReasonsPreserve
  <2> QED
    BY <1>1, <2>1, <2>2, <2>3, <2>4 DEF Controller
<1>2. CASE Interrupt
  BY <1>2, ReasonsPreserve, InterruptedTryPreserves
<1>3. CASE Machine
  BY <1>3, ServersPreserve, ExitsPreserve DEF Machine
<1>4. CASE UNCHANGED vars
  BY <1>4, StutterPreserves
<1> QED
  BY <1>1, <1>2, <1>3, <1>4 DEF Next

LEMMA GroupInvariant == Spec => []IInv
  BY InitEstablishes, StepPreserves, PTL DEF Spec

(* The controller, the servers and the history keep their types, for any     *)
(* number of servers.                                                        *)
THEOREM ServerGroupTyped == Spec => []TypeOK
<1>1. IInv => TypeOK
  BY DEF IInv
<1> QED
  BY <1>1, GroupInvariant, PTL

(* What a block of measurements leaves running is explained (lines 156-168), *)
(* for any number of servers: by an interrupt or a process the kernel cannot *)
(* end for a leader, by these, a leader that died by itself or the deadline  *)
(* for a worker.                                                             *)
THEOREM SurvivorsAreExplained == Spec => []SurvivorsExplained
<1>1. IInv => SurvivorsExplained
  BY DEF IInv
<1> QED
  BY <1>1, GroupInvariant, PTL
=============================================================================
