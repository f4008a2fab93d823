--------------------------- MODULE RunScreenProofs ---------------------------
(* Proofs about RunScreen, for any number of runs, stages and starts.          *)
EXTENDS RunScreen, NaturalsInduction, WellFoundedInduction, TLAPS

(* The list on screen and every list under way, when it was read, name all     *)
(* folders from before the session, so that a name taken from one is not the   *)
(* name of such a folder.                                                      *)
ListsNameOld ==
  /\ runs # NotRead => old \subseteq runs.ids
  /\ \A m \in sent : m.msg = "runs" /\ m.list # NotRead => old \subseteq m.list.ids

OldHaveFolders == \A i \in old : disk[i] > 0

StartsNotOld ==
  /\ \A c \in asked : c.do = "start" /\ ~ c.blind => c.id \notin old
  /\ \A m \in sent : m.msg = "started" /\ ~ m.blind => m.id \notin old
  /\ \A i \in SessionRuns \ blind : i \notin old

(* The chains and the flag: when ticking is cleared, a chain has just ended.   *)
ChainsCounted == IF ticking THEN ticks > 0 /\ ticks <= Len(session) + 1 ELSE ticks <= Len(session)

LivePolled == shownJob.alive => ticking

LEMMA NoRunIsNoId == NoRun \notin Ids /\ Ids \subseteq Nat /\ Ids \subseteq Shown
  BY RunScreenAssumption DEF NoRun, Ids, Shown

LEMMA LastIsNat == Last \in Nat /\ 0 \in 0 .. Last /\ Last \in 0 .. Last
  BY RunScreenAssumption

LEMMA InitTyped == Init => TypeOK
<1> SUFFICES ASSUME Init PROVE TypeOK
  OBVIOUS
<1> USE DEF Init
<1>1. asked \subseteq Commands /\ sent \subseteq Messages
  BY DEF Commands
<1>2. run \in Shown /\ shownJob = NoJob
  BY LastIsNat DEF Shown, NoRun
<1>3. job \in [Ids -> {"none", "alive", "over"}]
  OBVIOUS
<1>4. old \subseteq Ids /\ saved \subseteq Ids
  BY RunScreenAssumption
<1>5. session \in Seq(Ids) /\ blind = {} /\ ticks \in Nat /\ runs \in Lists
  BY DEF Lists
<1>6. readOnly \in BOOLEAN /\ runSet \in BOOLEAN /\ ticking \in BOOLEAN
  OBVIOUS
<1>7. disk \in [Ids -> 0 .. Last]
  OBVIOUS
<1> HIDE DEF Init
<1> QED
  BY <1>1, <1>2, <1>3, <1>4, <1>5, <1>6, <1>7 DEF TypeOK

(* The world's steps and the commands: only the world, asked and sent change.  *)
LEMMA WorldTyped == TypeOK /\ World => TypeOK'
<1> SUFFICES ASSUME TypeOK, NEW i \in Ids, StageLands(i) \/ JobEnds(i) PROVE TypeOK'
  BY DEF World
<1> USE LastIsNat DEF TypeOK, tui
<1>1. CASE StageLands(i)
  <2>1. (IF disk[i] < Last THEN disk[i] + 1 ELSE disk[i]) \in 0 .. Last
    OBVIOUS
  <2> QED
    BY <1>1, <2>1 DEF StageLands
<1>2. CASE JobEnds(i)
  BY <1>2 DEF JobEnds
<1> QED
  BY <1>1, <1>2

LEMMA CommandTyped == TypeOK /\ Command => TypeOK'
<1> SUFFICES ASSUME TypeOK, Command PROVE TypeOK'
  OBVIOUS
<1>a. tui' = tui
  BY DEF Command, ReadRuns, ReadRun, ReadJob, StartCommand, OpenSaved, DeleteSaved, Clean
<1>b. asked' \subseteq asked
  BY DEF Command, ReadRuns, ReadRun, ReadJob, StartCommand, OpenSaved, DeleteSaved, Clean, Answers
<1>1. ASSUME NEW ok \in BOOLEAN, ReadRuns(ok) PROVE TypeOK'
  <2> DEFINE list == IF ok THEN [ids |-> {i \in Ids : disk[i] > 0}] ELSE NotRead
  <2>a. list \in Lists
    BY DEF Lists
  <2>1. [msg |-> "runs", list |-> list] \in Messages
    BY <2>a DEF Messages
  <2> QED
    BY <1>1, <1>a, <2>1 DEF ReadRuns, Answers, TypeOK, world, tui
<1>2. ASSUME NEW i \in Shown, ReadRun(i) PROVE TypeOK'
  <2>1. Show(i) \in BOOLEAN
    BY DEF Show
  <2>2. [msg |-> "run", id |-> i, found |-> Show(i)] \in Messages
    BY <2>1 DEF Messages
  <2> QED
    BY <1>2, <1>a, <2>2 DEF ReadRun, Answers, TypeOK, world, tui
<1>3. ASSUME NEW i \in Shown, ReadJob(i) PROVE TypeOK'
  <2>1. IF i \in Ids THEN Status(i) \in {"none", "alive", "over"} ELSE i = NoRun /\ Status(i) = "none"
    BY DEF Status, TypeOK, Shown
  <2>2. [msg |-> "job", id |-> i, status |-> Status(i)] \in Messages
    BY <2>1 DEF Messages
  <2> QED
    BY <1>3, <1>a, <2>2 DEF ReadJob, Answers, TypeOK, world, tui
<1>4. ASSUME NEW i \in Ids, NEW b \in BOOLEAN, StartCommand(i, b) \/ OpenSaved(i) \/ DeleteSaved(i) PROVE TypeOK'
  <2>1. /\ [msg |-> "started", id |-> i, blind |-> b] \in Messages
        /\ [msg |-> "savedRun", id |-> i] \in Messages
        /\ [msg |-> "deleted", id |-> i] \in Messages
    BY DEF Messages
  <2>2. sent' \subseteq Messages
    BY <1>4, <2>1 DEF StartCommand, OpenSaved, DeleteSaved, Answers, TypeOK
  <2>3. /\ disk' = disk /\ old' = old /\ saved' \subseteq saved
        /\ job' \in [Ids -> {"none", "alive", "over"}]
    BY <1>4 DEF StartCommand, OpenSaved, DeleteSaved, world, TypeOK
  <2> QED
    BY <1>a, <1>b, <2>2, <2>3 DEF TypeOK, tui
<1>5. ASSUME NEW c \in asked, c.do = "clean", Clean(c.keep) PROVE TypeOK'
  <2>1. [msg |-> "cleaned"] \in Messages
    BY DEF Messages
  <2>2. disk' \in [Ids -> 0 .. Last] /\ old' \subseteq old /\ job' = job /\ saved' = saved
    BY <1>5, LastIsNat DEF Clean, TypeOK
  <2> QED
    BY <1>5, <1>a, <1>b, <2>1, <2>2 DEF Clean, Answers, TypeOK, tui
<1> QED
  BY <1>1, <1>2, <1>3, <1>4, <1>5 DEF Command

(* A non-empty set of naturals has a least element, and a greatest one when    *)
(* it is bounded.                                                              *)
LEMMA LeastExists ==
  ASSUME NEW S \in SUBSET Nat, S # {}
  PROVE  \E x \in S : \A y \in S : x <= y
<1> DEFINE R == OpToRel(<, Nat)
<1>1. \E x \in S : \A y \in S : ~ (<<y, x>> \in R)
  BY WFMin, NatLessThanWellFounded, Zenon
<1>2. \A x, y \in Nat : y < x => <<y, x>> \in R
  BY DEF OpToRel
<1> HIDE DEF R
<1>3. \A x, y \in Nat : ~ (<<y, x>> \in R) => x <= y
  BY <1>2
<1> QED
  BY <1>1, <1>3

LEMMA GreatestExists ==
  ASSUME NEW n \in Nat, NEW S \in SUBSET (1 .. n), S # {}
  PROVE  \E x \in S : \A y \in S : y <= x
<1> DEFINE T == {n - x : x \in S}
<1>1. T \in SUBSET Nat /\ T # {}
  <2>1. \A x \in S : x \in Nat /\ n - x \in Nat
    OBVIOUS
  <2>2. PICK x \in S : TRUE
    OBVIOUS
  <2>3. n - x \in T
    OBVIOUS
  <2> QED
    BY <2>1, <2>3
<1>2. PICK t \in T : \A u \in T : t <= u
  BY <1>1, LeastExists
<1>3. PICK x \in S : t = n - x
  BY <1>2
<1> QED
  BY <1>2, <1>3

LEMMA NewestIsShown == ASSUME NEW ids \in SUBSET Ids PROVE Newest(ids) \in Shown
<1>1. CASE ids = {}
  BY <1>1 DEF Newest, Shown
<1>2. CASE ids # {}
  <2>1. \E i \in ids : \A k \in ids : k <= i
    BY <1>2, GreatestExists, RunScreenAssumption DEF Ids
  <2> QED
    BY <1>2, <2>1 DEF Newest, Shown
<1> QED
  BY <1>1, <1>2

(* The name taken for a new run is not on the cached list.                     *)
LEMMA NextNameIsNew == ASSUME TypeOK PROVE NextName \notin Named(runs)
<1> DEFINE S == {i \in 1 .. NumRuns + 1 : i \notin Named(runs)}
<1>1. Named(runs) \subseteq Ids
  BY DEF TypeOK, Named, Lists
<1>2. S \in SUBSET Nat /\ NumRuns + 1 \in S
  BY <1>1, RunScreenAssumption DEF Ids
<1>3. PICK i \in S : \A k \in S : i <= k
  BY <1>2, LeastExists
<1>4. \A k \in 1 .. i - 1 : k \in Named(runs)
  BY <1>3, RunScreenAssumption
<1> QED
  BY <1>3, <1>4 DEF NextName

(* The handlers and the keys: the world is left alone.                         *)
LEMMA MessageTyped == TypeOK /\ Message => TypeOK'
<1> SUFFICES ASSUME TypeOK, Message PROVE TypeOK'
  OBVIOUS
<1>a. /\ world' = world
      /\ disk' \in [Ids -> 0 .. Last] /\ job' \in [Ids -> {"none", "alive", "over"}]
      /\ old' \subseteq Ids /\ saved' \subseteq Ids
  BY DEF Message, Answer, RunsMsg, RunMsg, JobMsg, StartedMsg, SavedRunMsg, DeletedMsg, CleanedMsg, TickMsg, world, TypeOK
<1>b. sent' \subseteq Messages
  BY DEF Message, Answer, RunsMsg, RunMsg, JobMsg, StartedMsg, SavedRunMsg, DeletedMsg, CleanedMsg, TickMsg, Takes, TypeOK
<1>c. /\ [do |-> "runs"] \in Commands
      /\ \A i \in Shown : [do |-> "run", id |-> i] \in Commands /\ [do |-> "job", id |-> i] \in Commands
  BY DEF Commands
<1>1. ASSUME NEW m \in sent, m.msg = "runs", RunsMsg(m.list) PROVE TypeOK'
  <2>0. m.list \in Lists
    BY <1>1 DEF TypeOK, Messages
  <2>1. Named(m.list) \in SUBSET Ids
    BY <2>0 DEF Named, Lists
  <2>2. Newest(Named(m.list)) \in Shown
    BY <2>1, NewestIsShown
  <2>a. asked' \subseteq asked \union {[do |-> "run", id |-> Newest(Named(m.list))]}
    BY <1>1 DEF RunsMsg, Asks
  <2>3. asked' \subseteq Commands
    BY <1>c, <2>2, <2>a DEF TypeOK
  <2>4. run' \in Shown /\ runs' \in Lists
    BY <1>1, <2>0 DEF RunsMsg, TypeOK, Shown
  <2>5. shownJob' \in [id : Ids, alive : BOOLEAN] \union {NoJob}
    BY <1>1 DEF RunsMsg, TypeOK
  <2>6. UNCHANGED <<readOnly, runSet, ticking, ticks, session, blind>>
    BY <1>1 DEF RunsMsg
  <2> QED
    BY <1>a, <1>b, <2>3, <2>4, <2>5, <2>6 DEF TypeOK
<1>2. ASSUME NEW m \in sent, m.msg = "run", RunMsg(m.id, m.found) PROVE TypeOK'
  <2>1. m.id \in Shown
    BY <1>2 DEF TypeOK, Messages
  <2>a. asked' \subseteq asked \union {[do |-> "job", id |-> m.id]}
    BY <1>2 DEF RunMsg, Asks
  <2>b. asked' \subseteq Commands
    BY <1>c, <2>1, <2>a DEF TypeOK
  <2>c. run' = run \/ run' = m.id
    BY <1>2 DEF RunMsg
  <2>2. asked' \subseteq Commands /\ run' \in Shown
    BY <2>1, <2>b, <2>c DEF TypeOK
  <2>3. UNCHANGED <<runs, readOnly, runSet, shownJob, ticking, ticks, session, blind>>
    BY <1>2 DEF RunMsg
  <2> QED
    BY <1>a, <1>b, <2>2, <2>3 DEF TypeOK
<1>3. ASSUME NEW m \in sent, m.msg = "job", JobMsg(m.id, m.status) PROVE TypeOK'
  <2>1. m.status \in {"none", "alive", "over"} /\ (m.status # "none" => m.id \in Ids)
    BY <1>3 DEF TypeOK, Messages
  <2>2. shownJob' \in [id : Ids, alive : BOOLEAN] \union {NoJob}
    BY <1>3, <2>1 DEF JobMsg, JobOf
  <2>3. ticks' \in Nat /\ (ticking' = TRUE \/ ticking' = ticking)
    BY <1>3 DEF JobMsg, TypeOK
  <2>4. UNCHANGED <<runs, run, readOnly, runSet, session, blind, asked>>
    BY <1>3 DEF JobMsg
  <2> QED
    BY <1>a, <1>b, <2>2, <2>3, <2>4 DEF TypeOK
<1>4. ASSUME NEW i \in Ids, NEW b \in BOOLEAN, StartedMsg(i, b) PROVE TypeOK'
  <2>1. /\ run' \in Shown
        /\ shownJob' \in [id : Ids, alive : BOOLEAN]
    BY <1>4, LastIsNat DEF StartedMsg, Shown
  <2>2. session' \in Seq(Ids) /\ blind' \subseteq Ids /\ ticks' \in Nat
    BY <1>4 DEF StartedMsg, TypeOK
  <2>3. asked' \subseteq Commands
    BY <1>4, <1>c DEF StartedMsg, Asks, TypeOK, Shown
  <2>4. readOnly' = FALSE /\ runSet' = TRUE /\ ticking' = TRUE /\ runs' = runs
    BY <1>4 DEF StartedMsg
  <2> QED
    BY <1>a, <1>b, <2>1, <2>2, <2>3, <2>4 DEF TypeOK
<1>5. ASSUME NEW i \in Ids, SavedRunMsg(i) PROVE TypeOK'
  <2>1. run' \in Shown /\ shownJob' = NoJob
    BY <1>5, LastIsNat DEF SavedRunMsg, Shown
  <2>2. readOnly' = TRUE /\ runSet' = TRUE /\ UNCHANGED <<runs, ticking, ticks, session, blind, asked>>
    BY <1>5 DEF SavedRunMsg
  <2> QED
    BY <1>a, <1>b, <2>1, <2>2 DEF TypeOK
<1>6. ASSUME NEW i \in Ids, DeletedMsg(i) PROVE TypeOK'
  <2>1. run' \in Shown /\ (readOnly' = FALSE \/ readOnly' = readOnly)
    BY <1>6, LastIsNat DEF DeletedMsg, Shown, TypeOK
  <2>2. UNCHANGED <<runs, runSet, shownJob, ticking, ticks, session, blind, asked>>
    BY <1>6 DEF DeletedMsg
  <2> QED
    BY <1>a, <1>b, <2>1, <2>2 DEF TypeOK
<1>7. ASSUME CleanedMsg PROVE TypeOK'
  BY <1>7, <1>a, <1>b, <1>c DEF CleanedMsg, Asks, TypeOK, tui
<1>8. ASSUME TickMsg PROVE TypeOK'
  <2>1. asked' \subseteq Commands
    BY <1>8, <1>c DEF TickMsg, Polls, Asks, TypeOK
  <2>2. ticks' \in Nat /\ (ticking' = FALSE \/ ticking' = ticking)
    BY <1>8 DEF TickMsg, TypeOK
  <2>3. UNCHANGED <<runs, run, readOnly, runSet, shownJob, session, blind>>
    BY <1>8 DEF TickMsg
  <2> QED
    BY <1>a, <1>b, <2>1, <2>2, <2>3 DEF TypeOK
<1> QED
  BY <1>1, <1>2, <1>3, <1>4, <1>5, <1>6, <1>7, <1>8 DEF Message, Answer

LEMMA SessionRunsAreRuns == TypeOK => SessionRuns \subseteq Ids
  BY DEF TypeOK, SessionRuns

LEMMA KeyTyped == TypeOK /\ Key => TypeOK'
<1> SUFFICES ASSUME TypeOK, Key PROVE TypeOK'
  OBVIOUS
<1>1. UNCHANGED <<world, tui, sent>>
  BY DEF Key, PressRun, PressClean, PressOpenSaved, PressDeleteSaved
<1>2. asked' \subseteq Commands
  <2>1. CASE PressRun
    <3>1. [do |-> "start", id |-> NextName, blind |-> runs = NotRead] \in Commands
      BY <2>1 DEF PressRun, Commands
    <3> QED
      BY <2>1, <3>1 DEF PressRun, Asks, TypeOK
  <2>2. CASE PressClean
    <3>1. SessionRuns \union ({run} \ {NoRun}) \in SUBSET Ids
      BY SessionRunsAreRuns DEF TypeOK, Shown
    <3> QED
      BY <2>2, <3>1 DEF PressClean, Asks, Commands, TypeOK
  <2>3. ASSUME NEW i \in Ids, PressOpenSaved(i) \/ PressDeleteSaved(i) PROVE asked' \subseteq Commands
    BY <2>3 DEF PressOpenSaved, PressDeleteSaved, Asks, Commands, TypeOK
  <2> QED
    BY <2>1, <2>2, <2>3 DEF Key
<1> QED
  BY <1>1, <1>2 DEF TypeOK, world, tui

LEMMA NextTyped == TypeOK /\ [Next]_vars => TypeOK'
<1>1. TypeOK /\ UNCHANGED vars => TypeOK'
  BY DEF TypeOK, vars, world, tui
<1> QED
  BY <1>1, WorldTyped, CommandTyped, MessageTyped, KeyTyped DEF Next

(* Every state of the screen and of what is under way has its type.            *)
THEOREM RunScreenTyped == Spec => []TypeOK
<1> QED
  BY InitTyped, NextTyped, PTL DEF Spec

-----------------------------------------------------------------------------
(* Ticks.                                                                      *)
TickInv == LivePolled /\ ChainsCounted

LEMMA TickInit == Init => TickInv
  BY DEF Init, TickInv, LivePolled, ChainsCounted, NoJob

LEMMA TickStep == TypeOK /\ TickInv /\ [Next]_vars => TickInv'
<1> SUFFICES ASSUME TypeOK, TickInv, [Next]_vars PROVE TickInv'
  OBVIOUS
<1>a. ticks \in Nat /\ session \in Seq(Ids) /\ Len(session) \in Nat
  BY DEF TypeOK
<1> USE DEF TickInv, LivePolled, ChainsCounted
<1>1. CASE UNCHANGED <<shownJob, ticking, ticks, session>>
  BY <1>1
<1>2. ASSUME NEW ids, RunsMsg(ids) PROVE TickInv'
  BY <1>2 DEF RunsMsg, NoJob
<1>3. ASSUME NEW i, NEW s, JobMsg(i, s) PROVE TickInv'
  <2>1. shownJob'.alive => s = "alive"
    BY <1>3 DEF JobMsg, JobOf, NoJob
  <2>2. session' = session
    BY <1>3 DEF JobMsg
  <2>3. CASE TicksAfter(s)
    BY <1>a, <1>3, <2>2, <2>3 DEF JobMsg, TicksAfter
  <2>4. CASE ~ TicksAfter(s)
    BY <1>3, <2>1, <2>2, <2>4 DEF JobMsg, TicksAfter
  <2> QED
    BY <2>3, <2>4
<1>4. ASSUME NEW i \in Ids, NEW b, StartedMsg(i, b) PROVE TickInv'
  <2>1. Len(session') = Len(session) + 1
    BY <1>4, <1>a DEF StartedMsg
  <2>2. ticking' = TRUE /\ ticks' = ticks + 1
    BY <1>4 DEF StartedMsg
  <2> QED
    BY <1>a, <2>1, <2>2
<1>5. ASSUME NEW i, SavedRunMsg(i) PROVE TickInv'
  BY <1>5 DEF SavedRunMsg, NoJob
<1>6. ASSUME TickMsg PROVE TickInv'
  BY <1>6, <1>a DEF TickMsg
<1>7. ASSUME World \/ Command \/ Key \/ CleanedMsg \/ UNCHANGED vars PROVE TickInv'
  <2>1. UNCHANGED tui
    BY <1>7 DEF World, StageLands, JobEnds, Command, ReadRuns, ReadRun, ReadJob, StartCommand, OpenSaved, DeleteSaved, Clean,
                Key, PressRun, PressClean, PressOpenSaved, PressDeleteSaved, CleanedMsg, vars
  <2> QED
    BY <1>1, <2>1 DEF tui
<1>8. ASSUME NEW i, NEW v, RunMsg(i, v) \/ DeletedMsg(i) PROVE TickInv'
  BY <1>1, <1>8 DEF RunMsg, DeletedMsg
<1> QED
  BY <1>2, <1>3, <1>4, <1>5, <1>6, <1>7, <1>8 DEF Next, Message, Answer

(* A live job on screen always has a tick pending, for any number of runs.     *)
THEOREM LiveJobsArePolled == Spec => []LiveIsPolled
<1>1. TickInv => LiveIsPolled
  BY DEF TickInv, LivePolled, ChainsCounted, LiveIsPolled
<1> QED
  BY <1>1, InitTyped, NextTyped, TickInit, TickStep, PTL DEF Spec

(* However many runs a session starts, each adds at most one chain of ticks.   *)
THEOREM TicksDoNotMultiply == Spec => []ChainsPerStart
<1>1. TypeOK /\ TickInv => ChainsPerStart
  <2> SUFFICES ASSUME TypeOK, TickInv PROVE ChainsPerStart
    OBVIOUS
  <2>1. ticks \in Nat /\ Len(session) \in Nat
    BY DEF TypeOK
  <2> QED
    BY <2>1 DEF TickInv, ChainsCounted, ChainsPerStart
<1> QED
  BY <1>1, InitTyped, NextTyped, TickInit, TickStep, PTL DEF Spec

-----------------------------------------------------------------------------
(* Clean.                                                                      *)
NameInv == ListsNameOld /\ OldHaveFolders /\ StartsNotOld

LEMMA NameInit == Init => NameInv
<1> SUFFICES ASSUME Init PROVE NameInv
  OBVIOUS
<1>1. OldHaveFolders
  BY RunScreenAssumption DEF Init, OldHaveFolders
<1>2. ListsNameOld
  BY DEF Init, ListsNameOld
<1>3. SessionRuns = {}
  BY DEF Init, SessionRuns
<1>4. StartsNotOld
  BY <1>3 DEF Init, StartsNotOld
<1> QED
  BY <1>1, <1>2, <1>4 DEF NameInv

LEMMA NameStep == TypeOK /\ NameInv /\ [Next]_vars => NameInv'
<1> SUFFICES ASSUME TypeOK, NameInv, [Next]_vars PROVE NameInv'
  OBVIOUS
<1> USE DEF NameInv
<1>a. old \subseteq Ids /\ disk \in [Ids -> 0 .. Last] /\ session \in Seq(Ids)
  BY DEF TypeOK
\* when no folder becomes older and no list, name or start comes up, nothing can break
<1>b. ASSUME old' \subseteq old, UNCHANGED <<runs, session, blind>>,
             \A c \in asked' : c.do = "start" => c \in asked,
             \A m \in sent' : m.msg \in {"runs", "started"} => m \in sent
      PROVE  ListsNameOld' /\ StartsNotOld'
  BY <1>b DEF ListsNameOld, StartsNotOld, SessionRuns
<1>1. ASSUME NEW i \in Ids, StageLands(i) \/ JobEnds(i) PROVE NameInv'
  <2>1. old' \subseteq old /\ UNCHANGED <<runs, session, blind, asked, sent>>
    BY <1>1 DEF StageLands, JobEnds, tui
  <2>2. OldHaveFolders'
    BY <1>1, <1>a DEF StageLands, JobEnds, OldHaveFolders
  <2> QED
    BY <1>b, <2>1, <2>2
<1>2. ASSUME NEW ok \in BOOLEAN, ReadRuns(ok) PROVE NameInv'
  <2>1. UNCHANGED <<old, disk, runs, session, blind>> /\ asked' \subseteq asked
    BY <1>2 DEF ReadRuns, Answers, world, tui
  <2>2. \A m \in sent' : m \in sent \/ (m.msg = "runs" /\ m.list \in {NotRead, [ids |-> {i \in Ids : disk[i] > 0}]})
    BY <1>2 DEF ReadRuns, Answers
  <2>3. old \subseteq {i \in Ids : disk[i] > 0}
    BY <1>a DEF OldHaveFolders
  <2>4. ListsNameOld'
    BY <2>1, <2>2, <2>3 DEF ListsNameOld
  <2>5. StartsNotOld'
    BY <2>1, <2>2 DEF StartsNotOld, SessionRuns
  <2> QED
    BY <2>1, <2>4, <2>5 DEF OldHaveFolders
<1>3. ASSUME NEW i, ReadRun(i) \/ ReadJob(i) PROVE NameInv'
  <2>1. UNCHANGED <<old, disk, runs, session, blind>> /\ asked' \subseteq asked
    BY <1>3 DEF ReadRun, ReadJob, Answers, world, tui
  <2>2. \A m \in sent' : m.msg \in {"runs", "started"} => m \in sent
    BY <1>3 DEF ReadRun, ReadJob, Answers
  <2> QED
    BY <1>b, <2>1, <2>2 DEF OldHaveFolders
<1>4. ASSUME NEW i \in Ids, NEW b \in BOOLEAN, StartCommand(i, b) PROVE NameInv'
  <2>1. UNCHANGED <<old, disk, runs, session, blind>> /\ asked' \subseteq asked
    BY <1>4 DEF StartCommand, Answers, tui
  <2>2. [do |-> "start", id |-> i, blind |-> b] \in asked
    BY <1>4 DEF StartCommand
  <2>3. ~ b => i \notin old
    BY <2>2 DEF StartsNotOld
  <2>4. \A m \in sent' : m \in sent \/ m = [msg |-> "started", id |-> i, blind |-> b]
    BY <1>4 DEF StartCommand, Answers
  <2>5. ListsNameOld'
    BY <2>1, <2>4 DEF ListsNameOld
  <2>6. StartsNotOld'
    BY <2>1, <2>3, <2>4 DEF StartsNotOld, SessionRuns
  <2> QED
    BY <2>1, <2>5, <2>6 DEF OldHaveFolders
<1>5. ASSUME NEW i \in Ids, OpenSaved(i) \/ DeleteSaved(i) PROVE NameInv'
  <2>1. UNCHANGED <<old, disk, runs, session, blind>> /\ asked' \subseteq asked
    BY <1>5 DEF OpenSaved, DeleteSaved, Answers, world, tui
  <2>2. \A m \in sent' : m.msg \in {"runs", "started"} => m \in sent
    BY <1>5 DEF OpenSaved, DeleteSaved, Answers
  <2> QED
    BY <1>b, <2>1, <2>2 DEF OldHaveFolders
<1>6. ASSUME NEW keep, Clean(keep) PROVE NameInv'
  <2>1. old' = old \ Cleaned(keep) /\ UNCHANGED <<runs, session, blind>> /\ asked' \subseteq asked
    BY <1>6 DEF Clean, Answers, tui
  <2>2. \A m \in sent' : m.msg \in {"runs", "started"} => m \in sent
    BY <1>6 DEF Clean, Answers
  <2>3. \A i \in old' : disk'[i] = disk[i]
    BY <1>6, <1>a, <2>1 DEF Clean
  <2>4. OldHaveFolders'
    BY <2>1, <2>3 DEF OldHaveFolders
  <2> QED
    BY <1>b, <2>1, <2>2, <2>4
<1>7. ASSUME NEW m \in sent, m.msg = "runs", RunsMsg(m.list) PROVE NameInv'
  <2>1. UNCHANGED <<old, disk, session, blind>> /\ runs' = m.list /\ sent' \subseteq sent
    BY <1>7 DEF RunsMsg, Takes, world
  <2>2. \A c \in asked' : c.do = "start" => c \in asked
    BY <1>7 DEF RunsMsg, Asks
  <2>3. ListsNameOld'
    BY <1>7, <2>1 DEF ListsNameOld
  <2>4. StartsNotOld'
    BY <2>1, <2>2 DEF StartsNotOld, SessionRuns
  <2> QED
    BY <2>1, <2>3, <2>4 DEF OldHaveFolders
<1>8. ASSUME NEW i \in Ids, NEW b \in BOOLEAN, StartedMsg(i, b) PROVE NameInv'
  <2>1. UNCHANGED <<old, disk, runs>> /\ sent' \subseteq sent
    BY <1>8 DEF StartedMsg, Takes, world
  <2>2. \A c \in asked' : c.do = "start" => c \in asked
    BY <1>8 DEF StartedMsg, Asks
  <2>3. ~ b => i \notin old
    BY <1>8 DEF StartedMsg, Takes, StartsNotOld
  <2>4. \A k \in SessionRuns' \ blind' : (k = i /\ ~ b) \/ k \in SessionRuns \ blind
    BY <1>8, <1>a DEF StartedMsg, SessionRuns
  <2>5. StartsNotOld'
    BY <2>1, <2>2, <2>3, <2>4 DEF StartsNotOld
  <2> QED
    BY <2>1, <2>5 DEF OldHaveFolders, ListsNameOld
<1>9. ASSUME NEW i, NEW v, RunMsg(i, v) \/ JobMsg(i, v) \/ SavedRunMsg(i) \/ DeletedMsg(i) \/ CleanedMsg \/ TickMsg
      PROVE  NameInv'
  <2>1. UNCHANGED <<old, disk, runs, session, blind>>
    BY <1>9 DEF RunMsg, JobMsg, SavedRunMsg, DeletedMsg, CleanedMsg, TickMsg, world, tui
  <2>2. sent' \subseteq sent
    BY <1>9 DEF RunMsg, JobMsg, SavedRunMsg, DeletedMsg, CleanedMsg, TickMsg, Takes
  <2>3. \A c \in asked' : c.do = "start" => c \in asked
    BY <1>9 DEF RunMsg, JobMsg, SavedRunMsg, DeletedMsg, CleanedMsg, TickMsg, Asks, Polls
  <2> QED
    BY <1>b, <2>1, <2>2, <2>3 DEF OldHaveFolders
<1>10. ASSUME PressRun PROVE NameInv'
  <2>1. UNCHANGED <<old, disk, runs, session, blind, sent>>
    BY <1>10 DEF PressRun, world, tui
  <2>2. runs # NotRead => NextName \notin old
    BY NextNameIsNew DEF ListsNameOld, Named
  <2>3. \A c \in asked' : c \in asked \/ c = [do |-> "start", id |-> NextName, blind |-> runs = NotRead]
    BY <1>10 DEF PressRun, Asks
  <2>a. \A c \in asked' : c.do = "start" /\ ~ c.blind => c.id \notin old
    <3> SUFFICES ASSUME NEW c \in asked', c.do = "start", ~ c.blind PROVE c.id \notin old
      OBVIOUS
    <3>1. CASE c \in asked
      BY <3>1 DEF StartsNotOld
    <3>2. CASE c = [do |-> "start", id |-> NextName, blind |-> runs = NotRead]
      <4>1. c.id = NextName /\ c.blind = (runs = NotRead)
        BY <3>2
      <4> QED
        BY <4>1, <2>2
    <3> QED
      BY <2>3, <3>1, <3>2
  <2>4. StartsNotOld'
    BY <2>1, <2>a DEF StartsNotOld, SessionRuns
  <2> QED
    BY <2>1, <2>4 DEF OldHaveFolders, ListsNameOld
<1>11. ASSUME NEW i, PressClean \/ PressOpenSaved(i) \/ PressDeleteSaved(i) PROVE NameInv'
  <2>1. UNCHANGED <<old, disk, runs, session, blind, sent>>
    BY <1>11 DEF PressClean, PressOpenSaved, PressDeleteSaved, world, tui
  <2>2. \A c \in asked' : c.do = "start" => c \in asked
    BY <1>11 DEF PressClean, PressOpenSaved, PressDeleteSaved, Asks
  <2> QED
    BY <1>b, <2>1, <2>2 DEF OldHaveFolders
<1>12. CASE UNCHANGED vars
  BY <1>b, <1>12 DEF vars, world, tui, OldHaveFolders
<1> QED
  BY <1>1, <1>2, <1>3, <1>4, <1>5, <1>6, <1>7, <1>8, <1>9, <1>10, <1>11, <1>12 DEF Next, World, Command, Message, Answer, Key

LEMMA SessionRunStays ==
  TypeOK /\ NameInv /\ [Next]_vars => [\A i \in SessionRuns \ blind : disk[i] > 0 => disk'[i] > 0]_vars
<1> SUFFICES ASSUME TypeOK, NameInv, Next, NEW i \in SessionRuns \ blind, disk[i] > 0 PROVE disk'[i] > 0
  OBVIOUS
<1>1. i \in Ids /\ i \notin old /\ disk \in [Ids -> 0 .. Last]
  BY SessionRunsAreRuns DEF TypeOK, NameInv, StartsNotOld
<1>2. ASSUME NEW keep, Clean(keep) PROVE disk'[i] > 0
  BY <1>1, <1>2 DEF Clean, Cleaned
<1>3. ASSUME NEW k \in Ids, StageLands(k) PROVE disk'[i] > 0
  BY <1>1, <1>3 DEF StageLands
<1>4. CASE UNCHANGED disk
  BY <1>4
<1>5. ASSUME NEW k, JobEnds(k) PROVE UNCHANGED disk
  BY <1>5 DEF JobEnds
<1>6. ASSUME NEW k, NEW b, ReadRuns(b) \/ ReadRun(k) \/ ReadJob(k) \/ StartCommand(k, b) \/ OpenSaved(k) \/ DeleteSaved(k) PROVE UNCHANGED disk
  BY <1>6 DEF ReadRuns, ReadRun, ReadJob, StartCommand, OpenSaved, DeleteSaved, world
<1>7. ASSUME Message \/ Key PROVE UNCHANGED disk
  BY <1>7 DEF Message, Answer, RunsMsg, RunMsg, JobMsg, StartedMsg, SavedRunMsg, DeletedMsg, CleanedMsg, TickMsg,
              Key, PressRun, PressClean, PressOpenSaved, PressDeleteSaved, world
<1> QED
  BY <1>2, <1>3, <1>4, <1>5, <1>6, <1>7 DEF Next, World, Command

(* Clean removes no run of this session whose name was taken from a list that  *)
(* was read, however stale that list and however old the keep list.            *)
THEOREM CleanKeepsTheSession == Spec => SessionRunsKept
<1> QED
  BY InitTyped, NextTyped, NameInit, NameStep, SessionRunStays, PTL DEF Spec, SessionRunsKept
=============================================================================
