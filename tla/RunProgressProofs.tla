------------------------- MODULE RunProgressProofs -------------------------
(* Proofs about RunProgress: what ReadProgress makes of the end of a log of    *)
(* any length, and what the bar then shows. The log is cut to the window       *)
(* before every read, so each fact about a reading is first a fact about the   *)
(* lines, and an induction over their number turns it into one about Reads.    *)
EXTENDS RunProgress, TLAPS, SequenceTheorems, FiniteSetTheorems, WellFoundedInduction

-----------------------------------------------------------------------------
(* The invariant. *)

MaxStages == MaxSetup + Len(StepSeconds)

Lines ==
  [k : {"job", "other", "pipeline done"}]
  \union [k : {"steps"}, n : 1 .. Len(StepSeconds)]
  \union [k : {"counted"}, flags : Seq(BOOLEAN)]
  \union [k : {"expect"}, seconds : Seq((Nat \ {0}))]
  \union [k : {"start", "skipped", "done", "failed", "detail"}, stage : Nat \ {0}]
  \union [k : {"progress"}, stage : Nat \ {0}, sub : 1 .. Parts]

Known ==
  [done : Nat, total : 0 .. Len(StepSeconds), flags : Seq(BOOLEAN), seconds : Seq((Nat \ {0})), started : Nat,
   counted : BOOLEAN, current : Nat, sub : 0 .. Parts, finished : BOOLEAN, failed : Nat]

(* The lines a reader takes for the current job's.                             *)
Cur == Current(log)

(* They begin with the pipeline's head.                                        *)
Whole(lines) == lines # <<>> /\ lines[1].k = "steps"

(* The counted stages among the first n.                                       *)
Steps(n) == IF n > plan.setup THEN n - plan.setup ELSE 0

PlanWeights == IF plan.printed THEN plan.seconds ELSE [i \in 1 .. Len(plan.seconds) |-> SameForAll]

(* The log is made of lines, no more than the window holds.                    *)
LogInv == log \in Seq(Lines) /\ Len(log) <= Window /\ (jobs = 0 => log = <<>>)

(* The pipeline's place tells what it has started and said.                    *)
PipeInv ==
  /\ pc # "over" => jobs > 0 /\ outcome = "none"
  /\ jobs > 0 => plan \in Plans
  /\ jobs = 0 => outcome = "none"
  /\ pc \in {"steps", "counted", "expect"} => stage = 0
  /\ pc = "expect" => plan.printed
  /\ pc = "stage" => stage > 0
  /\ outcome = "failed" => stage > 0
  /\ outcome = "finished" => stage = Stages

(* The current job's lines tell its outcome, and nobody else's; the stages it  *)
(* says are done come in order.                                                *)
OutcomeInv ==
  /\ \A i \in DOMAIN Cur :
       /\ Cur[i].k = "failed" => outcome = "failed" /\ Cur[i].stage = stage
       /\ Cur[i].k = "pipeline done" => outcome = "finished"
       /\ Cur[i].k = "done" => Cur[i].stage <= stage /\ (pc = "stage" => Cur[i].stage < stage)
  /\ outcome = "failed" => \E i \in DOMAIN Cur : Cur[i].k = "failed"
  /\ outcome = "finished" => \E i \in DOMAIN Cur : Cur[i].k = "pipeline done"
  /\ \A i, j \in DOMAIN Cur : i < j /\ Cur[i].k = "done" /\ Cur[j].k = "done" => Cur[i].stage < Cur[j].stage

(* What p tells of the pipeline, while its head is among the lines.            *)
Agrees(p) ==
  /\ p.total = Len(plan.seconds)
  /\ stage > 0 \/ pc \in {"expect", "next", "stage"} => p.flags = [i \in 1 .. Stages |-> Counts(i)]
  /\ pc \in {"counted", "expect"} => p.seconds = <<>>
  /\ stage > 0 \/ pc \in {"next", "stage"} => p.seconds = IF plan.printed THEN plan.seconds ELSE <<>>
  /\ p.started = stage
  /\ (p.counted <=> stage = 0 \/ Counts(stage))
  /\ p.current \in {0, stage}
  /\ pc = "stage" => p.current = stage /\ p.sub = sub
  /\ pc \notin {"stage", "over"} \/ outcome # "none" => p.current = 0
  /\ p.done = Steps(IF p.current # 0 \/ outcome = "failed" THEN stage - 1 ELSE stage)

HeadInv ==
  /\ pc = "steps" => ~ Whole(Cur)
  /\ Whole(Cur) => Agrees(ReadAll(Cur))

(* p tells of no step that has not begun.                                      *)
NotAhead(p) ==
  /\ p.finished => outcome = "finished"
  /\ \/ p.finished \/ InSetup(p) \/ p.total = 0
     \/ Weights(p) = PlanWeights /\ p.done <= Steps(stage) /\ (p.current # 0 => p.done < Steps(stage))

Sound(r) ==
  LET p == ReadProgress(r.lines) IN
  /\ r.job \in 0 .. jobs
  /\ p \in Known /\ p.done <= MaxStages
  /\ r.job = jobs /\ jobs > 0 => NotAhead(p)

ReadsInv == IsFiniteSet(answers) /\ \A r \in answers \union {seen} : Sound(r)

BarInv == bar.job = seen.job /\ BarNotAhead

PipeTypeOK ==
  /\ jobs \in 0 .. MaxJobs /\ plan \in Plans \union {NoPlan}
  /\ pc \in {"steps", "counted", "expect", "next", "stage", "over"}
  /\ stage \in 0 .. Stages /\ sub \in 0 .. Parts
  /\ outcome \in {"none", "failed", "finished"} /\ other \in 0 .. MaxOther

CoreInv == PipeTypeOK /\ LogInv /\ PipeInv /\ OutcomeInv /\ HeadInv
IInv == TypeOK /\ CoreInv /\ ReadsInv /\ BarInv

(* A full bar comes from a reading that was finished, the one on screen.       *)
FullInv == bar.full > AlmostFull => ReadProgress(seen.lines).finished

-----------------------------------------------------------------------------
(* Induction over the numbers up to n, for a set of them, and the functions    *)
(* that are defined by recursion.                                              *)

LEMMA LeastExists ==
  ASSUME NEW K \in SUBSET Nat, K # {}
  PROVE  \E k \in K : \A j \in K : k <= j
<1>1. PICK k \in K : \A j \in K : ~(<<j, k>> \in OpToRel(<, Nat))
  BY NatLessThanWellFounded, WFMin
<1>2. ASSUME NEW j \in K PROVE k <= j
  <2>1. <<j, k>> \in Nat \X Nat /\ <<j, k>>[1] = j /\ <<j, k>>[2] = k
    OBVIOUS
  <2>2. ~(j < k)
    BY <1>1, <2>1 DEF OpToRel
  <2> QED
    BY <2>2
<1> QED
  BY <1>2

LEMMA UpTo ==
  ASSUME NEW n \in Nat, NEW S, 0 \in S, \A i \in 0 .. n - 1 : i \in S => i + 1 \in S
  PROVE  \A i \in 0 .. n : i \in S
<1> DEFINE K == {i \in 0 .. n : i \notin S}
<1>1. SUFFICES ASSUME K # {} PROVE FALSE
  OBVIOUS
<1>2. PICK k \in K : \A j \in K : k <= j
  <2>1. K \in SUBSET Nat
    OBVIOUS
  <2> HIDE DEF K
  <2> QED
    BY <1>1, <2>1, LeastExists
<1>3. k # 0 /\ k \in Nat
  BY <1>2
<1>4. k - 1 \in 0 .. n - 1 /\ k - 1 \in S
  BY <1>2, <1>3
<1> QED
  BY <1>2, <1>4

LEMMA ReadingsOf ==
  ASSUME NEW lines, Len(lines) \in Nat
  PROVE  /\ Readings(lines)[0] = Blank
         /\ \A i \in 1 .. Len(lines) : Readings(lines)[i] = Reads(Readings(lines)[i - 1], lines[i])
<1> DEFINE Fits(f, n) == f = [i \in 0 .. n |-> IF i = 0 THEN Blank ELSE Reads(f[i - 1], lines[i])]
           S == {n \in Nat : \E f : Fits(f, n)}
<1>1. \E f : Fits(f, Len(lines))
  <2>1. 0 \in S
    <3>1. Fits([i \in 0 .. 0 |-> Blank], 0)
      OBVIOUS
    <3> QED
      BY <3>1
  <2>2. ASSUME NEW n \in 0 .. Len(lines) - 1, n \in S PROVE n + 1 \in S
    <3>1. PICK f : Fits(f, n)
      BY <2>2
    <3> DEFINE g == [i \in 0 .. n + 1 |-> IF i <= n THEN f[i] ELSE Reads(f[n], lines[n + 1])]
    <3>2. ASSUME NEW i \in 0 .. n + 1
          PROVE  g[i] = IF i = 0 THEN Blank ELSE Reads(g[i - 1], lines[i])
      <4>1. CASE i = n + 1
        BY <4>1
      <4>2. CASE i <= n
        <5>1. f[i] = IF i = 0 THEN Blank ELSE Reads(f[i - 1], lines[i])
          BY <3>1, <4>2
        <5>2. i # 0 => g[i - 1] = f[i - 1]
          BY <4>2
        <5> QED
          BY <4>2, <5>1, <5>2
      <4> QED
        BY <4>1, <4>2
    <3>3. Fits(g, n + 1)
      <4> HIDE DEF g
      <4>1. g = [i \in 0 .. n + 1 |-> g[i]]
        BY DEF g
      <4> QED
        BY <3>2, <4>1
    <3>4. n + 1 \in Nat
      OBVIOUS
    <3> HIDE DEF Fits, g
    <3> QED
      BY <3>3, <3>4
  <2> HIDE DEF S
  <2>3. \A n \in 0 .. Len(lines) : n \in S
    BY <2>1, <2>2, UpTo
  <2>4. Len(lines) \in S
    BY <2>3
  <2> QED
    BY <2>4 DEF S
<1>2. Readings(lines) = CHOOSE f : Fits(f, Len(lines))
  BY DEF Readings
<1>3. Fits(Readings(lines), Len(lines))
  <2> HIDE DEF Fits
  <2> QED
    BY <1>1, <1>2
<1> QED
  BY <1>3

LEMMA SumsOf ==
  ASSUME NEW w, Len(w) \in Nat
  PROVE  /\ Sums(w)[0] = 0
         /\ \A n \in 1 .. Len(w) : Sums(w)[n] = Sums(w)[n - 1] + w[n]
<1> DEFINE Fits(f, n) == f = [i \in 0 .. n |-> IF i = 0 THEN 0 ELSE f[i - 1] + w[i]]
           S == {n \in Nat : \E f : Fits(f, n)}
<1>1. \E f : Fits(f, Len(w))
  <2>1. 0 \in S
    <3>1. Fits([i \in 0 .. 0 |-> 0], 0)
      OBVIOUS
    <3> QED
      BY <3>1
  <2>2. ASSUME NEW n \in 0 .. Len(w) - 1, n \in S PROVE n + 1 \in S
    <3>1. PICK f : Fits(f, n)
      BY <2>2
    <3> DEFINE g == [i \in 0 .. n + 1 |-> IF i <= n THEN f[i] ELSE f[n] + w[n + 1]]
    <3>2. ASSUME NEW i \in 0 .. n + 1
          PROVE  g[i] = IF i = 0 THEN 0 ELSE g[i - 1] + w[i]
      <4>1. CASE i = n + 1
        BY <4>1
      <4>2. CASE i <= n
        <5>1. f[i] = IF i = 0 THEN 0 ELSE f[i - 1] + w[i]
          BY <3>1, <4>2
        <5>2. i # 0 => g[i - 1] = f[i - 1]
          BY <4>2
        <5> QED
          BY <4>2, <5>1, <5>2
      <4> QED
        BY <4>1, <4>2
    <3>3. Fits(g, n + 1)
      <4> HIDE DEF g
      <4>1. g = [i \in 0 .. n + 1 |-> g[i]]
        BY DEF g
      <4> QED
        BY <3>2, <4>1
    <3>4. n + 1 \in Nat
      OBVIOUS
    <3> HIDE DEF Fits, g
    <3> QED
      BY <3>3, <3>4
  <2> HIDE DEF S
  <2>3. \A n \in 0 .. Len(w) : n \in S
    BY <2>1, <2>2, UpTo
  <2>4. Len(w) \in S
    BY <2>3
  <2> QED
    BY <2>4 DEF S
<1>2. Sums(w) = CHOOSE f : Fits(f, Len(w))
  BY DEF Sums
<1>3. Fits(Sums(w), Len(w))
  <2> HIDE DEF Fits
  <2> QED
    BY <1>1, <1>2
<1> QED
  BY <1>3

-----------------------------------------------------------------------------
(* One line after another. *)

LEMMA BlankKnown == Blank \in Known
<1>1. <<>> \in Seq(BOOLEAN) /\ <<>> \in Seq((Nat \ {0}))
  OBVIOUS
<1> QED
  BY <1>1 DEF Blank, Known, Parts

LEMMA LineKinds ==
  ASSUME NEW l \in Lines
  PROVE  /\ l.k \in {"job", "other", "pipeline done", "steps", "counted", "expect", "start", "skipped",
                     "done", "failed", "detail", "progress"}
         /\ l.k = "steps" => l.n \in 1 .. Len(StepSeconds)
         /\ l.k = "counted" => l.flags \in Seq(BOOLEAN)
         /\ l.k = "expect" => l.seconds \in Seq((Nat \ {0}))
         /\ l.k \in {"start", "skipped", "done", "failed", "detail", "progress"} => l.stage \in Nat \ {0}
         /\ l.k = "progress" => l.sub \in 1 .. Parts
  BY DEF Lines

LEMMA StepsLine ==
  ASSUME NEW l \in Lines, l.k = "steps"
  PROVE  l.n \in 0 .. Len(StepSeconds)
<1>1. l.n \in 1 .. Len(StepSeconds)
  BY LineKinds
<1> QED
  BY <1>1, RunProgressAssumption

LEMMA ProgressLine ==
  ASSUME NEW l \in Lines, l.k = "progress"
  PROVE  l.sub \in 0 .. Parts /\ l.sub > 0
<1>1. l.sub \in 1 .. Parts
  BY LineKinds
<1> QED
  BY <1>1 DEF Parts

LEMMA ReadsKnown ==
  ASSUME NEW p \in Known, NEW l \in Lines
  PROVE  Reads(p, l) \in Known
<1>1. CASE l.k = "steps"
  <2> DEFINE v == l.n
  <2>1. Reads(p, l) = [p EXCEPT !.total = v]
    BY <1>1 DEF Reads, EndsAStage
  <2>2. v \in 0 .. Len(StepSeconds)
    BY <1>1, StepsLine
  <2> HIDE DEF v
  <2> QED
    BY <2>1, <2>2 DEF Known
<1>2. CASE l.k = "counted"
  <2> DEFINE v == l.flags
  <2>1. Reads(p, l) = [p EXCEPT !.flags = v]
    BY <1>2 DEF Reads, EndsAStage
  <2>2. v \in Seq(BOOLEAN)
    BY <1>2, LineKinds
  <2> HIDE DEF v
  <2> QED
    BY <2>1, <2>2 DEF Known
<1>3. CASE l.k = "expect"
  <2> DEFINE v == l.seconds
  <2>1. Reads(p, l) = [p EXCEPT !.seconds = v]
    BY <1>3 DEF Reads, EndsAStage
  <2>2. v \in Seq((Nat \ {0}))
    BY <1>3, LineKinds
  <2> HIDE DEF v
  <2> QED
    BY <2>1, <2>2 DEF Known
<1>4. CASE l.k = "start"
  <2> DEFINE c == p.started + 1 \notin DOMAIN p.flags \/ p.flags[p.started + 1]
             v == l.stage
  <2>1. Reads(p, l) = [p EXCEPT !.counted = c, !.started = p.started + 1, !.current = v, !.sub = 0]
    BY <1>4 DEF Reads, EndsAStage
  <2>2. c \in BOOLEAN /\ p.started + 1 \in Nat /\ 0 \in 0 .. Parts
    BY DEF Known, Parts
  <2>3. v \in Nat
    BY <1>4, LineKinds
  <2> HIDE DEF c, v
  <2> QED
    BY <2>1, <2>2, <2>3 DEF Known
<1>5. CASE l.k = "progress"
  <2> DEFINE v == l.sub
  <2>1. Reads(p, l) = [p EXCEPT !.sub = v]
    BY <1>5 DEF Reads, EndsAStage
  <2>2. v \in 0 .. Parts
    BY <1>5, ProgressLine
  <2> HIDE DEF v
  <2> QED
    BY <2>1, <2>2 DEF Known
<1>6. CASE l.k = "done"
  <2> DEFINE d == IF p.counted THEN p.done + 1 ELSE p.done
  <2>1. Reads(p, l) = [p EXCEPT !.done = d, !.current = 0, !.sub = 0]
    BY <1>6 DEF Reads, EndsAStage
  <2>2. d \in Nat /\ 0 \in 0 .. Parts
    BY DEF Known, Parts
  <2> HIDE DEF d
  <2>3. [p EXCEPT !.done = d, !.current = 0, !.sub = 0] \in Known
    BY <2>2 DEF Known
  <2> QED
    BY <2>1, <2>3
<1>7. CASE l.k = "failed"
  <2> DEFINE v == l.stage
  <2>1. Reads(p, l) = [p EXCEPT !.failed = v, !.current = 0]
    BY <1>7 DEF Reads, EndsAStage
  <2>2. v \in Nat
    BY <1>7, LineKinds
  <2> HIDE DEF v
  <2>3. [p EXCEPT !.failed = v, !.current = 0] \in Known
    BY <2>2 DEF Known
  <2> QED
    BY <2>1, <2>3
<1>8. CASE l.k = "pipeline done"
  <2>1. Reads(p, l) = [p EXCEPT !.finished = TRUE]
    BY <1>8 DEF Reads, EndsAStage
  <2> QED
    BY <2>1 DEF Known
<1>9. CASE l.k \in {"job", "other", "skipped", "detail"}
  BY <1>9 DEF Reads, EndsAStage
<1> QED
  BY <1>1, <1>2, <1>3, <1>4, <1>5, <1>6, <1>7, <1>8, <1>9, LineKinds

LEMMA NextReading ==
  ASSUME NEW lines \in Seq(Lines), NEW i \in 0 .. Len(lines) - 1
  PROVE  Readings(lines)[i + 1] = Reads(Readings(lines)[i], lines[i + 1])
<1>1. Len(lines) \in Nat /\ i + 1 \in 1 .. Len(lines) /\ (i + 1) - 1 = i
  OBVIOUS
<1> QED
  BY <1>1, ReadingsOf

LEMMA ReadingsKnown ==
  ASSUME NEW lines \in Seq(Lines)
  PROVE  \A i \in 0 .. Len(lines) : Readings(lines)[i] \in Known
<1> DEFINE S == {i \in 0 .. Len(lines) : Readings(lines)[i] \in Known}
<1>1. 0 \in S
  BY ReadingsOf, BlankKnown
<1>2. ASSUME NEW i \in 0 .. Len(lines) - 1, i \in S PROVE i + 1 \in S
  <2>1. i + 1 \in 1 .. Len(lines) /\ lines[i + 1] \in Lines
    OBVIOUS
  <2>2. Readings(lines)[i + 1] = Reads(Readings(lines)[i], lines[i + 1])
    BY NextReading
  <2> QED
    BY <1>2, <2>1, <2>2, ReadsKnown
<1> HIDE DEF S
<1>3. \A i \in 0 .. Len(lines) : i \in S
  BY <1>1, <1>2, UpTo
<1> QED
  BY <1>3 DEF S

LEMMA ReadAllKnown == \A lines \in Seq(Lines) : ReadAll(lines) \in Known
  BY ReadingsKnown DEF ReadAll

LEMMA ReadNone == ReadAll(<<>>) = Blank
<1>1. Len(<<>>) = 0
  OBVIOUS
<1> QED
  BY <1>1, ReadingsOf DEF ReadAll

(* Lines that follow do not change what the earlier ones told.                 *)
LEMMA SamePrefix ==
  ASSUME NEW s \in Seq(Lines), NEW t \in Seq(Lines)
  PROVE  \A i \in 0 .. Len(s) : Readings(s \o t)[i] = Readings(s)[i]
<1> DEFINE S == {i \in 0 .. Len(s) : Readings(s \o t)[i] = Readings(s)[i]}
<1>1. 0 \in S
  BY ReadingsOf
<1>2. ASSUME NEW i \in 0 .. Len(s) - 1, i \in S PROVE i + 1 \in S
  <2>1. i \in 0 .. Len(s \o t) - 1 /\ (s \o t)[i + 1] = s[i + 1] /\ s \o t \in Seq(Lines)
    OBVIOUS
  <2>2. Readings(s)[i + 1] = Reads(Readings(s)[i], s[i + 1])
    BY NextReading
  <2>3. Readings(s \o t)[i + 1] = Reads(Readings(s \o t)[i], s[i + 1])
    BY <2>1, NextReading
  <2> QED
    BY <1>2, <2>1, <2>2, <2>3
<1> HIDE DEF S
<1>3. \A i \in 0 .. Len(s) : i \in S
  <2>1. Len(s) \in Nat
    OBVIOUS
  <2> QED
    BY <1>1, <1>2, <2>1, UpTo
<1> QED
  BY <1>3 DEF S

LEMMA ReadOneMore ==
  ASSUME NEW s \in Seq(Lines), NEW l \in Lines
  PROVE  ReadAll(s \o <<l>>) = Reads(ReadAll(s), l)
<1>1. <<l>> \in Seq(Lines) /\ Len(s \o <<l>>) = Len(s) + 1 /\ (s \o <<l>>)[Len(s) + 1] = l
  OBVIOUS
<1>2. Readings(s \o <<l>>)[Len(s) + 1] = Reads(Readings(s \o <<l>>)[Len(s)], l)
  <2>1. s \o <<l>> \in Seq(Lines) /\ Len(s) \in 0 .. Len(s \o <<l>>) - 1
    OBVIOUS
  <2> QED
    BY <1>1, <2>1, NextReading
<1>3. Readings(s \o <<l>>)[Len(s)] = Readings(s)[Len(s)]
  <2>1. Len(s) \in 0 .. Len(s)
    OBVIOUS
  <2> QED
    BY <1>1, <2>1, SamePrefix
<1> QED
  BY <1>1, <1>2, <1>3 DEF ReadAll

(* Lines that are not events are not read.                                     *)
LEMMA ReadDetails ==
  ASSUME NEW s \in Seq(Lines), NEW t \in Seq(Lines), \A i \in 1 .. Len(t) : t[i].k = "detail"
  PROVE  ReadAll(s \o t) = ReadAll(s)
<1> DEFINE S == {i \in 0 .. Len(t) : Readings(s \o t)[Len(s) + i] = ReadAll(s)}
<1>1. 0 \in S
  BY SamePrefix DEF ReadAll
<1>2. ASSUME NEW i \in 0 .. Len(t) - 1, i \in S PROVE i + 1 \in S
  <2>1. Len(s) + i \in 0 .. Len(s \o t) - 1 /\ (s \o t)[Len(s) + i + 1] = t[i + 1] /\ t[i + 1].k = "detail"
        /\ s \o t \in Seq(Lines) /\ Len(s) + i + 1 = Len(s) + (i + 1)
    OBVIOUS
  <2>2. Readings(s \o t)[Len(s) + i + 1] = Reads(Readings(s \o t)[Len(s) + i], t[i + 1])
    BY <2>1, NextReading
  <2>3. Reads(ReadAll(s), t[i + 1]) = ReadAll(s)
    BY <2>1 DEF Reads, EndsAStage
  <2> QED
    BY <1>2, <2>1, <2>2, <2>3
<1> HIDE DEF S
<1>3. \A i \in 0 .. Len(t) : i \in S
  <2>1. Len(t) \in Nat
    OBVIOUS
  <2> QED
    BY <1>1, <1>2, <2>1, UpTo
<1>4. Len(s \o t) = Len(s) + Len(t)
  OBVIOUS
<1> QED
  BY <1>3, <1>4 DEF S, ReadAll

-----------------------------------------------------------------------------
(* What all the lines together tell, whatever their number.                    *)

LEMMA LineFails ==
  ASSUME NEW p \in Known, NEW l \in Lines
  PROVE  Reads(p, l).failed = IF l.k = "failed" THEN l.stage ELSE p.failed
  BY DEF Reads, EndsAStage, Known

LEMMA LineFinishes ==
  ASSUME NEW p \in Known, NEW l \in Lines
  PROVE  Reads(p, l).finished <=> p.finished \/ l.k = "pipeline done"
  BY DEF Reads, EndsAStage, Known

LEMMA LineTotals ==
  ASSUME NEW p \in Known, NEW l \in Lines
  PROVE  Reads(p, l).total = IF l.k = "steps" THEN l.n ELSE p.total
  BY DEF Reads, EndsAStage, Known

LEMMA LineCounts ==
  ASSUME NEW p \in Known, NEW l \in Lines
  PROVE  Reads(p, l).done = IF l.k = "done" /\ p.counted THEN p.done + 1 ELSE p.done
  BY DEF Reads, EndsAStage, Known

LEMMA FailedRead ==
  ASSUME NEW lines \in Seq(Lines), NEW s \in Nat,
         \A i \in 1 .. Len(lines) : lines[i].k = "failed" => lines[i].stage = s
  PROVE  ReadAll(lines).failed = IF \E i \in 1 .. Len(lines) : lines[i].k = "failed" THEN s ELSE 0
<1> DEFINE Told(n) == \E j \in 1 .. n : lines[j].k = "failed"
           S == {n \in 0 .. Len(lines) : Readings(lines)[n].failed = IF Told(n) THEN s ELSE 0}
<1>1. 0 \in S
  BY ReadingsOf DEF Blank
<1>2. ASSUME NEW n \in 0 .. Len(lines) - 1, n \in S PROVE n + 1 \in S
  <2>1. lines[n + 1] \in Lines /\ Readings(lines)[n] \in Known
    BY ReadingsKnown
  <2>2. Readings(lines)[n + 1].failed =
          IF lines[n + 1].k = "failed" THEN lines[n + 1].stage ELSE Readings(lines)[n].failed
    BY <2>1, NextReading, LineFails
  <2>3. Told(n + 1) <=> Told(n) \/ lines[n + 1].k = "failed"
    OBVIOUS
  <2>4. lines[n + 1].k = "failed" => lines[n + 1].stage = s
    OBVIOUS
  <2> HIDE DEF Told
  <2> QED
    BY <1>2, <2>2, <2>3, <2>4
<1> HIDE DEF S
<1>3. \A n \in 0 .. Len(lines) : n \in S
  <2>1. Len(lines) \in Nat
    OBVIOUS
  <2> QED
    BY <1>1, <1>2, <2>1, UpTo
<1>4. Len(lines) \in S
  BY <1>3
<1> QED
  BY <1>4 DEF S, ReadAll

LEMMA FinishedRead ==
  ASSUME NEW lines \in Seq(Lines)
  PROVE  ReadAll(lines).finished <=> \E i \in 1 .. Len(lines) : lines[i].k = "pipeline done"
<1> DEFINE Told(n) == \E j \in 1 .. n : lines[j].k = "pipeline done"
           S == {n \in 0 .. Len(lines) : Readings(lines)[n].finished <=> Told(n)}
<1>1. 0 \in S
  <2>1. Readings(lines)[0] = Blank /\ Len(lines) \in Nat
    BY ReadingsOf
  <2>2. ~ Blank.finished
    BY DEF Blank
  <2>3. ~ Told(0)
    OBVIOUS
  <2>4. 0 \in 0 .. Len(lines)
    BY <2>1
  <2> HIDE DEF Told
  <2> QED
    BY <2>1, <2>2, <2>3, <2>4, Zenon
<1>2. ASSUME NEW n \in 0 .. Len(lines) - 1, n \in S PROVE n + 1 \in S
  <2>1. lines[n + 1] \in Lines /\ Readings(lines)[n] \in Known /\ n + 1 \in 0 .. Len(lines)
    BY ReadingsKnown
  <2>2. Readings(lines)[n + 1] = Reads(Readings(lines)[n], lines[n + 1])
    BY NextReading
  <2>3. Reads(Readings(lines)[n], lines[n + 1]).finished
          <=> Readings(lines)[n].finished \/ lines[n + 1].k = "pipeline done"
    BY <2>1, LineFinishes, Zenon
  <2>4. Told(n + 1) <=> Told(n) \/ lines[n + 1].k = "pipeline done"
    <3>1. \A j : j \in 1 .. n + 1 <=> j \in 1 .. n \/ j = n + 1
      OBVIOUS
    <3> QED
      BY <3>1, Zenon
  <2> HIDE DEF Told
  <2> QED
    BY <1>2, <2>1, <2>2, <2>3, <2>4, Zenon
<1> HIDE DEF S
<1>3. \A n \in 0 .. Len(lines) : n \in S
  <2>1. Len(lines) \in Nat
    OBVIOUS
  <2> QED
    BY <1>1, <1>2, <2>1, UpTo
<1>4. Len(lines) \in S
  BY <1>3
<1> QED
  BY <1>4, Zenon DEF S, ReadAll

LEMMA TotalRead ==
  ASSUME NEW lines \in Seq(Lines), \A i \in 1 .. Len(lines) : lines[i].k # "steps"
  PROVE  ReadAll(lines).total = 0
<1> DEFINE S == {n \in 0 .. Len(lines) : Readings(lines)[n].total = 0}
<1>1. 0 \in S
  BY ReadingsOf DEF Blank
<1>2. ASSUME NEW n \in 0 .. Len(lines) - 1, n \in S PROVE n + 1 \in S
  <2>1. lines[n + 1] \in Lines /\ lines[n + 1].k # "steps" /\ Readings(lines)[n] \in Known
    BY ReadingsKnown
  <2>2. Readings(lines)[n + 1].total = Readings(lines)[n].total
    BY <2>1, NextReading, LineTotals
  <2> QED
    BY <1>2, <2>2
<1> HIDE DEF S
<1>3. \A n \in 0 .. Len(lines) : n \in S
  <2>1. Len(lines) \in Nat
    OBVIOUS
  <2> QED
    BY <1>1, <1>2, <2>1, UpTo
<1>4. Len(lines) \in S
  BY <1>3
<1> QED
  BY <1>4 DEF S, ReadAll

(* A stage counts once: what is read as done is no more than the last stage    *)
(* that says so.                                                               *)
LEMMA DoneRead ==
  ASSUME NEW lines \in Seq(Lines), NEW m \in Nat,
         \A i \in 1 .. Len(lines) : lines[i].k = "done" => lines[i].stage <= m,
         \A i, j \in 1 .. Len(lines) :
           i < j /\ lines[i].k = "done" /\ lines[j].k = "done" => lines[i].stage < lines[j].stage
  PROVE  ReadAll(lines).done <= m
<1> DEFINE Bounds(n, b) == \A j \in 1 .. n : lines[j].k = "done" => lines[j].stage <= b
           S == {n \in 0 .. Len(lines) : \A b \in Nat : Bounds(n, b) => Readings(lines)[n].done <= b}
<1>1. 0 \in S
  BY ReadingsOf DEF Blank
<1>2. ASSUME NEW n \in 0 .. Len(lines) - 1, n \in S PROVE n + 1 \in S
  <2>1. lines[n + 1] \in Lines /\ Readings(lines)[n] \in Known
    BY ReadingsKnown
  <2>2. Readings(lines)[n + 1].done = IF lines[n + 1].k = "done" /\ Readings(lines)[n].counted
                                      THEN Readings(lines)[n].done + 1 ELSE Readings(lines)[n].done
    BY <2>1, NextReading, LineCounts
  <2>3. Readings(lines)[n].done \in Nat
    BY <2>1 DEF Known
  <2>4. ASSUME NEW b \in Nat, Bounds(n + 1, b) PROVE Readings(lines)[n + 1].done <= b
    <3>1. CASE lines[n + 1].k # "done"
      <4>1. Bounds(n, b)
        BY <2>4
      <4> QED
        BY <1>2, <2>2, <3>1, <4>1
    <3>2. CASE lines[n + 1].k = "done"
      <4>1. lines[n + 1].stage \in Nat \ {0} /\ lines[n + 1].stage <= b
        <5>1. lines[n + 1].stage \in Nat \ {0}
          BY <2>1, <3>2, LineKinds
        <5>2. n + 1 \in 1 .. n + 1
          OBVIOUS
        <5> QED
          BY <2>4, <3>2, <5>1, <5>2
      <4>2. Bounds(n, lines[n + 1].stage - 1)
        <5> SUFFICES ASSUME NEW j \in 1 .. n, lines[j].k = "done" PROVE lines[j].stage <= lines[n + 1].stage - 1
          OBVIOUS
        <5>1. lines[j] \in Lines
          OBVIOUS
        <5>2. lines[j].stage \in Nat \ {0}
          BY <5>1, LineKinds
        <5>3. j \in 1 .. Len(lines) /\ n + 1 \in 1 .. Len(lines) /\ j < n + 1
          OBVIOUS
        <5>4. lines[j].stage < lines[n + 1].stage
          BY <3>2, <5>3
        <5> QED
          BY <4>1, <5>2, <5>4
      <4>3. lines[n + 1].stage - 1 \in Nat
        BY <4>1
      <4> HIDE DEF Bounds
      <4>4. Readings(lines)[n].done <= lines[n + 1].stage - 1
        BY <1>2, <4>2, <4>3
      <4> QED
        BY <2>2, <2>3, <4>1, <4>4
    <3> QED
      BY <3>1, <3>2
  <2>5. n + 1 \in 0 .. Len(lines)
    OBVIOUS
  <2> HIDE DEF Bounds
  <2> QED
    BY <2>4, <2>5
<1> HIDE DEF S
<1>3. \A n \in 0 .. Len(lines) : n \in S
  <2>1. Len(lines) \in Nat
    OBVIOUS
  <2> QED
    BY <1>1, <1>2, <2>1, UpTo
<1>4. Len(lines) \in S
  BY <1>3
<1> QED
  BY <1>4 DEF S, ReadAll

-----------------------------------------------------------------------------
(* The end of the log, and the current job's part of it.                       *)

LEMMA GreatestExists ==
  ASSUME NEW n \in Nat, NEW K \in SUBSET (1 .. n), K # {}
  PROVE  \E k \in K : \A j \in K : j <= k
<1> DEFINE R == {n - i : i \in K}
<1>1. R \in SUBSET Nat /\ R # {}
  <2>1. \A i \in K : i \in 1 .. n /\ n - i \in Nat
    OBVIOUS
  <2>2. PICK i \in K : TRUE
    OBVIOUS
  <2>3. n - i \in R
    OBVIOUS
  <2> QED
    BY <2>1, <2>3
<1>2. PICK r \in R : \A j \in R : r <= j
  <2> HIDE DEF R
  <2> QED
    BY <1>1, LeastExists
<1>3. PICK k \in K : r = n - k
  BY <1>2
<1>4. ASSUME NEW j \in K PROVE j <= k
  <2>1. n - k <= n - j
    BY <1>2, <1>3
  <2> QED
    BY <2>1
<1> QED
  BY <1>4

FirstOf(lines) == IF Heads(lines) = {} THEN 1 ELSE CHOOSE i \in Heads(lines) : \A j \in Heads(lines) : j <= i

LEMMA FirstIs ==
  ASSUME NEW lines \in Seq(Lines)
  PROVE  /\ FirstOf(lines) \in 1 .. Len(lines) + 1
         /\ Heads(lines) = {} => FirstOf(lines) = 1
         /\ Heads(lines) # {} => FirstOf(lines) \in Heads(lines)
         /\ \A j \in Heads(lines) : j <= FirstOf(lines)
<1>1. Len(lines) \in Nat /\ Heads(lines) \in SUBSET (1 .. Len(lines))
  BY DEF Heads
<1>2. CASE Heads(lines) = {}
  BY <1>1, <1>2 DEF FirstOf
<1>3. CASE Heads(lines) # {}
  <2>1. \E k \in Heads(lines) : \A j \in Heads(lines) : j <= k
    BY <1>1, <1>3, GreatestExists
  <2>2. FirstOf(lines) \in Heads(lines) /\ \A j \in Heads(lines) : j <= FirstOf(lines)
    BY <1>3, <2>1 DEF FirstOf
  <2> QED
    BY <1>1, <1>3, <2>2
<1> QED
  BY <1>2, <1>3

LEMMA CurrentIs ==
  ASSUME NEW lines \in Seq(Lines)
  PROVE  /\ Current(lines) \in Seq(Lines)
         /\ Len(Current(lines)) = Len(lines) - FirstOf(lines) + 1
         /\ \A i \in 1 .. Len(Current(lines)) : Current(lines)[i] = lines[FirstOf(lines) + i - 1]
         /\ \A i \in 2 .. Len(Current(lines)) : Current(lines)[i].k \notin {"job", "steps"}
<1>1. FirstOf(lines) \in 1 .. Len(lines) + 1 /\ \A j \in Heads(lines) : j <= FirstOf(lines)
  BY FirstIs
<1>2. Current(lines) = SubSeq(lines, FirstOf(lines), Len(lines))
  BY DEF Current, FirstOf
<1>3. /\ Current(lines) \in Seq(Lines)
      /\ Len(Current(lines)) = Len(lines) - FirstOf(lines) + 1
      /\ \A i \in 1 .. Len(Current(lines)) : Current(lines)[i] = lines[FirstOf(lines) + i - 1]
  BY <1>1, <1>2
<1>4. ASSUME NEW i \in 2 .. Len(Current(lines)) PROVE Current(lines)[i].k \notin {"job", "steps"}
  <2>1. FirstOf(lines) + i - 1 \in DOMAIN lines /\ FirstOf(lines) + i - 1 > FirstOf(lines)
    BY <1>1, <1>3
  <2>2. FirstOf(lines) + i - 1 \notin Heads(lines)
    BY <1>1, <2>1
  <2> QED
    BY <1>3, <2>1, <2>2 DEF Heads
<1> QED
  BY <1>3, <1>4

LEMMA CurrentNone ==
  ASSUME NEW s \in Seq(Lines), s = <<>>
  PROVE  Current(s) = <<>>
<1>1. Len(s) = 0 /\ DOMAIN s = {}
  OBVIOUS
<1>2. Heads(s) = {}
  BY <1>1 DEF Heads
<1>3. Current(s) \in Seq(Lines) /\ Len(Current(s)) = Len(s) - 1 + 1
  BY <1>2, FirstIs, CurrentIs
<1>4. Len(Current(s)) = 0
  BY <1>1, <1>3
<1> QED
  BY <1>3, <1>4, EmptySeq

Dropped(s) == IF Len(s) > Window THEN Len(s) - Window ELSE 0

LEMMA CutIs ==
  ASSUME NEW s \in Seq(Lines)
  PROVE  /\ Dropped(s) \in 0 .. Len(s)
         /\ Cut(s, Window) \in Seq(Lines)
         /\ Len(Cut(s, Window)) = Len(s) - Dropped(s) /\ Len(Cut(s, Window)) <= Window
         /\ \A i \in 1 .. Len(Cut(s, Window)) : Cut(s, Window)[i] = s[Dropped(s) + i]
<1>1. Window \in Nat
  BY RunProgressAssumption
<1>2. Dropped(s) \in 0 .. Len(s) /\ Len(s) - Dropped(s) <= Window
  BY <1>1 DEF Dropped
<1>3. Cut(s, Window) = SubSeq(s, Dropped(s) + 1, Len(s))
  BY DEF Cut, Dropped
<1> QED
  BY <1>2, <1>3

LEMMA CutOfTwo ==
  \A s, t \in Seq(Lines) :
    /\ Cut(s \o t, Window) \in Seq(Lines)
    /\ Len(Cut(s \o t, Window)) = (Len(s) + Len(t)) - Dropped(s \o t)
    /\ \A i \in 1 .. Len(Cut(s \o t, Window)) : Cut(s \o t, Window)[i] = (s \o t)[Dropped(s \o t) + i]
<1>1. SUFFICES ASSUME NEW s, NEW t, s \in Seq(Lines) /\ t \in Seq(Lines)
      PROVE  /\ Cut(s \o t, Window) \in Seq(Lines)
             /\ Len(Cut(s \o t, Window)) = (Len(s) + Len(t)) - Dropped(s \o t)
             /\ \A i \in 1 .. Len(Cut(s \o t, Window)) :
                  Cut(s \o t, Window)[i] = (s \o t)[Dropped(s \o t) + i]
  OBVIOUS
<1> DEFINE u == s \o t
<1>2. u \in Seq(Lines) /\ Len(u) = Len(s) + Len(t)
  BY <1>1
<1> HIDE DEF u
<1>3. /\ Cut(u, Window) \in Seq(Lines)
      /\ Len(Cut(u, Window)) = Len(u) - Dropped(u)
      /\ \A i \in 1 .. Len(Cut(u, Window)) : Cut(u, Window)[i] = u[Dropped(u) + i]
  BY <1>2, CutIs
<1>4. Len(Cut(u, Window)) = (Len(s) + Len(t)) - Dropped(u)
  BY <1>2, <1>3, Zenon
<1> QED
  BY <1>3, <1>4 DEF u

LEMMA OfTwo ==
  ASSUME NEW s \in Seq(Lines), NEW t \in Seq(Lines)
  PROVE  /\ s \o t \in Seq(Lines) /\ Len(s \o t) = Len(s) + Len(t) /\ Len(s) \in Nat /\ Len(t) \in Nat
         /\ \A i \in 1 .. Len(s) : (s \o t)[i] = s[i]
         /\ \A i \in 1 .. Len(t) : (s \o t)[Len(s) + i] = t[i]
  OBVIOUS

LEMMA NothingToCut == ASSUME NEW s \in Seq(Lines), Len(s) <= Window PROVE Cut(s, Window) = s
<1>1. Dropped(s) = 0
  BY RunProgressAssumption DEF Dropped
<1>2. Cut(s, Window) \in Seq(Lines) /\ Len(Cut(s, Window)) = Len(s)
      /\ \A i \in 1 .. Len(s) : Cut(s, Window)[i] = s[i]
  BY <1>1, CutIs
<1> QED
  BY <1>2, SeqEqual

(* A head begins a job's part anew.                                            *)
LEMMA HeadStarts ==
  ASSUME NEW s \in Seq(Lines), NEW h \in Lines, h.k \in {"job", "steps"}
  PROVE  Current(Cut(s \o <<h>>, Window)) = <<h>>
<1> DEFINE L == Cut(s \o <<h>>, Window)
<1>1. s \o <<h>> \in Seq(Lines) /\ Len(s \o <<h>>) = Len(s) + 1 /\ (s \o <<h>>)[Len(s) + 1] = h
      /\ <<h>> \in Seq(Lines)
  OBVIOUS
<1>2. Window \in Nat \ {0}
  BY RunProgressAssumption
<1>3. L \in Seq(Lines) /\ Len(L) \in Nat \ {0} /\ L[Len(L)] = h
  <2>1. Dropped(s \o <<h>>) \in 0 .. Len(s)
    BY <1>1, <1>2 DEF Dropped
  <2>2. /\ L \in Seq(Lines) /\ Len(L) = (Len(s) + 1) - Dropped(s \o <<h>>)
        /\ \A i \in 1 .. Len(L) : L[i] = (s \o <<h>>)[Dropped(s \o <<h>>) + i]
    <3>1. Len(<<h>>) = 1
      OBVIOUS
    <3> QED
      BY <1>1, <3>1, CutOfTwo
  <2> HIDE DEF L
  <2>3. Len(s) \in Nat /\ Len(L) \in 1 .. Len(L) /\ Dropped(s \o <<h>>) + Len(L) = Len(s) + 1
    BY <2>1, <2>2
  <2> QED
    BY <1>1, <2>2, <2>3
<1> HIDE DEF L
<1>4. Len(L) \in Heads(L)
  BY <1>3 DEF Heads
<1>5. FirstOf(L) = Len(L)
  <2>1. Heads(L) \in SUBSET (1 .. Len(L))
    BY <1>3 DEF Heads
  <2>2. FirstOf(L) \in Heads(L) /\ Len(L) <= FirstOf(L)
    BY <1>3, <1>4, FirstIs
  <2> QED
    BY <1>3, <2>1, <2>2
<1>6. Current(L) \in Seq(Lines) /\ Len(Current(L)) = 1 /\ Current(L)[1] = h
  <2>1. /\ Current(L) \in Seq(Lines) /\ Len(Current(L)) = Len(L) - Len(L) + 1
        /\ \A i \in 1 .. Len(Current(L)) : Current(L)[i] = L[Len(L) + i - 1]
    BY <1>3, <1>5, CurrentIs
  <2>2. Len(Current(L)) = 1 /\ Len(L) + 1 - 1 = Len(L)
    BY <1>3, <2>1
  <2> QED
    BY <1>3, <2>1, <2>2
<1>7. Len(<<h>>) = 1 /\ <<h>>[1] = h
  OBVIOUS
<1>8. Current(L) = <<h>>
  BY <1>1, <1>6, <1>7, SeqEqual
<1> QED
  BY <1>8 DEF L

(* Two whole numbers are in one order or the other: a place is within the      *)
(* first of two sequences or behind it.                                        *)
LEMMA LessOrMore == \A a, b \in Int : a <= b \/ a > b
  OBVIOUS

(* A place in two sequences that stand behind f - 1 other lines is one in the  *)
(* first or one in the second of them.                                         *)
LEMMA InTheSecond ==
  \A a, c, m, f, n \in Int :
    a > c /\ a \in 1 .. c + m /\ c = n - f + 1 => a - c \in 1 .. m /\ f + a - 1 = n + (a - c) /\ a = c + (a - c)
  OBVIOUS

(* Lines that are no heads join the current job's part; the window may drop    *)
(* the first of them, and then the head is gone.                               *)
LEMMA CurrentGrows ==
  \A s, t \in Seq(Lines) :
    Len(t) <= Window /\ (\A i \in 1 .. Len(t) : t[i].k \notin {"job", "steps"}) =>
      LET c == Current(s)
          g == Current(Cut(s \o t, Window))
      IN /\ g \in Seq(Lines)
         /\ \E d \in 0 .. Len(c) : /\ Len(g) = (Len(c) + Len(t)) - d
                                   /\ \A i \in 1 .. Len(g) : g[i] = (c \o t)[d + i]
         /\ Whole(g) => Whole(c) /\ g = c \o t
<1>s. SUFFICES ASSUME NEW s, NEW t, s \in Seq(Lines) /\ t \in Seq(Lines), Len(t) <= Window,
                      \A i \in 1 .. Len(t) : t[i].k \notin {"job", "steps"}
      PROVE  LET c == Current(s)
                 g == Current(Cut(s \o t, Window))
             IN /\ g \in Seq(Lines)
                /\ \E d \in 0 .. Len(c) : /\ Len(g) = (Len(c) + Len(t)) - d
                                          /\ \A i \in 1 .. Len(g) : g[i] = (c \o t)[d + i]
                /\ Whole(g) => Whole(c) /\ g = c \o t
  BY Zenon
<1> DEFINE cut == Cut(s \o t, Window)
           n == Dropped(s \o t)
           f == FirstOf(s)
           c == Current(s)
           g == Current(cut)
           d == n + FirstOf(cut) - f
<1>1. s \o t \in Seq(Lines) /\ Len(s \o t) = Len(s) + Len(t) /\ Len(s) \in Nat /\ Len(t) \in Nat
      /\ Window \in Nat
  BY <1>s, RunProgressAssumption
<1>2. n \in 0 .. Len(s)
  BY <1>s, <1>1 DEF Dropped
<1>3. /\ cut \in Seq(Lines) /\ Len(cut) = (Len(s) + Len(t)) - n
      /\ \A i \in 1 .. Len(cut) : cut[i] = (s \o t)[n + i]
  BY <1>s, CutOfTwo
<1>4. /\ f \in 1 .. Len(s) + 1
      /\ Heads(s) = {} => f = 1
      /\ Heads(s) # {} => f \in Heads(s)
      /\ \A j \in Heads(s) : j <= f
  BY <1>s, FirstIs
<1>5. /\ FirstOf(cut) \in 1 .. Len(cut) + 1
      /\ Heads(cut) = {} => FirstOf(cut) = 1
      /\ Heads(cut) # {} => FirstOf(cut) \in Heads(cut)
      /\ \A j \in Heads(cut) : j <= FirstOf(cut)
  BY <1>3, FirstIs
<1>6. /\ c \in Seq(Lines) /\ Len(c) = Len(s) - f + 1
      /\ \A i \in 1 .. Len(c) : c[i] = s[f + i - 1]
      /\ \A i \in 2 .. Len(c) : c[i].k \notin {"job", "steps"}
  BY <1>s, CurrentIs
<1>0. n \in Int /\ f \in Int /\ FirstOf(cut) \in Int /\ Len(cut) \in Int /\ Len(c) \in Int
  <2> HIDE DEF cut, n, f, c
  <2>1. Len(cut) \in Nat /\ Len(c) \in Nat
    BY <1>3, <1>6
  <2> QED
    BY <1>1, <1>2, <1>4, <1>5, <2>1
<1>7. /\ g \in Seq(Lines) /\ Len(g) = Len(cut) - FirstOf(cut) + 1
      /\ \A i \in 1 .. Len(g) : g[i] = cut[FirstOf(cut) + i - 1]
  BY <1>3, CurrentIs
<1>8. \A j \in 1 .. Len(cut) : j \in Heads(cut) <=> n + j \in Heads(s)
  <2> SUFFICES ASSUME NEW j \in 1 .. Len(cut) PROVE j \in Heads(cut) <=> n + j \in Heads(s)
    OBVIOUS
  <2> HIDE DEF cut, n
  <2>1. DOMAIN cut = 1 .. Len(cut) /\ DOMAIN s = 1 .. Len(s)
    BY <1>s, <1>3
  <2>2. CASE n + j <= Len(s)
    <3>1. n + j \in 1 .. Len(s) /\ cut[j] = s[n + j]
      BY <1>s, <1>1, <1>2, <1>3, <2>2
    <3> QED
      BY <2>1, <3>1 DEF Heads
  <2>3. CASE n + j > Len(s)
    <3>1. n + j - Len(s) \in 1 .. Len(t) /\ n + j \notin 1 .. Len(s)
      BY <1>1, <1>2, <1>3, <2>3
    <3>2. cut[j] = t[n + j - Len(s)]
      <4>1. n + j = Len(s) + (n + j - Len(s))
        BY <1>1, <1>2
      <4>2. (s \o t)[n + j] = t[n + j - Len(s)]
        BY <1>s, <3>1, <4>1, OfTwo
      <4> QED
        BY <1>3, <4>2
    <3> QED
      BY <1>s, <2>1, <3>1, <3>2 DEF Heads
  <2> QED
    BY <1>1, <1>2, <2>2, <2>3
<1>9. d \in 0 .. Len(c)
  <2>1. Heads(s) \in SUBSET (1 .. Len(s)) /\ Heads(cut) \in SUBSET (1 .. Len(cut))
    BY <1>s, <1>3 DEF Heads
  <2> HIDE DEF cut, n, f, c, g
  <2>2. CASE Heads(s) # {} /\ f > n
    <3>1. f - n \in 1 .. Len(cut)
      BY <1>1, <1>2, <1>3, <1>4, <2>1, <2>2
    <3>2. f - n \in Heads(cut)
      <4>1. n + (f - n) = f
        BY <1>2, <1>4
      <4> QED
        BY <1>4, <1>8, <2>2, <3>1, <4>1
    <3>3. FirstOf(cut) \in Heads(cut) /\ f - n <= FirstOf(cut)
      BY <1>5, <3>2
    <3>4. n + FirstOf(cut) <= f
      BY <1>4, <1>8, <2>1, <3>3
    <3>5. n + FirstOf(cut) = f
      BY <1>0, <3>3, <3>4
    <3> QED
      BY <1>0, <1>1, <1>4, <1>6, <3>5
  <2>3. CASE Heads(s) = {} \/ f <= n
    <3>1. Heads(cut) = {}
      <4> SUFFICES ASSUME NEW j \in Heads(cut) PROVE FALSE
        OBVIOUS
      <4>1. j \in 1 .. Len(cut) /\ n + j \in Heads(s)
        BY <1>8, <2>1
      <4> QED
        BY <1>2, <1>4, <2>3, <4>1
    <3>2. FirstOf(cut) = 1
      BY <1>5, <3>1
    <3>3. f <= n + 1
      BY <1>2, <1>4, <2>3
    <3> QED
      BY <1>1, <1>2, <1>4, <1>6, <3>2, <3>3
  <2> QED
    BY <1>2, <1>4, <2>2, <2>3
<1>10. /\ c \o t \in Seq(Lines) /\ Len(c \o t) = Len(c) + Len(t) /\ Len(c) \in Nat
       /\ \A i \in 1 .. Len(c) : (c \o t)[i] = c[i]
       /\ \A i \in 1 .. Len(t) : (c \o t)[Len(c) + i] = t[i]
  <2> HIDE DEF c
  <2> QED
    BY <1>s, <1>6, OfTwo
<1>n. /\ Len(cut) = (Len(s) + Len(t)) - n
      /\ Len(g) = Len(cut) - FirstOf(cut) + 1
      /\ Len(c) = Len(s) - f + 1
      /\ Len(s) \in Nat /\ Len(t) \in Nat
  <2> HIDE DEF cut, n, f, c, g
  <2> QED
    BY <1>1, <1>3, <1>6, <1>7
<1>11. Len(g) = (Len(c) + Len(t)) - d
  <2> HIDE DEF cut, n, f, c, g
  <2> QED
    BY <1>0, <1>n
<1>12. ASSUME NEW i \in 1 .. Len(g) PROVE g[i] = (c \o t)[d + i]
  <2> HIDE DEF cut, n, f, c, g
  <2>1. FirstOf(cut) + i - 1 \in 1 .. Len(cut) /\ g[i] = cut[FirstOf(cut) + i - 1]
    BY <1>3, <1>5, <1>7
  <2>2. g[i] = (s \o t)[n + (FirstOf(cut) + i - 1)]
    BY <1>3, <2>1
  <2>3. n + (FirstOf(cut) + i - 1) = f + (d + i) - 1 /\ d + i \in 1 .. Len(c) + Len(t)
    <3>1. n \in Int /\ f \in Int /\ FirstOf(cut) \in Int /\ Len(c) \in Int /\ Len(t) \in Int /\ i \in Nat \ {0}
      BY <1>0, <1>10, <1>1
    <3>2. i <= Len(c) + Len(t) - d
      BY <1>11, <3>1
    <3>3. d = n + FirstOf(cut) - f
      OBVIOUS
    <3>4. d \in Nat /\ Len(c) + Len(t) \in Int
      <4> HIDE DEF d
      <4>1. Len(c) \in Nat
        BY <1>10
      <4> QED
        BY <1>9, <3>1, <4>1
    <3> HIDE DEF d
    <3>5. n + (FirstOf(cut) + i - 1) = f + (d + i) - 1
      BY <3>1, <3>3, <3>4
    <3>6. d + i \in 1 .. Len(c) + Len(t)
      BY <3>1, <3>2, <3>4
    <3> QED
      BY <3>5, <3>6
  <2>6. d + i \in Int /\ Len(s) \in Int /\ Len(t) \in Int
    <3> HIDE DEF d
    <3>1. d \in Int /\ i \in Int
      BY <1>9
    <3> QED
      BY <1>n, <3>1
  <2>4. CASE d + i <= Len(c)
    <3>1. f + (d + i) - 1 \in 1 .. Len(s)
      BY <1>1, <1>4, <1>6, <2>3, <2>4
    <3>2. c[d + i] = s[f + (d + i) - 1]
      BY <1>6, <2>3, <2>4, <1>10
    <3>3. (s \o t)[f + (d + i) - 1] = s[f + (d + i) - 1]
      BY <1>s, <3>1, OfTwo
    <3> QED
      <4>1. d + i \in 1 .. Len(c)
        BY <1>0, <1>n, <2>3, <2>4
      <4>2. (c \o t)[d + i] = c[d + i]
        BY <1>10, <4>1
      <4> QED
        BY <2>2, <2>3, <3>2, <3>3, <4>2, Zenon
  <2>5. CASE d + i > Len(c)
    <3>2. (d + i) - Len(c) \in 1 .. Len(t) /\ f + (d + i) - 1 = Len(s) + ((d + i) - Len(c))
          /\ d + i = Len(c) + ((d + i) - Len(c))
      <4>1. d + i > Len(c) /\ d + i \in 1 .. Len(c) + Len(t) /\ Len(c) = Len(s) - f + 1
        BY <1>n, <2>3, <2>5
      <4>2. Len(c) \in Int /\ f \in Int
        BY <1>0
      <4> HIDE DEF d
      <4> QED
        BY <2>6, <4>1, <4>2, InTheSecond
    <3>3. (s \o t)[f + (d + i) - 1] = t[(d + i) - Len(c)]
      BY <1>s, <3>2, OfTwo
    <3>4. (c \o t)[d + i] = t[(d + i) - Len(c)]
      BY <1>10, <3>2
    <3> QED
      BY <2>2, <2>3, <3>3, <3>4
  <2> QED
    BY <1>0, <2>4, <2>5, <2>6, LessOrMore
<1>13. ASSUME Whole(g) PROVE Whole(c) /\ g = c \o t
  <2> HIDE DEF cut, n, f, c, g
  <2>1. Len(g) \in Nat \ {0} /\ g[1].k = "steps"
    BY <1>7, <1>13 DEF Whole
  <2>2. (c \o t)[d + 1].k = "steps" /\ d + 1 \in 1 .. Len(c) + Len(t)
    BY <1>1, <1>9, <1>10, <1>11, <1>12, <2>1
  <2>3. d + 1 <= Len(c)
    <3>1. SUFFICES ASSUME d + 1 > Len(c) PROVE FALSE
      BY <1>9, <1>10
    <3>2. d + 1 - Len(c) \in 1 .. Len(t) /\ d + 1 = Len(c) + (d + 1 - Len(c))
      BY <1>1, <1>9, <1>10, <2>2, <3>1
    <3>3. (c \o t)[d + 1] = t[d + 1 - Len(c)]
      BY <1>10, <3>2
    <3> QED
      BY <1>s, <2>2, <3>2, <3>3
  <2>4. c[d + 1].k = "steps"
    BY <1>10, <2>2, <2>3
  <2>5. d = 0
    <3>1. SUFFICES ASSUME d > 0 PROVE FALSE
      BY <1>9, <1>10
    <3>2. d + 1 \in 2 .. Len(c)
      BY <1>9, <1>10, <2>3, <3>1
    <3> QED
      BY <1>6, <2>4, <3>2
  <2>6. Whole(c)
    <3>1. d + 1 = 1 /\ Len(c) # 0
      BY <2>3, <2>5
    <3> QED
      BY <1>6, <2>4, <3>1 DEF Whole
  <2>7. Len(g) = Len(c \o t) /\ \A i \in 1 .. Len(g) : g[i] = (c \o t)[i]
    BY <1>10, <1>11, <1>12, <2>5
  <2>8. g = c \o t
    BY <1>7, <1>10, <2>7, SeqEqual
  <2> QED
    BY <2>6, <2>8
<1> HIDE DEF d
<1>14. \E x \in 0 .. Len(c) : /\ Len(g) = (Len(c) + Len(t)) - x
                              /\ \A i \in 1 .. Len(g) : g[i] = (c \o t)[x + i]
  <2> HIDE DEF cut, n, f, c, g
  <2> QED
    BY <1>9, <1>11, <1>12
<1> QED
  BY <1>7, <1>13, <1>14

-----------------------------------------------------------------------------
(* The weights of the steps, their sums and the shares of them.                *)

LEMMA WeightIs ==
  ASSUME NEW w \in Seq((Nat \ {0})), NEW i \in 1 .. Len(w)
  PROVE  w[i] \in (Nat \ {0})
  OBVIOUS

LEMMA NextSum ==
  ASSUME NEW w \in Seq((Nat \ {0})), NEW n \in 0 .. Len(w) - 1
  PROVE  Sums(w)[n + 1] = Sums(w)[n] + w[n + 1] /\ w[n + 1] \in (Nat \ {0}) /\ n + 1 \in 0 .. Len(w)
<1>1. Len(w) \in Nat /\ n + 1 \in 1 .. Len(w) /\ (n + 1) - 1 = n
  OBVIOUS
<1> QED
  BY <1>1, SumsOf, WeightIs

LEMMA SumsNat ==
  ASSUME NEW w \in Seq((Nat \ {0}))
  PROVE  \A n \in 0 .. Len(w) : Sums(w)[n] \in Nat
<1> DEFINE S == {n \in 0 .. Len(w) : Sums(w)[n] \in Nat}
<1>0. Len(w) \in Nat
  OBVIOUS
<1>1. 0 \in S
  BY <1>0, SumsOf
<1>2. ASSUME NEW n \in 0 .. Len(w) - 1, n \in S PROVE n + 1 \in S
  BY <1>2, NextSum
<1> HIDE DEF S
<1>3. \A n \in 0 .. Len(w) : n \in S
  BY <1>0, <1>1, <1>2, UpTo
<1> QED
  BY <1>3 DEF S

LEMMA SumsGrow ==
  ASSUME NEW w \in Seq((Nat \ {0}))
  PROVE  \A n \in 0 .. Len(w) : \A m \in 0 .. n : Sums(w)[m] <= Sums(w)[n]
<1> DEFINE S == {n \in 0 .. Len(w) : \A m \in 0 .. n : Sums(w)[m] <= Sums(w)[n]}
<1>0. Len(w) \in Nat
  OBVIOUS
<1>1. 0 \in S
  BY <1>0, SumsNat
<1>2. ASSUME NEW n \in 0 .. Len(w) - 1, n \in S PROVE n + 1 \in S
  <2>1. n \in 0 .. Len(w) /\ n + 1 \in 0 .. Len(w) /\ Sums(w)[n + 1] = Sums(w)[n] + w[n + 1] /\ w[n + 1] \in (Nat \ {0})
    BY NextSum
  <2>2. Sums(w)[n] \in Nat
    BY <2>1, SumsNat
  <2>3. ASSUME NEW m \in 0 .. n + 1 PROVE Sums(w)[m] <= Sums(w)[n + 1]
    <3>1. CASE m = n + 1
      BY <2>1, <2>2, <3>1
    <3>2. CASE m \in 0 .. n
      <4>1. Sums(w)[m] <= Sums(w)[n] /\ Sums(w)[m] \in Nat
        BY <1>2, <2>1, <3>2, SumsNat
      <4> QED
        BY <2>1, <2>2, <4>1
    <3> QED
      BY <3>1, <3>2
  <2> QED
    BY <2>1, <2>3
<1> HIDE DEF S
<1>3. \A n \in 0 .. Len(w) : n \in S
  BY <1>0, <1>1, <1>2, UpTo
<1> QED
  BY <1>3 DEF S

LEMMA TotalPositive ==
  ASSUME NEW w \in Seq((Nat \ {0})), w # <<>>
  PROVE  Total(w) \in Nat \ {0}
<1>1. Len(w) \in Nat \ {0}
  BY EmptySeq
<1>2. Sums(w)[1] \in Nat \ {0}
  <2>1. 0 \in 0 .. Len(w) - 1 /\ 0 + 1 = 1 /\ 0 \in 0 .. Len(w)
    BY <1>1
  <2>2. Sums(w)[1] = Sums(w)[0] + w[1] /\ w[1] \in (Nat \ {0})
    BY <2>1, NextSum
  <2>3. Sums(w)[0] \in Nat
    BY <2>1, SumsNat
  <2> QED
    BY <2>2, <2>3
<1>3. Sums(w)[Len(w)] \in Nat /\ Sums(w)[1] <= Sums(w)[Len(w)]
  <2>1. Len(w) \in 0 .. Len(w) /\ 1 \in 0 .. Len(w)
    BY <1>1
  <2> QED
    BY <2>1, SumsNat, SumsGrow
<1> QED
  BY <1>2, <1>3 DEF Total

(* Dividing rounds down, so it keeps the order.                                *)
LEMMA DivideNat ==
  ASSUME NEW a \in Nat, NEW b \in Nat \ {0}
  PROVE  a \div b \in Nat
  OBVIOUS

LEMMA DivideInOrder ==
  ASSUME NEW a \in Nat, NEW c \in Nat, NEW b \in Nat \ {0}, a <= c
  PROVE  a \div b <= c \div b
  OBVIOUS

LEMMA Shares ==
  ASSUME NEW a \in Nat, NEW c \in Nat, NEW b \in Nat \ {0}, a <= c
  PROVE  /\ (Full * a) \div b \in Nat /\ (Full * c) \div b \in Nat
         /\ (Full * a) \div b <= (Full * c) \div b
<1>1. Full * a \in Nat /\ Full * c \in Nat /\ Full * a <= Full * c
  BY DEF Full
<1> QED
  BY <1>1, DivideNat, DivideInOrder

LEMMA LesserIs ==
  \A a, b \in Int : /\ Lesser(a, b) \in Int /\ Lesser(a, b) <= a /\ Lesser(a, b) <= b
                    /\ Lesser(a, b) \in {a, b}
  BY DEF Lesser

LEMMA GreaterIs ==
  \A a, b \in Int : /\ Greater(a, b) \in Int /\ a <= Greater(a, b) /\ b <= Greater(a, b)
                    /\ Greater(a, b) \in {a, b}
  BY DEF Greater

LEMMA SameForAllSteps ==
  ASSUME NEW n \in Nat
  PROVE  /\ [i \in 1 .. n |-> SameForAll] \in Seq((Nat \ {0}))
         /\ Len([i \in 1 .. n |-> SameForAll]) = n
  BY DEF SameForAll

LEMMA WeightsAre ==
  ASSUME NEW p \in Known
  PROVE  Weights(p) \in Seq((Nat \ {0})) /\ Len(Weights(p)) = p.total /\ p.total \in Nat
<1>1. p.total \in Nat /\ p.seconds \in Seq((Nat \ {0}))
  <2>1. p.total \in 0 .. Len(StepSeconds) /\ p.seconds \in Seq((Nat \ {0}))
    BY DEF Known
  <2> QED
    BY <2>1
<1> QED
  BY <1>1, SameForAllSteps DEF Weights

-----------------------------------------------------------------------------
(* What share a reading shows. *)

LEMMA InStepIs ==
  ASSUME NEW p \in Known, NEW e \in (Nat \ {0}), NEW t \in Nat
  PROVE  InStep(p, e, t) \in 0 .. e
<1>1. p.sub \in {0, 1, 2}
  BY DEF Known, Parts
<1>2. (e * p.sub) \div Parts \in Nat
  <2>1. e * p.sub \in Nat
    BY <1>1
  <2> QED
    BY <2>1, DivideNat DEF Parts
<1>3. InStepUncapped(p, e, t) \in Nat
  BY <1>2, GreaterIs DEF InStepUncapped, Greater
<1> QED
  BY <1>3 DEF InStep, Lesser

EndedWeight(p) == Sums(Weights(p))[Lesser(p.done, p.total)]
RunningWeight(p, t) ==
  IF p.done < p.total /\ p.current # 0 THEN InStep(p, Weights(p)[p.done + 1], t) ELSE 0

LEMMA FractionIs ==
  ASSUME NEW p \in Known, NEW t \in Nat
  PROVE  Fraction(p, t) =
           IF p.finished THEN Full
           ELSE IF InSetup(p) THEN Lesser(SetupShare, t)
           ELSE IF p.total = 0 THEN 0
           ELSE Lesser(AlmostFull, (Full * (EndedWeight(p) + RunningWeight(p, t))) \div Total(Weights(p)))
  BY WeightsAre DEF Fraction, EndedWeight, RunningWeight

(* The running step adds no more than its own weight, so what is shown is no   *)
(* more than the steps that have begun.                                        *)
LEMMA WeightBound ==
  ASSUME NEW p \in Known, NEW t \in Nat, NEW n \in 0 .. p.total,
         p.done <= n, p.current # 0 => p.done < n
  PROVE  /\ EndedWeight(p) + RunningWeight(p, t) \in Nat
         /\ Sums(Weights(p))[n] \in Nat
         /\ EndedWeight(p) + RunningWeight(p, t) <= Sums(Weights(p))[n]
<1> DEFINE w == Weights(p)
<1>1. w \in Seq((Nat \ {0})) /\ Len(w) = p.total /\ p.total \in Nat /\ p.done \in Nat
  BY WeightsAre DEF Known
<1>2. Lesser(p.done, p.total) = p.done /\ p.done \in 0 .. p.total /\ n \in 0 .. Len(w) /\ p.done \in 0 .. n
  BY <1>1 DEF Lesser
<1>3. EndedWeight(p) = Sums(w)[p.done] /\ Sums(w)[p.done] \in Nat /\ Sums(w)[n] \in Nat
      /\ Sums(w)[p.done] <= Sums(w)[n]
  <2>1. EndedWeight(p) = Sums(w)[p.done]
    BY <1>2 DEF EndedWeight
  <2> HIDE DEF w
  <2> QED
    BY <1>1, <1>2, <2>1, SumsNat, SumsGrow
<1>4. CASE p.done < p.total /\ p.current # 0
  <2>1. RunningWeight(p, t) = InStep(p, w[p.done + 1], t)
    BY <1>4 DEF RunningWeight
  <2> HIDE DEF w
  <2>2. p.done \in 0 .. Len(w) - 1 /\ p.done + 1 \in 0 .. n
    BY <1>1, <1>2, <1>4
  <2>3. Sums(w)[p.done + 1] = Sums(w)[p.done] + w[p.done + 1] /\ w[p.done + 1] \in (Nat \ {0})
        /\ p.done + 1 \in 0 .. Len(w)
    BY <1>1, <2>2, NextSum
  <2>4. Sums(w)[p.done + 1] <= Sums(w)[n]
    BY <1>1, <1>2, <2>2, SumsGrow
  <2>5. RunningWeight(p, t) \in 0 .. w[p.done + 1]
    BY <2>1, <2>3, InStepIs
  <2> QED
    BY <1>3, <2>3, <2>4, <2>5 DEF w
<1>5. CASE ~ (p.done < p.total /\ p.current # 0)
  <2>1. RunningWeight(p, t) = 0
    BY <1>5 DEF RunningWeight
  <2> QED
    BY <1>3, <2>1
<1> QED
  BY <1>4, <1>5

LEMMA WeightNat ==
  ASSUME NEW p \in Known, NEW t \in Nat
  PROVE  EndedWeight(p) + RunningWeight(p, t) \in Nat
<1>1. p.total \in Nat /\ p.done \in Nat /\ Weights(p) \in Seq((Nat \ {0})) /\ Len(Weights(p)) = p.total
  BY WeightsAre DEF Known
<1>2. EndedWeight(p) \in Nat
  <2>1. Lesser(p.done, p.total) \in 0 .. p.total
    BY <1>1 DEF Lesser
  <2> QED
    BY <1>1, <2>1, SumsNat DEF EndedWeight
<1>3. RunningWeight(p, t) \in Nat
  <2>1. CASE p.done < p.total /\ p.current # 0
    <3>1. p.done + 1 \in 1 .. Len(Weights(p))
      BY <1>1, <2>1
    <3>2. Weights(p)[p.done + 1] \in (Nat \ {0})
      BY <1>1, <3>1, WeightIs
    <3>3. InStep(p, Weights(p)[p.done + 1], t) \in 0 .. Weights(p)[p.done + 1]
      BY <3>2, InStepIs
    <3> QED
      BY <2>1, <3>2, <3>3 DEF RunningWeight
  <2>2. CASE ~ (p.done < p.total /\ p.current # 0)
    BY <2>2 DEF RunningWeight
  <2> QED
    BY <2>1, <2>2
<1> QED
  BY <1>2, <1>3

LEMMA FractionRange ==
  ASSUME NEW p \in Known, NEW t \in Nat
  PROVE  /\ Fraction(p, t) \in 0 .. Full
         /\ p.finished => Fraction(p, t) = Full
         /\ ~ p.finished => Fraction(p, t) <= AlmostFull
<1>1. CASE p.finished
  BY <1>1, FractionIs DEF Full
<1>2. CASE ~ p.finished /\ InSetup(p)
  <2>1. Fraction(p, t) = Lesser(SetupShare, t)
    BY <1>2, FractionIs
  <2> QED
    BY <1>2, <2>1 DEF Lesser, SetupShare, Full, AlmostFull
<1>3. CASE ~ p.finished /\ ~ InSetup(p) /\ p.total = 0
  <2>1. Fraction(p, t) = 0
    BY <1>3, FractionIs
  <2> QED
    BY <1>3, <2>1 DEF Full, AlmostFull
<1>4. CASE ~ p.finished /\ ~ InSetup(p) /\ p.total # 0
  <2> DEFINE q == (Full * (EndedWeight(p) + RunningWeight(p, t))) \div Total(Weights(p))
  <2>1. Fraction(p, t) = Lesser(AlmostFull, q)
    BY <1>4, FractionIs
  <2>2. q \in Nat
    <3>1. Weights(p) # <<>>
      <4>1. Len(Weights(p)) # 0
        BY <1>4, WeightsAre
      <4>2. Len(<<>>) = 0
        OBVIOUS
      <4> QED
        BY <4>1, <4>2
    <3>2. Total(Weights(p)) \in Nat \ {0}
      BY <3>1, WeightsAre, TotalPositive
    <3> QED
      BY <3>2, WeightNat, Shares
  <2> HIDE DEF q
  <2> QED
    BY <1>4, <2>1, <2>2 DEF Lesser, AlmostFull, Full
<1> QED
  BY <1>1, <1>2, <1>3, <1>4, Zenon

LEMMA FractionBound ==
  ASSUME NEW p \in Known, NEW t \in Nat, NEW n \in 0 .. p.total,
         ~ p.finished, ~ InSetup(p), p.total # 0,
         p.done <= n, p.current # 0 => p.done < n
  PROVE  Fraction(p, t) <= Lesser(AlmostFull, (Full * Sums(Weights(p))[n]) \div Total(Weights(p)))
<1> DEFINE a == EndedWeight(p) + RunningWeight(p, t)
           c == Sums(Weights(p))[n]
           b == Total(Weights(p))
<1>1. Fraction(p, t) = Lesser(AlmostFull, (Full * a) \div b)
  BY FractionIs
<1>2. a \in Nat /\ c \in Nat /\ a <= c
  BY WeightBound
<1>3. b \in Nat \ {0}
  <2>1. Len(Weights(p)) # 0
    BY WeightsAre
  <2>2. Weights(p) # <<>>
    <3>1. Len(<<>>) = 0
      OBVIOUS
    <3> QED
      BY <2>1, <3>1
  <2> QED
    BY <2>2, WeightsAre, TotalPositive
<1> HIDE DEF a, b, c
<1>4. /\ (Full * a) \div b \in Nat /\ (Full * c) \div b \in Nat
      /\ (Full * a) \div b <= (Full * c) \div b
  BY <1>2, <1>3, Shares
<1>5. Lesser(AlmostFull, (Full * a) \div b) <= Lesser(AlmostFull, (Full * c) \div b)
  BY <1>4 DEF Lesser, AlmostFull
<1> QED
  BY <1>1, <1>5 DEF c, b

-----------------------------------------------------------------------------
(* The plan of a run, and how many of its stages count. *)

LEMMA Constants ==
  /\ StepSeconds \in Seq((Nat \ {0})) /\ Len(StepSeconds) \in Nat \ {0}
  /\ MaxJobs \in Nat \ {0} /\ Window \in Nat \ {0} /\ Window >= 2 /\ MaxAnswers \in Nat \ {0}
  /\ MaxSetup \in Nat /\ MaxOther \in Nat /\ MaxDetails \in Nat /\ MaxAge \in Nat
  /\ MaxDetails < Window
  BY RunProgressAssumption, EmptySeq

LEMMA PlanFacts ==
  ASSUME plan \in Plans
  PROVE  /\ plan.setup \in 0 .. MaxSetup /\ plan.setup \in Nat /\ plan.printed \in BOOLEAN
         /\ plan.seconds \in Seq((Nat \ {0}))
         /\ Len(plan.seconds) \in 1 .. Len(StepSeconds) /\ Len(plan.seconds) \in Nat \ {0}
         /\ Stages \in Nat /\ Stages <= MaxStages /\ MaxStages \in Nat
<1>1. PICK n \in DOMAIN StepSeconds : plan.seconds = SubSeq(StepSeconds, 1, n)
  BY DEF Plans
<1>2. n \in 1 .. Len(StepSeconds) /\ plan.setup \in 0 .. MaxSetup /\ plan.printed \in BOOLEAN
  BY Constants DEF Plans
<1>3. plan.seconds \in Seq((Nat \ {0})) /\ Len(plan.seconds) = n
  BY <1>1, <1>2, Constants
<1>4. n \in Nat \ {0}
  BY <1>2
<1> QED
  BY <1>2, <1>3, <1>4, Constants DEF Stages, MaxStages

LEMMA Between ==
  ASSUME NEW a \in Nat, NEW b \in Nat
  PROVE  Cardinality((a + 1) .. b) = IF b > a THEN b - a ELSE 0
  BY FS_Interval

LEMMA CountedStages ==
  ASSUME plan \in Plans, NEW n \in Nat
  PROVE  Cardinality({k \in 1 .. n : Counts(k)}) = Steps(n)
<1>1. plan.setup \in Nat
  BY PlanFacts
<1>2. {k \in 1 .. n : Counts(k)} = (plan.setup + 1) .. n
  BY <1>1 DEF Counts
<1> QED
  BY <1>1, <1>2, Between DEF Steps

LEMMA CountedStagesEnded ==
  ASSUME plan \in Plans, NEW n \in Nat, NEW m \in 0 .. n
  PROVE  Cardinality({k \in 1 .. n : Counts(k) /\ k <= m}) = Steps(m)
<1>1. plan.setup \in Nat /\ m \in Nat
  BY PlanFacts
<1>2. {k \in 1 .. n : Counts(k) /\ k <= m} = (plan.setup + 1) .. m
  BY <1>1 DEF Counts
<1> QED
  BY <1>1, <1>2, Between DEF Steps

LEMMA StepsBound ==
  ASSUME plan \in Plans, NEW n \in 0 .. Stages
  PROVE  Steps(n) \in 0 .. Len(plan.seconds)
  BY PlanFacts DEF Steps, Stages

LEMMA PlanWeightsAre ==
  ASSUME plan \in Plans
  PROVE  PlanWeights \in Seq((Nat \ {0})) /\ Len(PlanWeights) = Len(plan.seconds)
  BY PlanFacts, SameForAllSteps DEF PlanWeights

-----------------------------------------------------------------------------
(* The lines of a log that has grown: the last of the current job's, then the  *)
(* new ones, in their order.                                                   *)

Follows(c, t, g, d) ==
  /\ c \in Seq(Lines) /\ t \in Seq(Lines) /\ g \in Seq(Lines) /\ d \in 0 .. Len(c)
  /\ Len(g) = (Len(c) + Len(t)) - d /\ \A i \in 1 .. Len(g) : g[i] = (c \o t)[d + i]

Placed(c, t, g, d) ==
  /\ \A i \in 1 .. Len(g) : \/ d + i \in 1 .. Len(c) /\ g[i] = c[d + i]
                            \/ (d + i) - Len(c) \in 1 .. Len(t) /\ g[i] = t[(d + i) - Len(c)]
  /\ \A j \in 1 .. Len(t) : \E i \in 1 .. Len(g) : g[i] = t[j]

LEMMA GrownLines == \A c, t, g, d : Follows(c, t, g, d) => Placed(c, t, g, d)
<1>s. SUFFICES ASSUME NEW c, NEW t, NEW g, NEW d, Follows(c, t, g, d) PROVE Placed(c, t, g, d)
  OBVIOUS
<1>f. /\ c \in Seq(Lines) /\ t \in Seq(Lines) /\ g \in Seq(Lines) /\ d \in 0 .. Len(c)
      /\ Len(g) = (Len(c) + Len(t)) - d
  BY <1>s DEF Follows
<1>0. Len(c) \in Nat /\ Len(t) \in Nat /\ d \in Nat
  BY <1>f
<1>1. ASSUME NEW i \in 1 .. Len(g)
      PROVE  \/ d + i \in 1 .. Len(c) /\ g[i] = c[d + i]
             \/ (d + i) - Len(c) \in 1 .. Len(t) /\ g[i] = t[(d + i) - Len(c)]
  <2>0. d + i \in 1 .. Len(c) + Len(t) /\ i \in Nat /\ g[i] = (c \o t)[d + i]
    BY <1>s, <1>0, <1>f DEF Follows
  <2>1. CASE d + i <= Len(c)
    <3>1. d + i \in 1 .. Len(c)
      BY <1>0, <2>0, <2>1
    <3>2. (c \o t)[d + i] = c[d + i]
      BY <1>f, <3>1, OfTwo
    <3> QED
      BY <2>0, <3>1, <3>2
  <2>2. CASE d + i > Len(c)
    <3>1. (d + i) - Len(c) \in 1 .. Len(t) /\ d + i = Len(c) + ((d + i) - Len(c))
      BY <1>0, <2>0, <2>2
    <3>2. (c \o t)[d + i] = t[(d + i) - Len(c)]
      BY <1>f, <3>1, OfTwo
    <3> QED
      BY <2>0, <3>1, <3>2
  <2>3. d + i \in Int /\ Len(c) \in Int
    BY <1>0, <2>0
  <2> QED
    BY <2>1, <2>2, <2>3, LessOrMore
<1>2. ASSUME NEW j \in 1 .. Len(t)
      PROVE  \E i \in 1 .. Len(g) : g[i] = t[j]
  <2> DEFINE i == (Len(c) + j) - d
  <2>1. i \in 1 .. Len(g) /\ d + i = Len(c) + j
    BY <1>0, <1>f
  <2>2. g[i] = (c \o t)[Len(c) + j]
    BY <1>s, <2>1 DEF Follows
  <2>3. (c \o t)[Len(c) + j] = t[j]
    BY <1>f, OfTwo
  <2> QED
    BY <2>1, <2>2, <2>3
<1> QED
  BY <1>1, <1>2 DEF Placed

(* A log that grows by lines that are no heads.                                *)
Grows(t) ==
  /\ log' = Cut(log \o t, Window)
  /\ Len(t) <= Window /\ \A i \in 1 .. Len(t) : t[i].k \notin {"job", "steps"}

LEMMA LogGrows ==
  ASSUME log \in Seq(Lines), NEW t \in Seq(Lines), Grows(t)
  PROVE  /\ log' \in Seq(Lines) /\ Len(log') <= Window
         /\ Cur \in Seq(Lines) /\ Cur' \in Seq(Lines)
         /\ \E d \in 0 .. Len(Cur) : /\ Len(Cur') = (Len(Cur) + Len(t)) - d
                                     /\ \A i \in 1 .. Len(Cur') : Cur'[i] = (Cur \o t)[d + i]
         /\ Whole(Cur') => Whole(Cur) /\ Cur' = Cur \o t
<1>1. log \o t \in Seq(Lines)
  OBVIOUS
<1>2. log' \in Seq(Lines) /\ Len(log') <= Window
  BY <1>1, CutIs DEF Grows
<1>3. Cur \in Seq(Lines)
  BY CurrentIs DEF Cur
<1>4. Cur = Current(log) /\ Cur' = Current(Cut(log \o t, Window))
  BY DEF Cur, Grows
<1>5. Len(t) <= Window /\ \A i \in 1 .. Len(t) : t[i].k \notin {"job", "steps"}
  BY DEF Grows
<1>6. LET c == Current(log)
          g == Current(Cut(log \o t, Window))
      IN /\ g \in Seq(Lines)
         /\ \E d \in 0 .. Len(c) : /\ Len(g) = (Len(c) + Len(t)) - d
                                   /\ \A i \in 1 .. Len(g) : g[i] = (c \o t)[d + i]
         /\ Whole(g) => Whole(c) /\ g = c \o t
  BY <1>5, CurrentGrows
<1> QED
  BY <1>2, <1>3, <1>4, <1>6

(* What the new lines tell of the outcome and of stages that are done.         *)
Told(t) ==
  /\ \A i \in 1 .. Len(t) : t[i].k = "failed" => outcome' = "failed" /\ t[i].stage = stage'
  /\ \A i \in 1 .. Len(t) : t[i].k = "pipeline done" => outcome' = "finished"
  /\ \A i \in 1 .. Len(t) : t[i].k = "done" => t[i].stage = stage /\ pc = "stage" /\ pc' # "stage"
  /\ \A i, j \in 1 .. Len(t) : t[i].k = "done" /\ t[j].k = "done" => i = j
  /\ outcome' = "failed" => \E i \in 1 .. Len(t) : t[i].k = "failed"
  /\ outcome' = "finished" => \E i \in 1 .. Len(t) : t[i].k = "pipeline done"
  /\ stage <= stage' /\ (pc' = "stage" => (pc = "stage" /\ stage' = stage) \/ stage < stage')

LEMMA OutcomeGrows ==
  ASSUME log \in Seq(Lines), NEW t \in Seq(Lines), Grows(t), Told(t), OutcomeInv, outcome = "none",
         stage \in Nat, stage' \in Nat
  PROVE  OutcomeInv'
<1> DEFINE c == Cur
           g == Cur'
<1>1. c \in Seq(Lines) /\ g \in Seq(Lines)
  BY LogGrows
<1>2. PICK d \in 0 .. Len(c) : Len(g) = (Len(c) + Len(t)) - d /\ \A i \in 1 .. Len(g) : g[i] = (c \o t)[d + i]
  BY LogGrows
<1>3. /\ \A i \in 1 .. Len(g) : \/ d + i \in 1 .. Len(c) /\ g[i] = c[d + i]
                                \/ (d + i) - Len(c) \in 1 .. Len(t) /\ g[i] = t[(d + i) - Len(c)]
      /\ \A j \in 1 .. Len(t) : \E i \in 1 .. Len(g) : g[i] = t[j]
  <2> HIDE DEF c, g
  <2>1. Follows(c, t, g, d)
    BY <1>1, <1>2 DEF Follows
  <2>2. Placed(c, t, g, d)
    BY <2>1, GrownLines
  <2> QED
    BY <2>2 DEF Placed
<1>4. /\ DOMAIN c = 1 .. Len(c) /\ DOMAIN g = 1 .. Len(g) /\ Len(c) \in Nat /\ Len(t) \in Nat
      /\ Len(g) \in Nat /\ d \in Nat
  <2> HIDE DEF c, g
  <2> QED
    BY <1>1
<1>5. \A i \in 1 .. Len(c) :
        /\ c[i].k # "failed" /\ c[i].k # "pipeline done"
        /\ c[i].k = "done" => c[i].stage <= stage /\ (pc = "stage" => c[i].stage < stage) /\ c[i].stage \in Nat
  <2> SUFFICES ASSUME NEW i \in 1 .. Len(c)
               PROVE  /\ c[i].k # "failed" /\ c[i].k # "pipeline done"
                      /\ c[i].k = "done" => /\ c[i].stage <= stage /\ (pc = "stage" => c[i].stage < stage)
                                            /\ c[i].stage \in Nat
    OBVIOUS
  <2>1. /\ c[i].k = "failed" => outcome = "failed"
        /\ c[i].k = "pipeline done" => outcome = "finished"
        /\ c[i].k = "done" => c[i].stage <= stage /\ (pc = "stage" => c[i].stage < stage)
    BY <1>4 DEF OutcomeInv
  <2>2. c[i] \in Lines
    BY <1>1
  <2>3. c[i].k = "done" => c[i].stage \in Nat
    BY <2>2, LineKinds
  <2> QED
    BY <2>1, <2>3
<1>6. ASSUME NEW i \in 1 .. Len(g)
      PROVE  /\ g[i].k = "failed" => outcome' = "failed" /\ g[i].stage = stage'
             /\ g[i].k = "pipeline done" => outcome' = "finished"
             /\ g[i].k = "done" => g[i].stage <= stage' /\ (pc' = "stage" => g[i].stage < stage')
  <2> HIDE DEF c, g
  <2>1. CASE d + i \in 1 .. Len(c) /\ g[i] = c[d + i]
    <3>1. /\ g[i].k # "failed" /\ g[i].k # "pipeline done"
          /\ g[i].k = "done" => g[i].stage <= stage /\ (pc = "stage" => g[i].stage < stage) /\ g[i].stage \in Nat
      BY <1>5, <2>1
    <3>2. stage <= stage' /\ (pc' = "stage" => (pc = "stage" /\ stage' = stage) \/ stage < stage')
      BY DEF Told
    <3> DEFINE x == g[i].stage
    <3>3. ASSUME g[i].k = "done" PROVE x <= stage' /\ (pc' = "stage" => x < stage')
      <4>1. x \in Nat /\ x <= stage /\ (pc = "stage" => x < stage)
        BY <3>1, <3>3
      <4> HIDE DEF x
      <4> QED
        BY <3>2, <4>1
    <3> QED
      BY <3>1, <3>3
  <2>2. CASE (d + i) - Len(c) \in 1 .. Len(t) /\ g[i] = t[(d + i) - Len(c)]
    <3> DEFINE j == (d + i) - Len(c)
    <3>1. j \in 1 .. Len(t) /\ g[i] = t[j]
      BY <2>2
    <3> HIDE DEF j
    <3> QED
      BY <3>1 DEF Told
  <2> QED
    BY <1>3, <2>1, <2>2
<1>7. outcome' = "failed" => \E i \in 1 .. Len(g) : g[i].k = "failed"
  <2> HIDE DEF c, g
  <2> QED
    BY <1>3 DEF Told
<1>8. outcome' = "finished" => \E i \in 1 .. Len(g) : g[i].k = "pipeline done"
  <2> HIDE DEF c, g
  <2> QED
    BY <1>3 DEF Told
<1>9. ASSUME NEW i \in 1 .. Len(g), NEW j \in 1 .. Len(g), i < j, g[i].k = "done", g[j].k = "done"
      PROVE  g[i].stage < g[j].stage
  <2> HIDE DEF c, g
  <2>1. CASE d + i \in 1 .. Len(c) /\ g[i] = c[d + i] /\ d + j \in 1 .. Len(c) /\ g[j] = c[d + j]
    <3>1. d + i < d + j
      BY <1>4, <1>9
    <3>2. \A a, b \in DOMAIN c : a < b /\ c[a].k = "done" /\ c[b].k = "done" => c[a].stage < c[b].stage
      BY DEF OutcomeInv, c
    <3> QED
      BY <1>4, <1>9, <2>1, <3>1, <3>2
  <2>2. CASE d + i \in 1 .. Len(c) /\ g[i] = c[d + i] /\ (d + j) - Len(c) \in 1 .. Len(t)
             /\ g[j] = t[(d + j) - Len(c)]
    <3>1. g[j].stage = stage /\ pc = "stage"
      BY <1>9, <2>2 DEF Told
    <3> QED
      BY <1>5, <1>9, <2>2, <3>1
  <2>3. CASE (d + i) - Len(c) \in 1 .. Len(t) /\ g[i] = t[(d + i) - Len(c)]
    <3>1. (d + i) - Len(c) < (d + j) - Len(c) /\ d + j \notin 1 .. Len(c)
      BY <1>4, <1>9, <2>3
    <3>2. (d + j) - Len(c) \in 1 .. Len(t) /\ g[j] = t[(d + j) - Len(c)]
      BY <1>3, <3>1
    <3>3. (d + i) - Len(c) = (d + j) - Len(c)
      BY <1>9, <2>3, <3>2 DEF Told
    <3>4. (d + i) - Len(c) \in Int
      BY <1>4
    <3> QED
      BY <3>1, <3>3, <3>4
  <2> QED
    BY <1>3, <2>1, <2>2, <2>3
<1> QED
  BY <1>4, <1>6, <1>7, <1>8, <1>9 DEF OutcomeInv

-----------------------------------------------------------------------------
(* What the reader knows while the pipeline goes on. *)

LEMMA OutcomeHead ==
  ASSUME NEW h \in Lines, h.k \in {"job", "steps"}, Cur' = <<h>>, outcome' = "none"
  PROVE  OutcomeInv'
<1>1. DOMAIN <<h>> = {1} /\ <<h>>[1] = h
  OBVIOUS
<1>2. DOMAIN Cur' = {1} /\ Cur'[1] = h
  BY <1>1
<1> QED
  BY <1>2 DEF OutcomeInv

(* The part of the log that begins with the head grows by one line.            *)
LEMMA HeadGrows ==
  ASSUME log \in Seq(Lines), NEW l \in Lines, Grows(<<l>>), HeadInv, pc' # "steps",
         \A p \in Known : pc # "steps" /\ Agrees(p) => Agrees(Reads(p, l))'
  PROVE  HeadInv'
<1>1. SUFFICES ASSUME Whole(Cur') PROVE Agrees(ReadAll(Cur))'
  BY DEF HeadInv
<1>2. <<l>> \in Seq(Lines)
  OBVIOUS
<1>3. Cur \in Seq(Lines) /\ Whole(Cur) /\ Cur' = Cur \o <<l>>
  BY <1>1, <1>2, LogGrows
<1>4. PICK p \in Known : p = ReadAll(Cur)
  BY <1>3, ReadAllKnown
<1>5. pc # "steps" /\ Agrees(p)
  BY <1>3, <1>4 DEF HeadInv
<1>6. Agrees(Reads(p, l))'
  BY <1>5
<1>7. ReadAll(Cur)' = Reads(p, l)
  BY <1>3, <1>4, ReadOneMore
<1> QED
  BY <1>6, <1>7 DEF Agrees

LEMMA OnlyOne == \A i \in 1 .. 1 : i = 1
  OBVIOUS

LEMMA OneLine == \A l \in Lines : <<l>> \in Seq(Lines)
  OBVIOUS

LEMMA NotNext == \A n \in Nat : n # n + 1
  OBVIOUS

LEMMA NotZero == \A n \in Nat : n > 0 => n # 0
  OBVIOUS

LEMMA OneLineGrows ==
  ASSUME NEW l, l.k \notin {"job", "steps"}, Say(l)
  PROVE  Grows(<<l>>)
<1>1. Len(<<l>>) = 1 /\ <<l>>[1] = l
  OBVIOUS
<1> QED
  BY <1>1, OnlyOne, Constants DEF Grows, Say, SayAll

(* A line that is no event of the pipeline's end.                              *)
LEMMA OneLineTold ==
  ASSUME NEW l, l.k \notin {"failed", "pipeline done", "done"}, outcome' = "none",
         stage <= stage', pc' = "stage" => (pc = "stage" /\ stage' = stage) \/ stage < stage'
  PROVE  Told(<<l>>)
<1>1. Len(<<l>>) = 1 /\ <<l>>[1] = l
  OBVIOUS
<1> QED
  BY <1>1, OnlyOne DEF Told

-----------------------------------------------------------------------------
(* Every step of the pipeline keeps what the log tells. *)

LEMMA StartJobCore ==
  ASSUME CoreInv, NEW p \in Plans, StartJob(p)
  PROVE  CoreInv'
<1> USE DEF CoreInv
<1> DEFINE h == [k |-> "job"]
<1>1. h \in Lines /\ h.k = "job" /\ log' = Cut(log \o <<h>>, Window) /\ log \in Seq(Lines)
  BY DEF Lines, StartJob, Say, SayAll, LogInv
<1>2. log \o <<h>> \in Seq(Lines)
  BY <1>1
<1> HIDE DEF h
<1>3. Cur' = <<h>>
  BY <1>1, HeadStarts DEF Cur
<1>4. PipeTypeOK'
  <2>1. jobs' \in 0 .. MaxJobs
    BY Constants DEF StartJob, PipeTypeOK
  <2>2. plan' \in Plans /\ stage' = 0 /\ sub' = 0 /\ pc' = "steps" /\ outcome' = "none" /\ other' = other
    BY DEF StartJob
  <2>3. plan'.setup \in Nat /\ Len(plan'.seconds) \in Nat
    BY <2>2, PlanFacts, RunProgressAssumption DEF Plans
  <2>4. 0 \in 0 .. Stages'
    BY <2>3 DEF Stages
  <2> QED
    BY <2>1, <2>2, <2>4 DEF PipeTypeOK, Parts
<1>5. LogInv'
  <2>1. jobs' # 0
    BY DEF StartJob, PipeTypeOK
  <2> QED
    BY <1>1, <1>2, <2>1, CutIs DEF LogInv
<1>6. PipeInv'
  BY DEF StartJob, PipeInv, PipeTypeOK
<1>7. OutcomeInv'
  BY <1>1, <1>3, OutcomeHead DEF StartJob
<1>8. HeadInv'
  <2>1. ~ Whole(Cur')
    BY <1>1, <1>3 DEF Whole
  <2> QED
    BY <2>1 DEF HeadInv
<1> QED
  BY <1>4, <1>5, <1>6, <1>7, <1>8

LEMMA InOrder ==
  ASSUME CoreInv
  PROVE  stage \in Nat /\ stage <= Stages /\ stage \in 0 .. Stages /\ Stages \in Nat /\ jobs \in Nat
<1>1. Stages \in Nat
  <2>1. CASE plan \in Plans
    BY <2>1, PlanFacts
  <2>2. CASE plan = NoPlan
    BY <2>2 DEF NoPlan, Stages
  <2> QED
    BY <2>1, <2>2 DEF CoreInv, PipeTypeOK
<1>2. stage \in 0 .. Stages /\ jobs \in 0 .. MaxJobs
  BY DEF CoreInv, PipeTypeOK
<1> QED
  BY <1>1, <1>2, Constants

LEMMA SayStepsCore ==
  ASSUME CoreInv, SaySteps
  PROVE  CoreInv'
<1> USE DEF CoreInv
<1>0. /\ pc = "steps" /\ pc' = "counted" /\ jobs > 0 /\ outcome = "none" /\ plan \in Plans /\ stage = 0
      /\ UNCHANGED <<jobs, plan, stage, sub, outcome, other>>
  BY DEF SaySteps, Header, PipeInv
<1>1. PICK h \in Lines : h = [k |-> "steps", n |-> Len(plan.seconds)]
  BY <1>0, PlanFacts DEF Lines
<1>2. h.k = "steps" /\ h.n = Len(plan.seconds)
  BY <1>1
<1>3. log' = Cut(log \o <<h>>, Window) /\ log \in Seq(Lines) /\ log \o <<h>> \in Seq(Lines)
  BY <1>1 DEF SaySteps, Header, Say, SayAll, LogInv
<1>4. Cur' = <<h>>
  BY <1>2, <1>3, HeadStarts DEF Cur
<1>5. PipeTypeOK'
  BY <1>0 DEF PipeTypeOK, Stages
<1>6. LogInv'
  <2>1. log' \in Seq(Lines) /\ Len(log') <= Window
    BY <1>3, CutIs
  <2>2. jobs' # 0
    BY <1>0, InOrder
  <2> QED
    BY <2>1, <2>2 DEF LogInv
<1>7. PipeInv'
  BY <1>0 DEF PipeInv
<1>8. OutcomeInv'
  BY <1>0, <1>2, <1>4, OutcomeHead
<1>9. HeadInv'
  <2> DEFINE r == Reads(Blank, h)
  <2>1. ReadAll(Cur)' = r
    <3>1. <<>> \in Seq(Lines) /\ <<>> \o <<h>> = <<h>>
      OBVIOUS
    <3>2. ReadAll(<<h>>) = r
      BY <3>1, ReadNone, ReadOneMore
    <3> QED
      BY <1>4, <3>2
  <2>2. /\ r.total = Len(plan.seconds) /\ r.seconds = <<>> /\ r.started = 0 /\ r.counted = TRUE
        /\ r.current = 0 /\ r.sub = 0 /\ r.done = 0
    <3> DEFINE n == Len(plan.seconds)
    <3>1. r = [Blank EXCEPT !.total = n]
      BY <1>2 DEF Reads, EndsAStage
    <3> HIDE DEF n, r
    <3>2. /\ r.total = n /\ r.seconds = <<>> /\ r.started = 0 /\ r.counted = TRUE
          /\ r.current = 0 /\ r.sub = 0 /\ r.done = 0
      BY <3>1 DEF Blank
    <3> QED
      BY <3>2 DEF n
  <2>3. Steps(0)' = 0
    BY <1>0, PlanFacts DEF Steps
  <2> HIDE DEF r
  <2>4. Agrees(ReadAll(Cur))'
    BY <1>0, <2>1, <2>2, <2>3 DEF Agrees
  <2> QED
    BY <1>0, <2>4 DEF HeadInv
<1> QED
  BY <1>5, <1>6, <1>7, <1>8, <1>9

(* What every line but a head and the last of a run leaves as it was.          *)
LEMMA OneLineCore ==
  ASSUME CoreInv, NEW l \in Lines, l.k \notin {"job", "steps", "failed", "pipeline done", "done"}, Say(l),
         jobs' = jobs, outcome = "none", outcome' = "none", jobs > 0, stage \in Nat, stage' \in Nat,
         stage <= stage', pc' = "stage" => (pc = "stage" /\ stage' = stage) \/ stage < stage'
  PROVE  LogInv' /\ OutcomeInv' /\ Grows(<<l>>) /\ log \in Seq(Lines)
<1>1. log \in Seq(Lines) /\ OutcomeInv
  BY DEF CoreInv, LogInv
<1>2. <<l>> \in Seq(Lines) /\ Grows(<<l>>)
  <2>1. <<l>> \in Seq(Lines)
    BY OneLine, Zenon
  <2>2. l.k \notin {"job", "steps"}
    BY Zenon
  <2>3. Grows(<<l>>)
    BY <2>2, OneLineGrows, Zenon
  <2> QED
    BY <2>1, <2>3
<1>3. Told(<<l>>)
  BY OneLineTold
<1>4. OutcomeInv'
  BY <1>1, <1>2, <1>3, OutcomeGrows
<1>5. LogInv'
  <2>1. log' \in Seq(Lines) /\ Len(log') <= Window
    BY <1>1, <1>2, LogGrows
  <2>2. jobs \in Nat
    BY InOrder, Zenon
  <2>3. jobs' # 0
    BY <2>2, NotZero, Zenon
  <2> QED
    BY <2>1, <2>3 DEF LogInv
<1> QED
  BY <1>1, <1>2, <1>4, <1>5

LEMMA SayCountedCore ==
  ASSUME CoreInv, SayCounted
  PROVE  CoreInv'
<1> USE DEF CoreInv
<1>0. /\ pc = "counted" /\ pc' = (IF plan.printed THEN "expect" ELSE "next")
      /\ jobs > 0 /\ outcome = "none" /\ plan \in Plans /\ stage = 0
      /\ UNCHANGED <<jobs, plan, stage, sub, outcome, other>>
  BY DEF SayCounted, Header, PipeInv
<1>1. PICK l \in Lines : l = [k |-> "counted", flags |-> [i \in 1 .. Stages |-> Counts(i)]]
  <2>1. [i \in 1 .. Stages |-> Counts(i)] \in Seq(BOOLEAN)
    <3>1. \A i : Counts(i) \in BOOLEAN
      BY DEF Counts
    <3>2. Stages \in Nat
      BY InOrder
    <3> HIDE DEF CoreInv
    <3> QED
      BY <3>1, <3>2
  <2> QED
    BY <2>1 DEF Lines
<1>2. l.k = "counted" /\ l.flags = [i \in 1 .. Stages |-> Counts(i)]
  BY <1>1
<1>3. Say(l)
  BY <1>1 DEF SayCounted, Header
<1>4. LogInv' /\ OutcomeInv' /\ Grows(<<l>>) /\ log \in Seq(Lines)
  <2>1. stage \in Nat /\ stage' \in Nat /\ stage <= stage' /\ pc' # "stage" /\ outcome' = "none" /\ jobs' = jobs
    BY <1>0
  <2>2. l.k \notin {"job", "steps", "failed", "pipeline done", "done"}
    BY <1>2
  <2> HIDE DEF CoreInv
  <2> QED
    BY <1>0, <1>3, <2>1, <2>2, OneLineCore
<1>5. PipeTypeOK'
  BY <1>0 DEF PipeTypeOK, Stages
<1>7. PipeInv'
  BY <1>0 DEF PipeInv
<1>8. ASSUME NEW p \in Known, Agrees(p) PROVE Agrees(Reads(p, l))'
  <2> DEFINE r == Reads(p, l)
  <2>1. /\ r.total = p.total /\ r.flags = l.flags /\ r.seconds = p.seconds /\ r.started = p.started
        /\ r.counted = p.counted /\ r.current = p.current /\ r.sub = p.sub /\ r.done = p.done
    BY <1>2 DEF Reads, EndsAStage, Known
  <2> HIDE DEF r
  <2>2. p.current = 0 /\ p.seconds = <<>>
    BY <1>0, <1>8 DEF Agrees
  <2>3. UNCHANGED <<Stages, Counts(stage)>> /\ \A n : Steps(n)' = Steps(n)
    BY <1>0 DEF Stages, Counts, Steps
  <2>4. r.flags = [i \in 1 .. Stages' |-> Counts(i)']
    BY <1>0, <1>2, <2>1, <2>3 DEF Counts
  <2> QED
    BY <1>0, <1>8, <2>1, <2>2, <2>3, <2>4 DEF Agrees, r
<1>9. HeadInv'
  BY <1>0, <1>4, <1>8, HeadGrows
<1> QED
  BY <1>4, <1>5, <1>7, <1>9

LEMMA SayExpectCore ==
  ASSUME CoreInv, SayExpect
  PROVE  CoreInv'
<1> USE DEF CoreInv
<1>0. /\ pc = "expect" /\ pc' = "next" /\ plan.printed
      /\ jobs > 0 /\ outcome = "none" /\ plan \in Plans /\ stage = 0
      /\ UNCHANGED <<jobs, plan, stage, sub, outcome, other>>
  BY DEF SayExpect, Header, PipeInv
<1>1. PICK l \in Lines : l = [k |-> "expect", seconds |-> plan.seconds]
  BY <1>0, PlanFacts DEF Lines
<1>2. l.k = "expect" /\ l.seconds = plan.seconds
  BY <1>1
<1>3. Say(l)
  BY <1>1 DEF SayExpect, Header
<1>4. LogInv' /\ OutcomeInv' /\ Grows(<<l>>) /\ log \in Seq(Lines)
  <2>1. stage \in Nat /\ stage' \in Nat /\ stage <= stage' /\ pc' # "stage" /\ outcome' = "none" /\ jobs' = jobs
    BY <1>0
  <2>2. l.k \notin {"job", "steps", "failed", "pipeline done", "done"}
    BY <1>2
  <2> HIDE DEF CoreInv
  <2> QED
    BY <1>0, <1>3, <2>1, <2>2, OneLineCore
<1>5. PipeTypeOK'
  BY <1>0 DEF PipeTypeOK, Stages
<1>7. PipeInv'
  BY <1>0 DEF PipeInv
<1>8. ASSUME NEW p \in Known, Agrees(p) PROVE Agrees(Reads(p, l))'
  <2> DEFINE r == Reads(p, l)
  <2>1. /\ r.total = p.total /\ r.flags = p.flags /\ r.seconds = l.seconds /\ r.started = p.started
        /\ r.counted = p.counted /\ r.current = p.current /\ r.sub = p.sub /\ r.done = p.done
    BY <1>2 DEF Reads, EndsAStage, Known
  <2> HIDE DEF r
  <2>2. p.current = 0 /\ p.flags = [i \in 1 .. Stages |-> Counts(i)]
    BY <1>0, <1>8 DEF Agrees
  <2>3. UNCHANGED <<Stages, Counts(stage)>> /\ \A n : Steps(n)' = Steps(n)
    BY <1>0 DEF Stages, Counts, Steps
  <2>4. r.flags = [i \in 1 .. Stages' |-> Counts(i)']
    BY <1>0, <2>1, <2>2, <2>3 DEF Counts
  <2> QED
    BY <1>0, <1>2, <1>8, <2>1, <2>2, <2>3, <2>4 DEF Agrees, r
<1>9. HeadInv'
  BY <1>0, <1>4, <1>8, HeadGrows
<1> QED
  BY <1>4, <1>5, <1>7, <1>9

LEMMA StageStartsCore ==
  ASSUME CoreInv, StageStarts
  PROVE  CoreInv'
<1> USE DEF CoreInv
<1>0. /\ pc = "next" /\ pc' = "stage" /\ stage < Stages /\ stage' = stage + 1 /\ sub' = 0
      /\ jobs > 0 /\ outcome = "none" /\ plan \in Plans
      /\ UNCHANGED <<jobs, plan, outcome, other>>
  BY DEF StageStarts, PipeInv
<1>n. stage \in Nat /\ Stages \in Nat /\ stage + 1 \in Nat \ {0} /\ stage + 1 \in 1 .. Stages
  BY <1>0, InOrder
<1>1. PICK l \in Lines : l = [k |-> "start", stage |-> stage + 1]
  BY <1>n DEF Lines
<1>2. l.k = "start" /\ l.stage = stage + 1
  BY <1>1
<1>3. Say(l)
  BY <1>1 DEF StageStarts
<1>4. LogInv' /\ OutcomeInv' /\ Grows(<<l>>) /\ log \in Seq(Lines)
  <2>1. stage \in Nat /\ stage' \in Nat /\ stage <= stage' /\ stage < stage' /\ outcome' = "none" /\ jobs' = jobs
    BY <1>0, <1>n
  <2>2. l.k \notin {"job", "steps", "failed", "pipeline done", "done"}
    BY <1>2
  <2> HIDE DEF CoreInv
  <2> QED
    BY <1>0, <1>3, <2>1, <2>2, OneLineCore
<1>5. PipeTypeOK'
  <2>1. Stages' = Stages
    BY <1>0 DEF Stages
  <2>2. stage' \in 0 .. Stages' /\ sub' \in 0 .. Parts
    BY <1>0, <1>n, <2>1 DEF Parts
  <2> QED
    BY <1>0, <2>2 DEF PipeTypeOK
<1>7. PipeInv'
  BY <1>0, <1>n DEF PipeInv
<1>8. ASSUME NEW p \in Known, Agrees(p) PROVE Agrees(Reads(p, l))'
  <2> DEFINE r == Reads(p, l)
             c == p.started + 1 \notin DOMAIN p.flags \/ p.flags[p.started + 1]
  <2>1. /\ r.total = p.total /\ r.flags = p.flags /\ r.seconds = p.seconds /\ r.started = p.started + 1
        /\ r.counted = c /\ r.current = stage + 1 /\ r.sub = 0 /\ r.done = p.done
    <3>1. r = [p EXCEPT !.counted = c, !.started = p.started + 1, !.current = stage + 1, !.sub = 0]
      BY <1>2 DEF Reads, EndsAStage
    <3> HIDE DEF c, r
    <3> QED
      BY <3>1 DEF Known
  <2> HIDE DEF r, c
  <2>2. /\ p.total = Len(plan.seconds) /\ p.flags = [i \in 1 .. Stages |-> Counts(i)]
        /\ p.seconds = (IF plan.printed THEN plan.seconds ELSE <<>>) /\ p.started = stage /\ p.current = 0
        /\ p.done = Steps(stage)
    BY <1>0, <1>8 DEF Agrees
  <2>3. c <=> Counts(stage + 1)
    BY <1>n, <2>2 DEF c
  <2>4. UNCHANGED Stages /\ (Counts(stage)' <=> Counts(stage + 1)) /\ Steps(stage - 1)' = Steps(stage)
    <3>1. stage' - 1 = stage
      BY <1>0, <1>n
    <3> QED
      BY <1>0, <3>1 DEF Stages, Counts, Steps
  <2>5. r.flags = [i \in 1 .. Stages' |-> Counts(i)']
    BY <1>0, <2>1, <2>2, <2>4 DEF Counts
  <2>6. stage' # 0
    BY <1>0, <1>n
  <2>7. r.counted <=> stage' = 0 \/ Counts(stage)'
    BY <2>1, <2>3, <2>4, <2>6
  <2>8. r.done = Steps(IF r.current # 0 \/ outcome = "failed" THEN stage - 1 ELSE stage)'
    BY <1>0, <1>n, <2>1, <2>2, <2>4 DEF Steps
  <2> QED
    BY <1>0, <2>1, <2>2, <2>5, <2>7, <2>8 DEF Agrees, r
<1>9. HeadInv'
  BY <1>0, <1>4, <1>8, HeadGrows
<1> QED
  BY <1>4, <1>5, <1>7, <1>9

LEMMA StageReportsCore ==
  ASSUME CoreInv, StageReports
  PROVE  CoreInv'
<1> USE DEF CoreInv
<1>0. /\ pc = "stage" /\ pc' = "stage" /\ sub < Parts /\ sub' = sub + 1 /\ stage > 0
      /\ jobs > 0 /\ outcome = "none" /\ plan \in Plans
      /\ UNCHANGED <<jobs, plan, stage, outcome, other>>
  BY DEF StageReports, PipeInv
<1>n. stage \in Nat \ {0} /\ sub + 1 \in 1 .. Parts
  BY <1>0, InOrder DEF PipeTypeOK, Parts
<1>1. PICK l \in Lines : l = [k |-> "progress", stage |-> stage, sub |-> sub + 1]
  BY <1>n DEF Lines
<1>2. l.k = "progress" /\ l.sub = sub + 1
  BY <1>1
<1>3. Say(l)
  BY <1>1 DEF StageReports
<1>4. LogInv' /\ OutcomeInv' /\ Grows(<<l>>) /\ log \in Seq(Lines)
  <2>1. stage \in Nat /\ stage' \in Nat /\ stage <= stage' /\ stage' = stage /\ outcome' = "none" /\ jobs' = jobs
    BY <1>0, <1>n
  <2>2. l.k \notin {"job", "steps", "failed", "pipeline done", "done"}
    BY <1>2
  <2> HIDE DEF CoreInv
  <2> QED
    BY <1>0, <1>3, <2>1, <2>2, OneLineCore
<1>5. PipeTypeOK'
  <2>1. sub' \in 0 .. Parts
    BY <1>0, <1>n DEF Parts
  <2> QED
    BY <1>0, <2>1 DEF PipeTypeOK, Stages
<1>7. PipeInv'
  BY <1>0 DEF PipeInv
<1>8. ASSUME NEW p \in Known, Agrees(p) PROVE Agrees(Reads(p, l))'
  <2> DEFINE r == Reads(p, l)
  <2>1. /\ r.total = p.total /\ r.flags = p.flags /\ r.seconds = p.seconds /\ r.started = p.started
        /\ r.counted = p.counted /\ r.current = p.current /\ r.sub = sub + 1 /\ r.done = p.done
    BY <1>2 DEF Reads, EndsAStage, Known
  <2> HIDE DEF r
  <2>3. UNCHANGED <<Stages, Counts(stage)>> /\ \A n : Steps(n)' = Steps(n)
    BY <1>0 DEF Stages, Counts, Steps
  <2>4. r.flags = [i \in 1 .. Stages' |-> Counts(i)']
    BY <1>0, <1>8, <2>1, <2>3 DEF Counts, Agrees
  <2> QED
    BY <1>0, <1>8, <2>1, <2>3, <2>4 DEF Agrees, r
<1>9. HeadInv'
  BY <1>0, <1>4, <1>8, HeadGrows
<1> QED
  BY <1>4, <1>5, <1>7, <1>9

(* The same for several lines that tell the reader what one of them does.      *)
LEMMA HeadGrowsBy ==
  ASSUME log \in Seq(Lines), NEW t \in Seq(Lines), NEW l \in Lines, Grows(t), HeadInv, pc' # "steps",
         \A s \in Seq(Lines) : ReadAll(s \o t) = Reads(ReadAll(s), l),
         \A p \in Known : pc # "steps" /\ Agrees(p) => Agrees(Reads(p, l))'
  PROVE  HeadInv'
<1>1. SUFFICES ASSUME Whole(Cur') PROVE Agrees(ReadAll(Cur))'
  BY DEF HeadInv
<1>3. Cur \in Seq(Lines) /\ Whole(Cur) /\ Cur' = Cur \o t
  BY <1>1, LogGrows
<1>4. PICK p \in Known : p = ReadAll(Cur)
  BY <1>3, ReadAllKnown
<1>5. pc # "steps" /\ Agrees(p)
  BY <1>3, <1>4 DEF HeadInv
<1>6. Agrees(Reads(p, l))'
  BY <1>5
<1>7. ReadAll(Cur)' = Reads(p, l)
  BY <1>3, <1>4
<1> QED
  BY <1>6, <1>7 DEF Agrees

(* A stage that says it is done, perhaps after saying it was skipped.          *)
LEMMA DoneLines ==
  ASSUME NEW st \in Nat \ {0}, NEW skipped \in BOOLEAN, NEW t,
         t = (IF skipped THEN <<[k |-> "skipped", stage |-> st]>> ELSE <<>>) \o <<[k |-> "done", stage |-> st]>>
  PROVE  /\ t \in Seq(Lines) /\ Len(t) \in {1, 2} /\ (skipped <=> Len(t) = 2)
         /\ t[Len(t)] = [k |-> "done", stage |-> st]
         /\ Len(t) = 2 => t[1] = [k |-> "skipped", stage |-> st]
         /\ [k |-> "done", stage |-> st] \in Lines
         /\ Len(t) = 1 => t = <<[k |-> "done", stage |-> st]>>
         /\ Len(t) = 2 => t = <<[k |-> "skipped", stage |-> st]>> \o <<[k |-> "done", stage |-> st]>>
<1>1. PICK a \in Lines : a = [k |-> "skipped", stage |-> st]
  BY DEF Lines
<1>2. PICK b \in Lines : b = [k |-> "done", stage |-> st]
  BY DEF Lines
<1>3. CASE skipped
  <2>1. t = <<a>> \o <<b>>
    BY <1>1, <1>2, <1>3
  <2>2. <<a>> \o <<b>> \in Seq(Lines) /\ Len(<<a>> \o <<b>>) = 2 /\ (<<a>> \o <<b>>)[1] = a /\ (<<a>> \o <<b>>)[2] = b
    OBVIOUS
  <2> QED
    BY <1>1, <1>2, <1>3, <2>1, <2>2
<1>4. CASE ~ skipped
  <2>1. t = <<>> \o <<b>>
    BY <1>2, <1>4
  <2>2. <<>> \o <<b>> = <<b>> /\ <<b>> \in Seq(Lines) /\ Len(<<b>>) = 1 /\ <<b>>[1] = b
    OBVIOUS
  <2> QED
    BY <1>2, <1>4, <2>1, <2>2
<1> QED
  BY <1>3, <1>4

LEMMA StageDoneCore ==
  ASSUME CoreInv, NEW skipped \in BOOLEAN, StageDone(skipped)
  PROVE  CoreInv'
<1> USE DEF CoreInv
<1>0. /\ pc = "stage" /\ pc' = "next" /\ stage > 0
      /\ jobs > 0 /\ outcome = "none" /\ plan \in Plans
      /\ UNCHANGED <<jobs, plan, stage, sub, outcome, other>>
  BY DEF StageDone, PipeInv
<1>n. stage \in Nat \ {0} /\ jobs \in Nat
  BY <1>0, InOrder
<1>1. PICK t : t = (IF skipped THEN <<[k |-> "skipped", stage |-> stage]>> ELSE <<>>)
                   \o <<[k |-> "done", stage |-> stage]>>
  OBVIOUS
<1>2. PICK st \in Nat \ {0} : st = stage
  BY <1>n
<1>3. PICK b : b = [k |-> "done", stage |-> st]
  OBVIOUS
<1>4. PICK a : a = [k |-> "skipped", stage |-> st]
  OBVIOUS
<1>5. /\ t \in Seq(Lines) /\ Len(t) \in {1, 2} /\ t[Len(t)] = b
      /\ Len(t) = 2 => t[1] = a
      /\ b \in Lines
      /\ Len(t) = 1 => t = <<b>>
      /\ Len(t) = 2 => t = <<a>> \o <<b>>
  BY <1>1, <1>2, <1>3, <1>4, DoneLines
<1>6. b.k = "done" /\ b.stage = stage /\ a.k = "skipped"
  BY <1>2, <1>3, <1>4
<1>7. \A i \in 1 .. Len(t) : (i = Len(t) /\ t[i] = b) \/ (Len(t) = 2 /\ i = 1 /\ t[i] = a)
  BY <1>5
<1>w. CASE Len(t) <= Window
  <2>1. Grows(t)
    <3>1. \A i \in 1 .. Len(t) : t[i].k \notin {"job", "steps"}
      BY <1>6, <1>7
    <3> QED
      BY <1>1, <1>w, <3>1 DEF Grows, StageDone, SayAll
  <2>2. Told(t)
    <3>1. \A i \in 1 .. Len(t) : t[i].k \notin {"failed", "pipeline done"}
      BY <1>6, <1>7
    <3>2. \A i \in 1 .. Len(t) : t[i].k = "done" => i = Len(t) /\ t[i].stage = stage
      BY <1>6, <1>7
    <3>3. stage <= stage'
      BY <1>0, <1>n
    <3> HIDE DEF CoreInv
    <3> QED
      BY <1>0, <3>1, <3>2, <3>3 DEF Told
  <2>3. log \in Seq(Lines) /\ OutcomeInv /\ HeadInv
    BY DEF LogInv
  <2>4. OutcomeInv'
    BY <1>0, <1>5, <1>n, <2>1, <2>2, <2>3, OutcomeGrows
  <2>5. LogInv'
    <3>1. log' \in Seq(Lines) /\ Len(log') <= Window
      BY <1>5, <2>1, <2>3, LogGrows
    <3> QED
      BY <1>0, <1>n, <3>1 DEF LogInv
  <2>6. ASSUME NEW s \in Seq(Lines) PROVE ReadAll(s \o t) = Reads(ReadAll(s), b)
    <3>1. CASE Len(t) = 1
      BY <1>5, <3>1, ReadOneMore
    <3>2. CASE Len(t) = 2
      <4>1. a \in Lines
        BY <1>2, <1>4 DEF Lines
      <4>2. s \o <<a>> \in Seq(Lines) /\ s \o (<<a>> \o <<b>>) = (s \o <<a>>) \o <<b>>
        BY <1>5, <4>1
      <4>3. ReadAll(s \o t) = Reads(ReadAll(s \o <<a>>), b)
        <5>1. s \o t = (s \o <<a>>) \o <<b>>
          BY <1>5, <3>2, <4>2
        <5>2. b \in Lines
          BY <1>5
        <5>3. ReadAll((s \o <<a>>) \o <<b>>) = Reads(ReadAll(s \o <<a>>), b)
          BY <4>2, <5>2, ReadOneMore
        <5> QED
          BY <5>1, <5>3
      <4>4. ReadAll(s \o <<a>>) = Reads(ReadAll(s), a)
        BY <4>1, ReadOneMore
      <4>5. Reads(ReadAll(s), a) = ReadAll(s)
        BY <1>6 DEF Reads, EndsAStage
      <4> QED
        BY <4>3, <4>4, <4>5
    <3> QED
      BY <1>5, <3>1, <3>2
  <2>7. ASSUME NEW p \in Known, Agrees(p) PROVE Agrees(Reads(p, b))'
    <3> DEFINE r == Reads(p, b)
               x == IF p.counted THEN p.done + 1 ELSE p.done
    <3>1. /\ r.total = p.total /\ r.flags = p.flags /\ r.seconds = p.seconds /\ r.started = p.started
          /\ r.counted = p.counted /\ r.current = 0 /\ r.sub = 0 /\ r.done = x
      <4>1. r = [p EXCEPT !.done = x, !.current = 0, !.sub = 0]
        BY <1>6 DEF Reads, EndsAStage
      <4> HIDE DEF r, x
      <4> QED
        BY <4>1 DEF Known
    <3> HIDE DEF r
    <3>2. /\ p.current = stage /\ p.done = Steps(stage - 1) /\ (p.counted <=> Counts(stage))
      BY <1>0, <1>n, <2>7 DEF Agrees
    <3>3. UNCHANGED <<Stages, Counts(stage)>> /\ \A n : Steps(n)' = Steps(n)
      BY <1>0 DEF Stages, Counts, Steps
    <3>4. r.flags = [i \in 1 .. Stages' |-> Counts(i)']
      BY <1>0, <2>7, <3>1, <3>3 DEF Counts, Agrees
    <3>5. x = Steps(stage)
      BY <1>0, <1>n, <3>2, PlanFacts DEF Steps, Counts
    <3> HIDE DEF x
    <3> QED
      BY <1>0, <2>7, <3>1, <3>3, <3>4, <3>5 DEF Agrees, r
  <2>8. HeadInv'
    BY <1>0, <1>5, <2>1, <2>3, <2>6, <2>7, HeadGrowsBy
  <2>9. PipeTypeOK' /\ PipeInv'
    BY <1>0 DEF PipeTypeOK, PipeInv, Stages
  <2> QED
    BY <2>4, <2>5, <2>8, <2>9
<1> QED
  BY <1>5, <1>w, Constants

(* A stage that fails says so, and what stands behind it follows.              *)
FailLines(st, details) ==
  <<[k |-> "failed", stage |-> st]>> \o [i \in 1 .. details |-> [k |-> "detail", stage |-> st]]

TellsFailed(t, f, details) ==
  /\ t \in Seq(Lines) /\ Len(t) = 1 + details /\ t[1] = f
  /\ \A i \in 2 .. Len(t) : t[i].k = "detail"
  /\ \A s \in Seq(Lines) : ReadAll(s \o t) = Reads(ReadAll(s), f)

LEMMA FailedLines ==
  ASSUME NEW st \in Nat \ {0}, NEW details \in Nat, NEW t, t = FailLines(st, details)
  PROVE  \E f \in Lines : f = [k |-> "failed", stage |-> st] /\ TellsFailed(t, f, details)
<1>1. PICK f \in Lines : f = [k |-> "failed", stage |-> st]
  BY DEF Lines
<1>2. PICK d \in Lines : d = [k |-> "detail", stage |-> st]
  BY DEF Lines
<1> DEFINE u == [i \in 1 .. details |-> d]
<1>3. t = <<f>> \o u
  BY <1>1, <1>2 DEF FailLines
<1>4. u \in Seq(Lines) /\ Len(u) = details /\ \A i \in 1 .. Len(u) : u[i] = d
  OBVIOUS
<1>5. d.k = "detail"
  BY <1>2
<1> HIDE DEF u
<1>6. <<f>> \in Seq(Lines) /\ Len(<<f>>) = 1 /\ <<f>>[1] = f
  OBVIOUS
<1>7. /\ t \in Seq(Lines) /\ Len(t) = 1 + details /\ t[1] = f
      /\ \A i \in 1 .. Len(u) : t[1 + i] = u[i]
  <2>1. 1 \in 1 .. Len(<<f>>)
    BY <1>6
  <2> QED
    BY <1>3, <1>4, <1>6, <2>1, OfTwo
<1>8. ASSUME NEW i \in 2 .. Len(t) PROVE t[i].k = "detail"
  <2>1. i - 1 \in 1 .. Len(u) /\ 1 + (i - 1) = i
    BY <1>4, <1>7
  <2>2. t[i] = d
    BY <1>4, <1>7, <2>1
  <2> QED
    BY <1>5, <2>2
<1>9. ASSUME NEW s \in Seq(Lines) PROVE ReadAll(s \o t) = Reads(ReadAll(s), f)
  <2>1. s \o <<f>> \in Seq(Lines) /\ s \o (<<f>> \o u) = (s \o <<f>>) \o u
    BY <1>4
  <2>2. \A i \in 1 .. Len(u) : u[i].k = "detail"
    BY <1>4, <1>5
  <2>3. ReadAll((s \o <<f>>) \o u) = ReadAll(s \o <<f>>)
    BY <1>4, <2>1, <2>2, ReadDetails
  <2>4. ReadAll(s \o <<f>>) = Reads(ReadAll(s), f)
    BY ReadOneMore
  <2> QED
    BY <1>3, <2>1, <2>3, <2>4
<1> QED
  BY <1>1, <1>7, <1>8, <1>9 DEF TellsFailed

LEMMA StageFailsCore ==
  ASSUME CoreInv, NEW details \in 0 .. MaxDetails, StageFails(details)
  PROVE  CoreInv'
<1> USE DEF CoreInv
<1>0. /\ pc = "stage" /\ pc' = "over" /\ stage > 0
      /\ jobs > 0 /\ outcome = "none" /\ outcome' = "failed" /\ plan \in Plans
      /\ UNCHANGED <<jobs, plan, stage, sub, other>>
  BY DEF StageFails, PipeInv
<1>n. stage \in Nat \ {0} /\ jobs \in Nat /\ details \in Nat /\ 1 + details <= Window
  BY <1>0, InOrder, Constants
<1>1. PICK t : t = <<[k |-> "failed", stage |-> stage]>> \o [i \in 1 .. details |-> [k |-> "detail", stage |-> stage]]
  OBVIOUS
<1>2. PICK st \in Nat \ {0} : st = stage
  BY <1>n
<1>3. PICK b \in Lines : b = [k |-> "failed", stage |-> st] /\ TellsFailed(t, b, details)
  <2>1. t = FailLines(st, details)
    BY <1>1, <1>2 DEF FailLines
  <2>2. details \in Nat
    BY <1>n
  <2> HIDE DEF CoreInv
  <2> QED
    BY <2>1, <2>2, FailedLines
<1>5. /\ t \in Seq(Lines) /\ Len(t) = 1 + details
      /\ t[1] = b /\ b \in Lines
      /\ \A i \in 2 .. Len(t) : t[i].k = "detail"
      /\ \A s \in Seq(Lines) : ReadAll(s \o t) = Reads(ReadAll(s), b)
  BY <1>3 DEF TellsFailed
<1>6. b.k = "failed" /\ b.stage = stage
  BY <1>2, <1>3
<1>7. \A i \in 1 .. Len(t) : (i = 1 /\ t[i] = b) \/ t[i].k = "detail"
  BY <1>5
<1>8. Grows(t)
  <2>1. \A i \in 1 .. Len(t) : t[i].k \notin {"job", "steps"}
    BY <1>6, <1>7
  <2> QED
    BY <1>1, <1>5, <1>n, <2>1 DEF Grows, StageFails, SayAll
<1>9. Told(t)
  <2>1. \A i \in 1 .. Len(t) : t[i].k \notin {"done", "pipeline done"}
    BY <1>6, <1>7
  <2>2. \A i \in 1 .. Len(t) : t[i].k = "failed" => t[i].stage = stage
    BY <1>6, <1>7
  <2>3. stage <= stage'
    BY <1>0, <1>n
  <2>4. 1 \in 1 .. Len(t) /\ t[1].k = "failed"
    BY <1>5, <1>6, <1>n
  <2> HIDE DEF CoreInv
  <2> QED
    BY <1>0, <2>1, <2>2, <2>3, <2>4 DEF Told
<1>10. log \in Seq(Lines) /\ OutcomeInv /\ HeadInv
  BY DEF LogInv
<1>11. OutcomeInv'
  BY <1>0, <1>5, <1>n, <1>8, <1>9, <1>10, OutcomeGrows
<1>12. LogInv'
  <2>1. log' \in Seq(Lines) /\ Len(log') <= Window
    BY <1>5, <1>8, <1>10, LogGrows
  <2> QED
    BY <1>0, <1>n, <2>1 DEF LogInv
<1>13. ASSUME NEW p \in Known, Agrees(p) PROVE Agrees(Reads(p, b))'
  <2> DEFINE r == Reads(p, b)
  <2>1. /\ r.total = p.total /\ r.flags = p.flags /\ r.seconds = p.seconds /\ r.started = p.started
        /\ r.counted = p.counted /\ r.current = 0 /\ r.sub = p.sub /\ r.done = p.done
    <3>1. r = [p EXCEPT !.failed = stage, !.current = 0]
      BY <1>6 DEF Reads, EndsAStage
    <3> HIDE DEF r
    <3> QED
      BY <3>1 DEF Known
  <2> HIDE DEF r
  <2>2. p.done = Steps(stage - 1)
    BY <1>0, <1>n, <1>13 DEF Agrees
  <2>3. UNCHANGED <<Stages, Counts(stage)>> /\ \A n : Steps(n)' = Steps(n)
    BY <1>0 DEF Stages, Counts, Steps
  <2>4. r.flags = [i \in 1 .. Stages' |-> Counts(i)']
    BY <1>0, <1>13, <2>1, <2>3 DEF Counts, Agrees
  <2> QED
    BY <1>0, <1>13, <2>1, <2>2, <2>3, <2>4 DEF Agrees, r
<1>14. HeadInv'
  BY <1>0, <1>5, <1>8, <1>10, <1>13, HeadGrowsBy
<1>15. PipeTypeOK' /\ PipeInv'
  BY <1>0 DEF PipeTypeOK, PipeInv, Stages
<1> QED
  BY <1>11, <1>12, <1>14, <1>15

LEMMA FinishesCore ==
  ASSUME CoreInv, Finishes
  PROVE  CoreInv'
<1> USE DEF CoreInv
<1>0. /\ pc = "next" /\ pc' = "over" /\ stage = Stages
      /\ jobs > 0 /\ outcome = "none" /\ outcome' = "finished" /\ plan \in Plans
      /\ UNCHANGED <<jobs, plan, stage, sub, other>>
  BY DEF Finishes, PipeInv
<1>n. stage \in Nat /\ jobs \in Nat
  BY <1>0, InOrder
<1>1. PICK l \in Lines : l = [k |-> "pipeline done"]
  BY DEF Lines
<1>2. l.k = "pipeline done"
  BY <1>1
<1>3. Say(l)
  BY <1>1 DEF Finishes
<1>4. <<l>> \in Seq(Lines) /\ Grows(<<l>>)
  BY <1>2, <1>3, OneLine, OneLineGrows
<1>5. Told(<<l>>)
  <2>1. Len(<<l>>) = 1 /\ <<l>>[1] = l
    OBVIOUS
  <2>2. 1 \in 1 .. 1 /\ stage <= stage'
    BY <1>0, <1>n
  <2> HIDE DEF CoreInv
  <2> QED
    BY <1>0, <1>2, <2>1, <2>2, OnlyOne DEF Told
<1>6. log \in Seq(Lines) /\ OutcomeInv /\ HeadInv
  BY DEF LogInv
<1>7. OutcomeInv'
  BY <1>0, <1>4, <1>n, <1>5, <1>6, OutcomeGrows
<1>8. LogInv'
  <2>1. log' \in Seq(Lines) /\ Len(log') <= Window
    BY <1>4, <1>6, LogGrows
  <2> QED
    BY <1>0, <1>n, <2>1 DEF LogInv
<1>9. ASSUME NEW p \in Known, Agrees(p) PROVE Agrees(Reads(p, l))'
  <2> DEFINE r == Reads(p, l)
  <2>1. /\ r.total = p.total /\ r.flags = p.flags /\ r.seconds = p.seconds /\ r.started = p.started
        /\ r.counted = p.counted /\ r.current = p.current /\ r.sub = p.sub /\ r.done = p.done
    BY <1>2 DEF Reads, EndsAStage, Known
  <2> HIDE DEF r
  <2>2. p.current = 0 /\ p.done = Steps(stage)
    BY <1>0, <1>9 DEF Agrees
  <2>3. UNCHANGED <<Stages, Counts(stage)>> /\ \A n : Steps(n)' = Steps(n)
    BY <1>0 DEF Stages, Counts, Steps
  <2>4. r.flags = [i \in 1 .. Stages' |-> Counts(i)']
    BY <1>0, <1>9, <2>1, <2>3 DEF Counts, Agrees
  <2> QED
    BY <1>0, <1>9, <2>1, <2>2, <2>3, <2>4 DEF Agrees, r
<1>10. HeadInv'
  BY <1>0, <1>4, <1>6, <1>9, HeadGrows
<1>11. PipeTypeOK' /\ PipeInv'
  BY <1>0 DEF PipeTypeOK, PipeInv, Stages
<1> QED
  BY <1>7, <1>8, <1>10, <1>11

LEMMA OtherOutputCore ==
  ASSUME CoreInv, OtherOutput
  PROVE  CoreInv'
<1> USE DEF CoreInv
<1>0. /\ pc # "over" /\ pc' = pc /\ other' = other + 1 /\ other < MaxOther
      /\ jobs > 0 /\ outcome = "none" /\ plan \in Plans
      /\ UNCHANGED <<jobs, plan, stage, sub, outcome>>
  BY DEF OtherOutput, PipeInv
<1>1. PICK l \in Lines : l = [k |-> "other"]
  BY DEF Lines
<1>2. l.k = "other"
  BY <1>1
<1>3. Say(l)
  BY <1>1 DEF OtherOutput
<1>n. stage \in Nat
  BY InOrder
<1>4. LogInv' /\ OutcomeInv' /\ Grows(<<l>>) /\ log \in Seq(Lines)
  <2>1. /\ stage \in Nat /\ stage' \in Nat /\ stage <= stage' /\ stage' = stage /\ (pc' = "stage" => pc = "stage")
        /\ outcome' = "none" /\ jobs' = jobs
    BY <1>0, <1>n
  <2>2. l.k \notin {"job", "steps", "failed", "pipeline done", "done"}
    BY <1>2
  <2> HIDE DEF CoreInv
  <2> QED
    BY <1>0, <1>3, <2>1, <2>2, OneLineCore
<1>5. PipeTypeOK'
  <2>1. other' \in 0 .. MaxOther
    BY <1>0, Constants DEF PipeTypeOK
  <2> QED
    BY <1>0, <2>1 DEF PipeTypeOK, Stages
<1>6. ASSUME NEW p \in Known, Agrees(p) PROVE Agrees(Reads(p, l))'
  <2>1. Reads(p, l) = p
    BY <1>2 DEF Reads, EndsAStage
  <2>2. UNCHANGED <<Stages, Counts(stage)>> /\ \A n : Steps(n)' = Steps(n)
    BY <1>0 DEF Stages, Counts, Steps
  <2>3. stage > 0 \/ pc \in {"expect", "next", "stage"} => p.flags = [i \in 1 .. Stages' |-> Counts(i)']
    BY <1>0, <1>6, <2>2 DEF Counts, Agrees
  <2> QED
    BY <1>0, <1>6, <2>1, <2>2, <2>3 DEF Agrees
<1>7. PipeInv'
  BY <1>0 DEF PipeInv
<1>8. CASE pc # "steps"
  <2>1. HeadInv'
    BY <1>0, <1>4, <1>6, <1>8, HeadGrows
  <2> QED
    BY <1>4, <1>5, <1>7, <2>1
<1>9. CASE pc = "steps"
  <2>1. ~ Whole(Cur')
    <3>1. <<l>> \in Seq(Lines)
      BY OneLine
    <3>2. Whole(Cur') => Whole(Cur)
      BY <1>4, <3>1, LogGrows
    <3> QED
      BY <1>9, <3>2 DEF HeadInv
  <2>2. HeadInv'
    BY <2>1 DEF HeadInv
  <2> QED
    BY <1>4, <1>5, <1>7, <2>2
<1> QED
  BY <1>8, <1>9

LEMMA DiesCore ==
  ASSUME CoreInv, Dies
  PROVE  CoreInv'
<1> USE DEF CoreInv
<1>0. /\ pc # "over" /\ pc' = "over" /\ jobs > 0 /\ outcome = "none"
      /\ UNCHANGED <<jobs, plan, stage, sub, outcome, other, log>>
  BY DEF Dies, PipeInv
<1>1. Cur' = Cur
  BY <1>0 DEF Cur
<1>2. PipeTypeOK' /\ LogInv' /\ PipeInv' /\ OutcomeInv'
  BY <1>0, <1>1 DEF PipeTypeOK, LogInv, PipeInv, OutcomeInv, Stages
<1>3. HeadInv'
  <2> SUFFICES ASSUME Whole(Cur) PROVE Agrees(ReadAll(Cur))'
    BY <1>0, <1>1 DEF HeadInv
  <2>1. PICK p : p = ReadAll(Cur)
    OBVIOUS
  <2>2. Agrees(p) /\ ReadAll(Cur)' = p
    BY <1>1, <2>1 DEF HeadInv
  <2>3. UNCHANGED <<Stages, Counts(stage)>> /\ \A n : Steps(n)' = Steps(n)
    BY <1>0 DEF Stages, Counts, Steps
  <2>4. stage > 0 \/ pc \in {"expect", "next", "stage"} => p.flags = [i \in 1 .. Stages' |-> Counts(i)']
    BY <1>0, <2>2, <2>3 DEF Counts, Agrees
  <2>5. Agrees(p)'
    BY <1>0, <2>2, <2>3, <2>4 DEF Agrees
  <2> QED
    BY <2>2, <2>5 DEF Agrees
<1> QED
  BY <1>2, <1>3

LEMMA PipeKeepsCore ==
  ASSUME CoreInv, UNCHANGED pipe
  PROVE  CoreInv'
<1> USE DEF CoreInv
<1>0. UNCHANGED <<jobs, plan, pc, stage, sub, outcome, other, log>>
  BY DEF pipe
<1>1. Cur' = Cur
  BY <1>0 DEF Cur
<1>2. PipeTypeOK' /\ LogInv' /\ PipeInv' /\ OutcomeInv'
  BY <1>0, <1>1 DEF PipeTypeOK, LogInv, PipeInv, OutcomeInv, Stages
<1>3. HeadInv'
  <2>1. pc = "steps" => ~ Whole(Cur)
    BY DEF HeadInv
  <2> SUFFICES ASSUME Whole(Cur) PROVE Agrees(ReadAll(Cur))'
    BY <1>0, <1>1, <2>1 DEF HeadInv
  <2>2. PICK p : p = ReadAll(Cur)
    OBVIOUS
  <2>3. Agrees(p) /\ ReadAll(Cur)' = p
    BY <1>1, <2>2 DEF HeadInv
  <2>4. UNCHANGED <<Stages, Counts(stage)>> /\ \A n : Steps(n)' = Steps(n)
    BY <1>0 DEF Stages, Counts, Steps
  <2>5. stage > 0 \/ pc \in {"expect", "next", "stage"} => p.flags = [i \in 1 .. Stages' |-> Counts(i)']
    BY <1>0, <2>3, <2>4 DEF Counts, Agrees
  <2>6. Agrees(p)'
    BY <1>0, <2>3, <2>4, <2>5 DEF Agrees
  <2> QED
    BY <2>3, <2>6 DEF Agrees
<1> QED
  BY <1>2, <1>3

LEMMA CoreInit ==
  ASSUME Init
  PROVE  CoreInv
<1>1. PipeTypeOK
  BY Constants DEF Init, PipeTypeOK, NoPlan, Stages, Parts
<1>2. LogInv
  <2>1. <<>> \in Seq(Lines) /\ Len(<<>>) = 0
    OBVIOUS
  <2> QED
    BY <2>1, Constants DEF Init, LogInv
<1>3. PipeInv
  BY DEF Init, PipeInv
<1>4. Cur = <<>>
  <2>1. log = <<>> /\ log \in Seq(Lines)
    BY DEF Init
  <2> QED
    BY <2>1, CurrentNone DEF Cur
<1>5. OutcomeInv
  <2>1. DOMAIN <<>> = {}
    OBVIOUS
  <2> QED
    BY <1>4, <2>1 DEF Init, OutcomeInv
<1>6. HeadInv
  BY <1>4 DEF Init, HeadInv, Whole
<1> QED
  BY <1>1, <1>2, <1>3, <1>5, <1>6 DEF CoreInv

LEMMA PipelineCore ==
  ASSUME CoreInv, Pipeline
  PROVE  CoreInv'
<1>1. ASSUME NEW p \in Plans, StartJob(p) PROVE CoreInv'
  BY <1>1, StartJobCore
<1>2. CASE SaySteps
  BY <1>2, SayStepsCore
<1>3. CASE SayCounted
  BY <1>3, SayCountedCore
<1>4. CASE SayExpect
  BY <1>4, SayExpectCore
<1>5. CASE StageStarts
  BY <1>5, StageStartsCore
<1>6. CASE StageReports
  BY <1>6, StageReportsCore
<1>7. ASSUME NEW skipped \in BOOLEAN, StageDone(skipped) PROVE CoreInv'
  BY <1>7, StageDoneCore
<1>8. ASSUME NEW details \in 0 .. MaxDetails, StageFails(details) PROVE CoreInv'
  BY <1>8, StageFailsCore
<1>9. CASE Finishes
  BY <1>9, FinishesCore
<1>10. CASE Dies
  BY <1>10, DiesCore
<1>11. CASE OtherOutput
  BY <1>11, OtherOutputCore
<1> QED
  BY <1>1, <1>2, <1>3, <1>4, <1>5, <1>6, <1>7, <1>8, <1>9, <1>10, <1>11 DEF Pipeline

LEMMA NextCore ==
  ASSUME CoreInv, [Next]_vars
  PROVE  CoreInv'
<1>1. CASE Pipeline
  BY <1>1, PipelineCore
<1>2. CASE Look
  BY <1>2, PipeKeepsCore DEF Look
<1>3. ASSUME NEW a \in answers, JobMsg(a) PROVE CoreInv'
  BY <1>3, PipeKeepsCore DEF JobMsg
<1>4. CASE TickMsg
  BY <1>4, PipeKeepsCore DEF TickMsg
<1>5. CASE UNCHANGED vars
  BY <1>5, PipeKeepsCore DEF vars
<1> QED
  BY <1>1, <1>2, <1>3, <1>4, <1>5 DEF Next

-----------------------------------------------------------------------------
(* What the reader makes of the end of the log. *)

LEMMA ReadsTheCurrent ==
  ASSUME CoreInv
  PROVE  /\ Tail200 = log /\ log \in Seq(Lines) /\ Cur \in Seq(Lines)
         /\ ReadProgress(Tail200) = ReadAll(Cur) /\ ReadAll(Cur) \in Known
<1>1. log \in Seq(Lines) /\ Len(log) <= Window
  BY DEF CoreInv, LogInv
<1>2. Tail200 = log
  BY <1>1, NothingToCut DEF Tail200
<1>3. Cur \in Seq(Lines)
  BY <1>1, CurrentIs DEF Cur
<1> QED
  BY <1>1, <1>2, <1>3, ReadAllKnown DEF ReadProgress, Cur

LEMMA OutcomeRead ==
  ASSUME CoreInv
  PROVE  LET p == ReadAll(Cur) IN
         /\ p.failed = (IF outcome = "failed" THEN stage ELSE 0)
         /\ p.finished <=> outcome = "finished"
<1>1. Cur \in Seq(Lines) /\ stage \in Nat /\ DOMAIN Cur = 1 .. Len(Cur)
  BY ReadsTheCurrent, InOrder
<1>2. /\ \A i \in 1 .. Len(Cur) : Cur[i].k = "failed" => outcome = "failed" /\ Cur[i].stage = stage
      /\ \A i \in 1 .. Len(Cur) : Cur[i].k = "pipeline done" => outcome = "finished"
      /\ outcome = "failed" => \E i \in 1 .. Len(Cur) : Cur[i].k = "failed"
      /\ outcome = "finished" => \E i \in 1 .. Len(Cur) : Cur[i].k = "pipeline done"
  BY <1>1 DEF CoreInv, OutcomeInv
<1>3. ReadAll(Cur).failed = IF \E i \in 1 .. Len(Cur) : Cur[i].k = "failed" THEN stage ELSE 0
  BY <1>1, <1>2, FailedRead
<1>4. ReadAll(Cur).finished <=> \E i \in 1 .. Len(Cur) : Cur[i].k = "pipeline done"
  BY <1>1, FinishedRead
<1> QED
  BY <1>2, <1>3, <1>4, Zenon

LEMMA CoreOutcomeAgrees ==
  ASSUME CoreInv
  PROVE  OutcomeAgrees
  BY ReadsTheCurrent, OutcomeRead, Zenon DEF OutcomeAgrees

LEMMA HeadIsWhole ==
  ASSUME CoreInv, HeadShown
  PROVE  Whole(Cur)
<1>1. Tail200 = log /\ log \in Seq(Lines) /\ Cur \in Seq(Lines) /\ DOMAIN log = 1 .. Len(log)
  BY ReadsTheCurrent
<1>2. PICK i \in DOMAIN log : log[i].k = "steps" /\ \A j \in i .. Len(log) : log[j].k # "job"
  BY <1>1 DEF HeadShown, HeadsOfSteps
<1>3. i \in Heads(log)
  BY <1>2 DEF Heads
<1> DEFINE f == FirstOf(log)
<1>4. f \in Heads(log) /\ i <= f /\ f \in 1 .. Len(log)
  BY <1>1, <1>3, FirstIs DEF Heads
<1>5. log[f].k = "steps"
  <2>1. f \in i .. Len(log)
    BY <1>1, <1>2, <1>4
  <2> QED
    BY <1>2, <1>4, <2>1 DEF Heads
<1>6. Len(Cur) = Len(log) - f + 1 /\ \A j \in 1 .. Len(Cur) : Cur[j] = log[f + j - 1]
  BY <1>1, CurrentIs DEF Cur
<1> HIDE DEF f
<1>7. 1 \in 1 .. Len(Cur) /\ f + 1 - 1 = f
  BY <1>1, <1>4, <1>6
<1>8. Cur[1] = log[f] /\ Cur # <<>>
  BY <1>1, <1>6, <1>7
<1> QED
  BY <1>5, <1>8 DEF Whole

LEMMA CoreReaderAgrees ==
  ASSUME CoreInv
  PROVE  ReaderAgrees
<1>1. SUFFICES ASSUME HeadShown
      PROVE LET p == ReadAll(Cur) IN
            /\ p.total = Len(plan.seconds)
            /\ outcome = "none" => p.done <= StepsDone
            /\ pc \in {"next", "stage"} =>
                 /\ p.done = StepsDone
                 /\ p.current = (IF pc = "stage" THEN stage ELSE 0)
                 /\ p.current # 0 => p.sub = sub
                 /\ InSetup(p) <=> StepsDone = 0 /\ ~ (pc = "stage" /\ Counts(stage))
  BY ReadsTheCurrent, Zenon DEF ReaderAgrees
<1>2. PICK p \in Known : p = ReadAll(Cur)
  BY ReadsTheCurrent
<1>3. Whole(Cur) /\ Agrees(p)
  BY <1>1, <1>2, HeadIsWhole DEF CoreInv, HeadInv
<1>4. PipeInv /\ PipeTypeOK /\ stage \in Nat
  BY InOrder DEF CoreInv
<1>5. jobs > 0
  <2>1. Cur # <<>> /\ Cur \in Seq(Lines)
    BY <1>3, ReadsTheCurrent DEF Whole
  <2>2. log # <<>>
    <3>1. log \in Seq(Lines)
      BY ReadsTheCurrent
    <3> QED
      BY <2>1, <3>1, CurrentNone DEF Cur
  <2> QED
    BY <2>2, InOrder DEF CoreInv, LogInv
<1>6. plan \in Plans
  BY <1>4, <1>5 DEF PipeInv
<1>7. StagesEnded \in 0 .. stage
  BY <1>4 DEF PipeInv, StagesEnded
<1>8. StepsDone = Steps(StagesEnded)
  BY <1>4, <1>6, <1>7, CountedStagesEnded DEF StepsDone
<1>9. Steps(stage - 1) <= Steps(stage)
  BY <1>4, <1>6, PlanFacts DEF Steps
<1>10. outcome = "none" => p.done <= StepsDone
  <2>1. p.done = Steps(IF p.current # 0 \/ outcome = "failed" THEN stage - 1 ELSE stage)
    BY <1>3 DEF Agrees
  <2>2. Steps(stage) <= Steps(stage) /\ Steps(stage - 1) <= Steps(stage - 1)
    BY <1>4, <1>6, PlanFacts DEF Steps
  <2>3. pc = "stage" => p.current # 0
    BY <1>3, <1>4 DEF Agrees, PipeInv
  <2> QED
    BY <1>8, <1>9, <2>1, <2>2, <2>3 DEF StagesEnded
<1>11. ASSUME pc \in {"next", "stage"}
       PROVE  /\ p.done = StepsDone
              /\ p.current = (IF pc = "stage" THEN stage ELSE 0)
              /\ p.current # 0 => p.sub = sub
              /\ InSetup(p) <=> StepsDone = 0 /\ ~ (pc = "stage" /\ Counts(stage))
  <2>1. outcome = "none" /\ (pc = "stage" => stage > 0)
    BY <1>4, <1>11 DEF PipeInv
  <2>2. /\ p.current = (IF pc = "stage" THEN stage ELSE 0)
        /\ p.current # 0 => p.sub = sub
        /\ p.counted <=> stage = 0 \/ Counts(stage)
    BY <1>3, <1>11, <2>1 DEF Agrees
  <2>3. p.done = StepsDone
    <3>1. p.done = Steps(IF p.current # 0 \/ outcome = "failed" THEN stage - 1 ELSE stage)
      BY <1>3 DEF Agrees
    <3>2. p.current # 0 <=> pc = "stage"
      BY <1>4, <2>1, <2>2
    <3> QED
      BY <1>8, <2>1, <3>1, <3>2 DEF StagesEnded
  <2>4. ~ p.finished /\ p.failed = 0
    BY <1>2, <2>1, OutcomeRead, Zenon
  <2>5. (p.current = 0 \/ ~ p.counted) <=> ~ (pc = "stage" /\ Counts(stage))
    BY <1>4, <2>1, <2>2
  <2> QED
    BY <2>2, <2>3, <2>4, <2>5, Zenon DEF InSetup
<1>12. p.total = Len(plan.seconds)
  BY <1>3 DEF Agrees
<1> QED
  BY <1>2, <1>10, <1>11, <1>12, Zenon

(* A reading of the log as it is now tells of no step that has not begun.      *)
LEMMA CoreNotAhead ==
  ASSUME CoreInv, jobs > 0
  PROVE  NotAhead(ReadAll(Cur)) /\ ReadAll(Cur).done <= MaxStages
<1>1. PICK p \in Known : p = ReadAll(Cur)
  BY ReadsTheCurrent
<1>2. PipeInv /\ PipeTypeOK /\ stage \in Nat /\ stage \in 0 .. Stages /\ stage <= Stages
  BY InOrder DEF CoreInv
<1>3. plan \in Plans
  BY <1>2 DEF PipeInv
<1>4. Cur \in Seq(Lines) /\ DOMAIN Cur = 1 .. Len(Cur)
  BY ReadsTheCurrent
<1>5. p.done <= MaxStages
  <2>1. /\ \A i \in 1 .. Len(Cur) : Cur[i].k = "done" => Cur[i].stage <= stage
        /\ \A i, j \in 1 .. Len(Cur) :
             i < j /\ Cur[i].k = "done" /\ Cur[j].k = "done" => Cur[i].stage < Cur[j].stage
    BY <1>4 DEF CoreInv, OutcomeInv
  <2>2. p.done <= stage
    BY <1>1, <1>2, <1>4, <2>1, DoneRead
  <2>3. p.done \in Nat
    BY DEF Known
  <2> QED
    BY <1>2, <1>3, <2>2, <2>3, PlanFacts
<1>6. p.finished => outcome = "finished"
  BY <1>1, OutcomeRead, Zenon
<1>7. CASE ~ Whole(Cur)
  <2>1. \A i \in 1 .. Len(Cur) : Cur[i].k # "steps"
    <3> SUFFICES ASSUME NEW i \in 1 .. Len(Cur) PROVE Cur[i].k # "steps"
      OBVIOUS
    <3>1. CASE i = 1
      <4>1. Cur # <<>>
        BY <1>4
      <4> QED
        BY <1>7, <3>1, <4>1 DEF Whole
    <3>2. CASE i # 1
      <4>1. i \in 2 .. Len(Current(log)) /\ log \in Seq(Lines)
        BY <3>2, ReadsTheCurrent DEF Cur
      <4> QED
        BY <4>1, CurrentIs DEF Cur
    <3> QED
      BY <3>1, <3>2
  <2>2. p.total = 0
    BY <1>1, <1>4, <2>1, TotalRead
  <2> QED
    BY <1>1, <1>5, <1>6, <2>2, Zenon DEF NotAhead
<1>8. CASE Whole(Cur)
  <2>1. Agrees(p)
    BY <1>1, <1>8 DEF CoreInv, HeadInv
  <2>2. SUFFICES ASSUME ~ p.finished, ~ InSetup(p)
                 PROVE  Weights(p) = PlanWeights /\ p.done <= Steps(stage) /\ (p.current # 0 => p.done < Steps(stage))
    BY <1>1, <1>5, <1>6, Zenon DEF NotAhead
  <2>3. p.total = Len(plan.seconds) /\ p.done = Steps(IF p.current # 0 \/ outcome = "failed" THEN stage - 1 ELSE stage)
        /\ p.current \in {0, stage} /\ (p.counted <=> stage = 0 \/ Counts(stage))
        /\ (p.current # 0 => outcome = "none")
    BY <1>2, <2>1 DEF Agrees, PipeInv, PipeTypeOK
  <2>4. p.failed = (IF outcome = "failed" THEN stage ELSE 0)
    BY <1>1, OutcomeRead
  <2>5. plan.setup \in Nat
    BY <1>3, PlanFacts
  <2>6. stage > 0
    <3> SUFFICES ASSUME stage = 0 PROVE FALSE
      BY <1>2
    <3>1. outcome # "failed" /\ p.current = 0
      BY <1>2, <2>3 DEF PipeInv
    <3>2. p.failed = 0 /\ p.done = Steps(0)
      BY <2>3, <2>4, <3>1
    <3>3. Steps(0) = 0
      BY <2>5 DEF Steps
    <3> QED
      BY <2>2, <3>1, <3>2, <3>3 DEF InSetup
  <2>7. Weights(p) = PlanWeights
    <3>1. p.seconds = IF plan.printed THEN plan.seconds ELSE <<>>
      BY <2>1, <2>6 DEF Agrees
    <3>2. Len(<<>>) = 0 /\ Len(plan.seconds) # 0
      BY <1>3, PlanFacts
    <3> QED
      BY <2>3, <3>1, <3>2 DEF Weights, PlanWeights
  <2>8. p.done <= Steps(stage)
    BY <1>2, <2>3, <2>5 DEF Steps
  <2>9. ASSUME p.current # 0 PROVE p.done < Steps(stage)
    <3>1. p.done = Steps(stage - 1) /\ p.failed = 0 /\ (p.counted <=> Counts(stage))
      BY <1>2, <2>3, <2>4, <2>6, <2>9
    <3>2. CASE Counts(stage)
      BY <1>2, <2>5, <2>6, <3>1, <3>2 DEF Counts, Steps
    <3>3. CASE ~ Counts(stage)
      <4>1. Steps(stage - 1) = 0
        BY <1>2, <2>5, <2>6, <3>3 DEF Counts, Steps
      <4> QED
        BY <2>2, <3>1, <3>3, <4>1 DEF InSetup
    <3> QED
      BY <3>2, <3>3
  <2> QED
    BY <2>7, <2>8, <2>9
<1> QED
  BY <1>7, <1>8

-----------------------------------------------------------------------------
(* What was read stays behind the pipeline as it goes on. *)

LEMMA PipelineMoves ==
  ASSUME CoreInv, [Next]_vars
  PROVE  \/ jobs' = jobs + 1 /\ UNCHANGED <<answers, screen>>
         \/ jobs' = jobs /\ plan' = plan /\ stage' \in {stage, stage + 1}
            /\ (outcome = "finished" => outcome' = "finished")
<1>0. outcome = "finished" => pc = "over"
  BY DEF CoreInv, PipeInv
<1>1. ASSUME NEW p \in Plans, StartJob(p) PROVE jobs' = jobs + 1 /\ UNCHANGED <<answers, screen>>
  BY <1>1 DEF StartJob
<1>2. CASE SaySteps
  BY <1>2 DEF SaySteps, Header
<1>3. CASE SayCounted
  BY <1>3 DEF SayCounted, Header
<1>4. CASE SayExpect
  BY <1>4 DEF SayExpect, Header
<1>5. CASE StageStarts
  BY <1>5 DEF StageStarts
<1>6. CASE StageReports
  BY <1>6 DEF StageReports
<1>7. ASSUME NEW skipped \in BOOLEAN, StageDone(skipped) PROVE UNCHANGED <<jobs, plan, stage, outcome>>
  BY <1>7 DEF StageDone
<1>8. ASSUME NEW details \in 0 .. MaxDetails, StageFails(details)
      PROVE  UNCHANGED <<jobs, plan, stage>> /\ pc = "stage"
  BY <1>8 DEF StageFails
<1>9. CASE Finishes
  BY <1>0, <1>9 DEF Finishes
<1>10. CASE Dies
  BY <1>10 DEF Dies
<1>11. CASE OtherOutput
  BY <1>11 DEF OtherOutput
<1>12. CASE Look
  BY <1>12 DEF Look, pipe
<1>13. ASSUME NEW a \in answers, JobMsg(a) PROVE UNCHANGED pipe
  BY <1>13 DEF JobMsg
<1>14. CASE TickMsg
  BY <1>14 DEF TickMsg, pipe
<1>15. CASE UNCHANGED vars
  BY <1>15 DEF vars, pipe
<1> QED
  BY <1>0, <1>1, <1>2, <1>3, <1>4, <1>5, <1>6, <1>7, <1>8, <1>9, <1>10, <1>11, <1>12, <1>13, <1>14, <1>15
  DEF Next, Pipeline, pipe

LEMMA StepsInOrder ==
  ASSUME plan \in Plans, NEW m \in Nat, NEW n \in Nat, m <= n
  PROVE  Steps(m) <= Steps(n) /\ Steps(m) \in Nat /\ Steps(n) \in Nat
  BY PlanFacts DEF Steps

LEMMA NotAheadStays ==
  ASSUME CoreInv, [Next]_vars, jobs' = jobs, jobs > 0, NEW p \in Known, NotAhead(p)
  PROVE  NotAhead(p)'
<1>0. jobs \in Nat /\ stage \in Nat
  BY InOrder
<1>1. plan' = plan /\ stage' \in {stage, stage + 1} /\ (outcome = "finished" => outcome' = "finished")
  BY <1>0, PipelineMoves
<1>2. plan \in Plans
  BY DEF CoreInv, PipeInv
<1>3. PlanWeights' = PlanWeights /\ Steps(stage)' = Steps(stage')
  BY <1>1 DEF PlanWeights, Steps
<1>4. Steps(stage) <= Steps(stage') /\ Steps(stage) \in Nat /\ Steps(stage') \in Nat
  BY <1>0, <1>1, <1>2, StepsInOrder
<1>5. p.done \in Nat
  BY DEF Known
<1>6. ASSUME Weights(p) = PlanWeights /\ p.done <= Steps(stage) /\ (p.current # 0 => p.done < Steps(stage))
      PROVE  Weights(p) = PlanWeights' /\ p.done <= Steps(stage)' /\ (p.current # 0 => p.done < Steps(stage)')
  BY <1>3, <1>4, <1>5, <1>6
<1>7. p.finished => outcome' = "finished"
  BY <1>1 DEF NotAhead
<1> QED
  BY <1>6, <1>7, Zenon DEF NotAhead

LEMMA SoundStays ==
  ASSUME CoreInv, [Next]_vars, NEW r, Sound(r)
  PROVE  Sound(r)'
<1> DEFINE p == ReadProgress(r.lines)
<1>1. r.job \in 0 .. jobs /\ p \in Known /\ p.done <= MaxStages /\ (r.job = jobs /\ jobs > 0 => NotAhead(p))
  BY DEF Sound
<1> HIDE DEF p
<1>2. jobs \in Nat /\ jobs' \in {jobs, jobs + 1}
  BY InOrder, PipelineMoves
<1>3. r.job \in 0 .. jobs'
  BY <1>1, <1>2
<1>4. ASSUME r.job = jobs', jobs' > 0 PROVE NotAhead(p)'
  <2>1. jobs' = jobs /\ jobs > 0
    BY <1>1, <1>2, <1>4
  <2> QED
    BY <1>1, <1>4, <2>1, NotAheadStays
<1> QED
  BY <1>1, <1>3, <1>4 DEF Sound, p

(* What the bar may show of the current job. *)
Share(n) == (Full * Sums(PlanWeights)[n]) \div Total(PlanWeights)

LEMMA ShareIs ==
  ASSUME plan \in Plans, NEW n \in 0 .. Stages, NEW m \in 0 .. n
  PROVE  Share(Steps(m)) \in Nat /\ Share(Steps(n)) \in Nat /\ Share(Steps(m)) <= Share(Steps(n))
<1> DEFINE w == PlanWeights
<1>1. w \in Seq((Nat \ {0})) /\ Len(w) = Len(plan.seconds) /\ Len(plan.seconds) \in Nat \ {0} /\ Stages \in Nat
  BY PlanWeightsAre, PlanFacts
<1>2. n \in Nat /\ m \in Nat /\ m <= n /\ m \in 0 .. Stages
  BY <1>1
<1>3. Steps(n) \in 0 .. Len(w) /\ Steps(m) \in 0 .. Len(w) /\ Steps(m) \in 0 .. Steps(n)
  <2>1. Steps(n) \in 0 .. Len(plan.seconds) /\ Steps(m) \in 0 .. Len(plan.seconds)
    BY <1>2, StepsBound
  <2>2. Steps(m) <= Steps(n) /\ Steps(m) \in Nat /\ Steps(n) \in Nat
    BY <1>2, StepsInOrder
  <2>3. Steps(m) \in 0 .. Steps(n)
    <3> HIDE DEF w
    <3> QED
      BY <2>2
  <2> QED
    BY <1>1, <2>1, <2>3
<1>4. Sums(w)[Steps(n)] \in Nat /\ Sums(w)[Steps(m)] \in Nat /\ Sums(w)[Steps(m)] <= Sums(w)[Steps(n)]
  <2> HIDE DEF w
  <2> QED
    BY <1>1, <1>3, SumsNat, SumsGrow
<1>5. Total(w) \in Nat \ {0}
  <2>1. w # <<>>
    <3>1. Len(<<>>) = 0
      OBVIOUS
    <3> QED
      BY <1>1, <3>1
  <2> HIDE DEF w
  <2> QED
    BY <1>1, <2>1, TotalPositive
<1> QED
  BY <1>4, <1>5, Shares DEF Share

LEMMA MayShowIs ==
  plan \in Plans /\ stage \in 0 .. Stages =>
    MayShow = IF outcome = "finished" THEN Full ELSE Greater(SetupShare, Lesser(AlmostFull, Share(Steps(stage))))
<1> SUFFICES ASSUME plan \in Plans, stage \in 0 .. Stages
    PROVE MayShow = IF outcome = "finished" THEN Full
                    ELSE Greater(SetupShare, Lesser(AlmostFull, Share(Steps(stage))))
  OBVIOUS
<1>1. stage \in Nat
  BY PlanFacts
<1>2. Cardinality({k \in 1 .. stage : Counts(k)}) = Steps(stage)
  BY <1>1, CountedStages
<1> QED
  BY <1>2 DEF MayShow, Share, PlanWeights

LEMMA MayShowRange ==
  ASSUME plan \in Plans, stage \in 0 .. Stages
  PROVE  MayShow \in SetupShare .. Full
<1>1. stage \in 0 .. stage
  BY PlanFacts
<1>2. Share(Steps(stage)) \in Nat
  BY <1>1, ShareIs
<1> QED
  BY <1>2, MayShowIs DEF Greater, Lesser, AlmostFull, Full, SetupShare

LEMMA MayShowNat == plan \in Plans /\ stage \in 0 .. Stages => MayShow \in Nat
  BY MayShowRange DEF SetupShare, Full

LEMMA MayShowGrows ==
  ASSUME CoreInv, [Next]_vars, jobs' = jobs, jobs > 0
  PROVE  MayShow <= MayShow'
<1>0. jobs \in Nat /\ stage \in Nat /\ stage \in 0 .. Stages
  BY InOrder
<1>1. plan' = plan /\ stage' \in {stage, stage + 1} /\ (outcome = "finished" => outcome' = "finished")
  BY <1>0, PipelineMoves
<1>2. plan \in Plans
  BY DEF CoreInv, PipeInv
<1>3. CoreInv'
  BY NextCore
<1>4. stage' \in 0 .. Stages /\ stage \in 0 .. stage' /\ Stages' = Stages
  <2>1. Stages' = Stages
    BY <1>1 DEF Stages
  <2>2. stage' \in 0 .. Stages'
    BY <1>3 DEF CoreInv, PipeTypeOK
  <2> QED
    BY <1>0, <1>1, <2>1, <2>2
<1>5. Share(Steps(stage)) \in Nat /\ Share(Steps(stage')) \in Nat /\ Share(Steps(stage)) <= Share(Steps(stage'))
  BY <1>2, <1>4, ShareIs
<1>6. MayShow = IF outcome = "finished" THEN Full ELSE Greater(SetupShare, Lesser(AlmostFull, Share(Steps(stage))))
  BY <1>0, <1>2, MayShowIs
<1>7. MayShow' = IF outcome' = "finished" THEN Full ELSE Greater(SetupShare, Lesser(AlmostFull, Share(Steps(stage'))))
  <2>1. (plan \in Plans /\ stage \in 0 .. Stages)'
    BY <1>1, <1>2, <1>4
  <2>2. (MayShow = IF outcome = "finished" THEN Full
                   ELSE Greater(SetupShare, Lesser(AlmostFull, Share(Steps(stage)))))'
    BY <2>1, MayShowIs, PTL
  <2>3. Share(Steps(stage))' = Share(Steps(stage'))
    BY <1>1 DEF Share, Steps, PlanWeights
  <2> QED
    BY <2>2, <2>3
<1> QED
  BY <1>1, <1>5, <1>6, <1>7 DEF Greater, Lesser, AlmostFull, Full, SetupShare

(* A bar that shows no more than before and than what was read.                *)
LEMMA FilledIs ==
  ASSUME NEW p \in Known, NEW before \in 0 .. Full, NEW t \in Nat
  PROVE  /\ Filled(p, before, t) \in 0 .. Full
         /\ \A m \in Nat : before <= m /\ Fraction(p, t) <= m => Filled(p, before, t) <= m
         /\ Lesser(before, AlmostFull) <= Filled(p, before, t)
         /\ p.finished => before <= Filled(p, before, t)
         /\ Filled(p, before, t) > AlmostFull => p.finished
<1> DEFINE x == Fraction(p, t)
<1>1. x \in 0 .. Full
  BY FractionRange
<1>2. Filled(p, before, t) = IF p.finished THEN Greater(before, x) ELSE Lesser(Greater(before, x), AlmostFull)
  BY DEF Filled
<1> HIDE DEF x
<1>3. CASE p.finished
  <2>1. Filled(p, before, t) = Greater(before, x)
    BY <1>2, <1>3
  <2>2. /\ Greater(before, x) \in 0 .. Full
        /\ \A m \in Nat : before <= m /\ x <= m => Greater(before, x) <= m
        /\ Lesser(before, AlmostFull) <= Greater(before, x)
        /\ before <= Greater(before, x)
    BY <1>1 DEF Greater, Lesser, AlmostFull, Full
  <2> QED
    BY <1>3, <2>1, <2>2 DEF x
<1>4. CASE ~ p.finished
  <2>1. Filled(p, before, t) = Lesser(Greater(before, x), AlmostFull)
    BY <1>2, <1>4
  <2>2. /\ Lesser(Greater(before, x), AlmostFull) \in 0 .. Full
        /\ \A m \in Nat : before <= m /\ x <= m => Lesser(Greater(before, x), AlmostFull) <= m
        /\ Lesser(before, AlmostFull) <= Lesser(Greater(before, x), AlmostFull)
        /\ Lesser(Greater(before, x), AlmostFull) <= AlmostFull
    BY <1>1 DEF Greater, Lesser, AlmostFull, Full
  <2>3. ~ (Filled(p, before, t) > AlmostFull)
    BY <2>1, <2>2 DEF AlmostFull, Full
  <2> QED
    BY <1>4, <2>1, <2>2, <2>3 DEF x
<1> QED
  BY <1>3, <1>4

(* What the bar had of the job of s.                                           *)
Before(s) == IF bar.job = s.job THEN bar.full ELSE 0

LEMMA AdvanceIs ==
  ASSUME NEW s, NEW now \in 0 .. MaxAge, Advance(s, now), bar \in Bar, Sound(s), CoreInv
  PROVE  /\ age' \in 0 .. MaxAge
         /\ bar' \in Bar /\ bar'.job = s.job
         /\ ReadProgress(s.lines) \in Known /\ Before(s) \in 0 .. Full
         /\ \E t \in Nat : bar'.full = Filled(ReadProgress(s.lines), Before(s), t)
<1> DEFINE p == ReadProgress(s.lines)
           was == IF bar.job = s.job THEN bar ELSE [job |-> s.job, full |-> 0, mark |-> Fresh]
           mark == IF InSetup(p) THEN SetupMark ELSE p.done
<1>1. p \in Known /\ p.done <= MaxStages /\ s.job \in 0 .. jobs /\ jobs \in 0 .. MaxJobs /\ jobs \in Nat
  BY InOrder DEF Sound, CoreInv, PipeTypeOK
<1>2. PICK t \in IF mark = was.mark THEN {now}
                 ELSE IF was.mark = Fresh /\ p.done = 0 THEN 0 .. MaxAge
                 ELSE {0} :
            age' = t /\ bar' = [job |-> s.job, full |-> Filled(p, was.full, t), mark |-> mark]
  BY DEF Advance
<1>3. t \in 0 .. MaxAge /\ t \in Nat
  BY <1>2, Constants
<1>4. was.full = Before(s) /\ Before(s) \in 0 .. Full
  <2>1. bar.full \in 0 .. Full /\ 0 \in 0 .. Full
    BY DEF Bar, Full
  <2> QED
    BY <2>1 DEF Before
<1>5. mark \in {Fresh, SetupMark} \union (0 .. MaxSetup + Len(StepSeconds))
  <2>1. p.done \in Nat
    BY <1>1 DEF Known
  <2> QED
    BY <1>1, <2>1, Constants DEF MaxStages
<1>6. s.job \in 0 .. MaxJobs
  BY <1>1, Constants
<1> HIDE DEF p, was, mark
<1>7. Filled(p, Before(s), t) \in 0 .. Full
  BY <1>1, <1>3, <1>4, FilledIs
<1>8. bar' = [job |-> s.job, full |-> Filled(p, Before(s), t), mark |-> mark]
  BY <1>2, <1>4
<1>9. bar' \in Bar /\ bar'.job = s.job /\ bar'.full = Filled(p, Before(s), t)
  BY <1>5, <1>6, <1>7, <1>8 DEF Bar
<1> QED
  BY <1>1, <1>2, <1>3, <1>4, <1>9 DEF p

(* A reading that is not ahead of the pipeline does not put the bar ahead.     *)
LEMMA NotAheadFraction ==
  ASSUME CoreInv, jobs > 0, NEW p \in Known, NotAhead(p), NEW t \in Nat
  PROVE  Fraction(p, t) <= MayShow
<1>1. plan \in Plans /\ stage \in 0 .. Stages /\ stage \in Nat
  BY InOrder DEF CoreInv, PipeInv
<1>2. MayShow \in SetupShare .. Full
  BY <1>1, MayShowRange
<1>3. CASE p.finished
  <2>1. outcome = "finished"
    BY <1>3 DEF NotAhead
  <2>2. MayShow = Full
    BY <1>1, <2>1, MayShowIs
  <2>3. Fraction(p, t) \in 0 .. Full
    BY FractionRange
  <2> QED
    BY <2>2, <2>3 DEF Full
<1>4. CASE ~ p.finished /\ InSetup(p)
  <2>1. Fraction(p, t) = Lesser(SetupShare, t)
    BY <1>4, FractionIs
  <2> QED
    BY <1>2, <2>1 DEF Lesser, SetupShare, Full
<1>5. CASE ~ p.finished /\ ~ InSetup(p) /\ p.total = 0
  <2>1. Fraction(p, t) = 0
    BY <1>5, FractionIs
  <2> QED
    BY <1>2, <2>1 DEF SetupShare, Full
<1>6. CASE ~ p.finished /\ ~ InSetup(p) /\ p.total # 0
  <2>1. Weights(p) = PlanWeights /\ p.done <= Steps(stage) /\ (p.current # 0 => p.done < Steps(stage))
    BY <1>6, Zenon DEF NotAhead
  <2>2. p.total = Len(plan.seconds)
    BY <1>1, <2>1, WeightsAre, PlanWeightsAre
  <2>3. Steps(stage) \in 0 .. p.total
    BY <1>1, <2>2, StepsBound
  <2>4. Fraction(p, t) <= Lesser(AlmostFull, (Full * Sums(Weights(p))[Steps(stage)]) \div Total(Weights(p)))
    BY <1>6, <2>1, <2>3, FractionBound
  <2>5. Fraction(p, t) <= Lesser(AlmostFull, Share(Steps(stage)))
    BY <2>1, <2>4 DEF Share
  <2>6. Share(Steps(stage)) \in Nat /\ Fraction(p, t) \in 0 .. Full
    <3>1. stage \in 0 .. stage
      BY <1>1
    <3> QED
      BY <1>1, <3>1, ShareIs, FractionRange
  <2>7. MayShow = IF outcome = "finished" THEN Full ELSE Greater(SetupShare, Lesser(AlmostFull, Share(Steps(stage))))
    BY <1>1, MayShowIs
  <2> QED
    BY <2>5, <2>6, <2>7 DEF Greater, Lesser, AlmostFull, Full, SetupShare
<1> QED
  BY <1>3, <1>4, <1>5, <1>6, Zenon

LEMMA AdvanceNotAhead ==
  ASSUME CoreInv, NEW s, Sound(s), NEW now \in 0 .. MaxAge, Advance(s, now), bar \in Bar, BarNotAhead, UNCHANGED pipe
  PROVE  BarNotAhead'
<1>1. PICK p : p = ReadProgress(s.lines)
  OBVIOUS
<1>2. bar' \in Bar /\ bar'.job = s.job /\ p \in Known /\ Before(s) \in 0 .. Full
  BY <1>1, AdvanceIs
<1>3. PICK t \in Nat : bar'.full = Filled(p, Before(s), t)
  BY <1>1, AdvanceIs
<1>4. jobs' = jobs /\ MayShow' = MayShow
  BY DEF pipe, MayShow, Counts
<1>5. SUFFICES ASSUME s.job = jobs, jobs > 0 PROVE bar'.full <= MayShow
  BY <1>2, <1>4 DEF BarNotAhead
<1>6. plan \in Plans /\ stage \in 0 .. Stages
  BY <1>5, InOrder DEF CoreInv, PipeInv
<1>7. MayShow \in Nat
  BY <1>6, MayShowRange DEF SetupShare, Full
<1>8. Before(s) <= MayShow
  BY <1>5, <1>7 DEF Before, BarNotAhead
<1>9. NotAhead(p)
  BY <1>1, <1>5 DEF Sound
<1>10. Fraction(p, t) <= MayShow
  BY <1>2, <1>5, <1>9, NotAheadFraction
<1> QED
  BY <1>2, <1>3, <1>7, <1>8, <1>10, FilledIs

-----------------------------------------------------------------------------
(* Every step of the pipeline and of the screen keeps the invariant. *)

LEMMA TypeFromParts ==
  TypeOK <=> PipeTypeOK /\ Cardinality(answers) <= MaxAnswers /\ bar \in Bar /\ age \in 0 .. MaxAge
  BY DEF TypeOK, PipeTypeOK

LEMMA InitInv ==
  ASSUME Init
  PROVE  IInv
<1>1. CoreInv
  BY CoreInit
<1>2. answers = {} /\ seen = [job |-> 0, lines |-> <<>>] /\ bar = [job |-> 0, full |-> 0, mark |-> 0] /\ age = 0
      /\ jobs = 0
  BY DEF Init
<1>3. Cardinality(answers) <= MaxAnswers /\ IsFiniteSet(answers)
  BY <1>2, FS_EmptySet, Constants
<1>4. bar \in Bar /\ age \in 0 .. MaxAge
  BY <1>2, Constants DEF Bar, Full
<1>5. Sound(seen)
  <2>1. ReadProgress(<<>>) = Blank
    <3>1. <<>> \in Seq(Lines)
      OBVIOUS
    <3> QED
      BY <3>1, CurrentNone, ReadNone DEF ReadProgress
  <2>2. Blank \in Known /\ Blank.done = 0
    BY BlankKnown DEF Blank
  <2>3. 0 <= MaxStages
    BY Constants DEF MaxStages
  <2>4. ~ (jobs > 0) /\ 0 \in 0 .. jobs
    BY <1>2
  <2> QED
    BY <1>2, <2>1, <2>2, <2>3, <2>4 DEF Sound
<1>6. BarNotAhead
  BY <1>2 DEF BarNotAhead
<1> QED
  BY <1>1, <1>2, <1>3, <1>4, <1>5, <1>6, TypeFromParts DEF IInv, CoreInv, ReadsInv, BarInv

LEMMA PipelineScreen ==
  ASSUME IInv, [Next]_vars, UNCHANGED <<answers, screen>>
  PROVE  IInv'
<1>1. CoreInv /\ CoreInv'
  BY NextCore DEF IInv
<1>2. UNCHANGED <<answers, seen, bar, age>>
  BY DEF screen
<1>3. TypeOK'
  BY <1>1, <1>2 DEF IInv, TypeOK, CoreInv, PipeTypeOK
<1>4. ReadsInv'
  <2>1. ASSUME NEW r \in answers \union {seen} PROVE Sound(r)'
    BY <1>1, SoundStays DEF IInv, ReadsInv
  <2> QED
    BY <1>2, <2>1 DEF IInv, ReadsInv, Sound
<1>5. BarNotAhead'
  <2>1. jobs \in Nat /\ seen.job \in 0 .. jobs /\ bar.job = seen.job
    BY <1>1, InOrder DEF IInv, ReadsInv, BarInv, Sound
  <2>2. CASE jobs' = jobs + 1
    BY <1>2, <2>1, <2>2 DEF BarNotAhead
  <2>3. CASE jobs' = jobs
    <3> SUFFICES ASSUME bar.job = jobs, jobs > 0 PROVE bar.full <= MayShow'
      BY <1>2, <2>3 DEF BarNotAhead
    <3>1. bar.full <= MayShow /\ bar.full \in Nat
      <4>1. bar.full \in 0 .. Full
        BY DEF IInv, TypeOK, Bar
      <4> QED
        BY <4>1 DEF IInv, BarInv, BarNotAhead, Full
    <3>2. MayShow <= MayShow'
      BY <1>1, <2>3, MayShowGrows
    <3>3. MayShow \in Nat /\ MayShow' \in Nat
      <4>1. plan \in Plans /\ stage \in 0 .. Stages
        BY <1>1, InOrder DEF CoreInv, PipeInv
      <4>2. (plan \in Plans /\ stage \in 0 .. Stages)'
        <5>1. plan' \in Plans
          <6>1. jobs' = jobs + 1 \/ plan' = plan
            BY <1>1, PipelineMoves
          <6>2. jobs' # jobs + 1
            BY <2>1, <2>3, NotNext
          <6> QED
            BY <4>1, <6>1, <6>2
        <5> QED
          BY <1>1, <5>1 DEF CoreInv, PipeTypeOK
      <4>4. (MayShow \in Nat)'
        BY <4>2, MayShowNat, PTL
      <4> QED
        BY <4>1, <4>4, MayShowNat
    <3> QED
      BY <3>1, <3>2, <3>3
  <2>4. jobs' = jobs + 1 \/ jobs' = jobs
    BY <1>1, PipelineMoves
  <2> QED
    BY <2>2, <2>3, <2>4
<1>6. BarInv'
  BY <1>2, <1>5 DEF IInv, BarInv
<1> QED
  BY <1>1, <1>3, <1>4, <1>6 DEF IInv

LEMMA LookInv ==
  ASSUME IInv, Look
  PROVE  IInv'
<1>0. CoreInv /\ [Next]_vars
  BY DEF IInv, Next
<1>1. CoreInv'
  BY <1>0, NextCore
<1>2. jobs > 0 /\ Cardinality(answers) < MaxAnswers /\ UNCHANGED <<seen, bar, age>> /\ UNCHANGED pipe
      /\ answers' = answers \union {[job |-> jobs, lines |-> Tail200]}
  BY DEF Look, screen
<1>3. PICK r : r = [job |-> jobs, lines |-> Tail200]
  OBVIOUS
<1>4. Sound(r)
  <2>1. r.job = jobs /\ r.lines = Tail200
    BY <1>3
  <2>2. ReadProgress(r.lines) = ReadAll(Cur) /\ ReadAll(Cur) \in Known
    BY <1>0, <2>1, ReadsTheCurrent
  <2>3. NotAhead(ReadAll(Cur)) /\ ReadAll(Cur).done <= MaxStages
    BY <1>0, <1>2, CoreNotAhead
  <2>4. r.job \in 0 .. jobs
    BY <1>0, <2>1, InOrder
  <2> QED
    BY <2>2, <2>3, <2>4 DEF Sound
<1>5. IsFiniteSet(answers') /\ Cardinality(answers') <= MaxAnswers
  <2>1. IsFiniteSet(answers)
    BY DEF IInv, ReadsInv
  <2>2. Cardinality(answers) \in Nat
    BY <2>1, FS_CardinalityType
  <2>3. /\ IsFiniteSet(answers \union {r})
        /\ Cardinality(answers \union {r}) = IF r \in answers THEN Cardinality(answers) ELSE Cardinality(answers) + 1
    BY <2>1, FS_AddElement
  <2> QED
    BY <1>2, <1>3, <2>2, <2>3, Constants
<1>6. ReadsInv'
  <2>1. ASSUME NEW q \in answers' \union {seen'} PROVE Sound(q)'
    <3>1. Sound(q)
      BY <1>2, <1>3, <1>4 DEF IInv, ReadsInv
    <3> QED
      BY <1>0, <3>1, SoundStays
  <2> QED
    BY <1>5, <2>1 DEF ReadsInv
<1>7. TypeOK'
  BY <1>1, <1>2, <1>5 DEF IInv, TypeOK, CoreInv, PipeTypeOK
<1>8. BarInv'
  BY <1>2 DEF IInv, BarInv, BarNotAhead, MayShow, Counts, pipe
<1> QED
  BY <1>1, <1>6, <1>7, <1>8 DEF IInv

LEMMA AdvanceInv ==
  ASSUME IInv, [Next]_vars, UNCHANGED pipe, NEW s, s \in answers \union {seen}, NEW now \in 0 .. MaxAge,
         Advance(s, now), seen' = s, answers' \in SUBSET answers
  PROVE  IInv'
<1>0. CoreInv /\ CoreInv' /\ Sound(s) /\ bar \in Bar /\ IsFiniteSet(answers)
  BY NextCore DEF IInv, ReadsInv, TypeOK
<1>1. age' \in 0 .. MaxAge /\ bar' \in Bar /\ bar'.job = s.job
  BY <1>0, AdvanceIs
<1>2. IsFiniteSet(answers') /\ Cardinality(answers') <= MaxAnswers
  <2>1. IsFiniteSet(answers') /\ Cardinality(answers') <= Cardinality(answers)
    BY <1>0, FS_Subset
  <2>2. Cardinality(answers) \in Nat /\ Cardinality(answers') \in Nat
    BY <1>0, <2>1, FS_CardinalityType
  <2>3. Cardinality(answers) <= MaxAnswers
    BY DEF IInv, TypeOK
  <2> QED
    BY <2>1, <2>2, <2>3, Constants
<1>3. ReadsInv'
  <2>1. ASSUME NEW q \in answers' \union {seen'} PROVE Sound(q)'
    <3>1. Sound(q)
      BY <1>0 DEF IInv, ReadsInv
    <3> QED
      BY <1>0, <3>1, SoundStays
  <2> QED
    BY <1>2, <2>1 DEF ReadsInv
<1>4. TypeOK'
  BY <1>0, <1>1, <1>2 DEF IInv, TypeOK, CoreInv, PipeTypeOK
<1>5. BarNotAhead'
  BY <1>0, AdvanceNotAhead DEF IInv, BarInv
<1>6. BarInv'
  BY <1>1, <1>5 DEF BarInv
<1> QED
  BY <1>0, <1>3, <1>4, <1>6 DEF IInv

LEMMA NextInv ==
  ASSUME IInv, [Next]_vars
  PROVE  IInv'
<1>0. age \in 0 .. MaxAge /\ MaxAge \in Nat
  BY Constants DEF IInv, TypeOK
<1>1. CASE Pipeline
  <2>1. UNCHANGED <<answers, screen>>
    BY <1>1 DEF Pipeline, StartJob, SaySteps, SayCounted, SayExpect, Header, StageStarts, StageReports, StageDone,
                StageFails, Finishes, Dies, OtherOutput
  <2> QED
    BY <2>1, PipelineScreen
<1>2. CASE Look
  BY <1>2, LookInv
<1>3. ASSUME NEW a \in answers, JobMsg(a) PROVE IInv'
  BY <1>0, <1>3, AdvanceInv DEF JobMsg
<1>4. CASE TickMsg
  <2>1. PICK s : s = seen
    OBVIOUS
  <2>2. age + 1 \in 0 .. MaxAge /\ UNCHANGED pipe /\ answers' = answers /\ seen' = s /\ Advance(s, age + 1)
    BY <1>0, <1>4, <2>1 DEF TickMsg
  <2>3. PICK now \in 0 .. MaxAge : now = age + 1
    BY <2>2
  <2> QED
    BY <2>1, <2>2, <2>3, AdvanceInv
<1>5. CASE UNCHANGED vars
  BY <1>5, PipelineScreen DEF vars
<1> QED
  BY <1>1, <1>2, <1>3, <1>4, <1>5 DEF Next

-----------------------------------------------------------------------------
(* The theorems. *)

(* Every state of the pipeline and of the screen has the invariant.            *)
THEOREM Invariant == Spec => []IInv
<1>1. Init => IInv
  BY InitInv
<1>2. IInv /\ [Next]_vars => IInv'
  BY NextInv
<1> QED
  BY <1>1, <1>2, PTL DEF Spec

(* The variables of the pipeline, the reads under way, the bar and its clock   *)
(* keep their types and bounds: the bar stays within 0 and 100.                *)
THEOREM TypeCorrect == Spec => []TypeOK
<1>1. IInv => TypeOK
  BY DEF IInv
<1> QED
  BY <1>1, Invariant, PTL

(* ReadProgress and the pipeline agree on every count while the pipeline's     *)
(* head is among the lines read, whatever else stands in the log.              *)
THEOREM ReaderIsRight == Spec => []ReaderAgrees
<1>1. IInv => ReaderAgrees
  BY CoreReaderAgrees DEF IInv
<1> QED
  BY <1>1, Invariant, PTL

(* A run is read as failed, at its stage, or as finished exactly when it did   *)
(* so, also when the head of the log is cut off.                               *)
THEOREM OutcomeIsRight == Spec => []OutcomeAgrees
<1>1. IInv => OutcomeAgrees
  BY CoreOutcomeAgrees DEF IInv
<1> QED
  BY <1>1, Invariant, PTL

(* The bar shows no more than the steps that ended and the whole of the one    *)
(* that runs, for any plan, any number of reads and in whatever order they are *)
(* answered.                                                                   *)
THEOREM BarIsNotAhead == Spec => []BarNotAhead
<1>1. IInv => BarNotAhead
  BY DEF IInv, BarInv
<1> QED
  BY <1>1, Invariant, PTL

(* The same two facts about the reader for the log alone.                      *)
THEOREM LogIsRead == LogSpec => [](ReaderAgrees /\ OutcomeAgrees)
<1>1. Init => CoreInv
  BY CoreInit
<1>2. CoreInv /\ [Pipeline]_vars => CoreInv'
  BY NextCore DEF Next
<1>3. CoreInv => ReaderAgrees /\ OutcomeAgrees
  BY CoreReaderAgrees, CoreOutcomeAgrees
<1> QED
  BY <1>1, <1>2, <1>3, PTL DEF LogSpec

-----------------------------------------------------------------------------
(* The bar of one job. *)

LEMMA BarMoves ==
  ASSUME IInv, [Next]_vars
  PROVE  \/ UNCHANGED <<bar, seen>>
         \/ \E s \in answers \union {seen} :
              /\ seen' = s /\ bar'.job = s.job /\ ReadProgress(s.lines) \in Known /\ Before(s) \in 0 .. Full
              /\ \E t \in Nat : bar'.full = Filled(ReadProgress(s.lines), Before(s), t)
<1>0. CoreInv /\ bar \in Bar /\ age \in 0 .. MaxAge /\ MaxAge \in Nat
  BY Constants DEF IInv, TypeOK
<1>1. CASE Pipeline
  BY <1>1 DEF Pipeline, StartJob, SaySteps, SayCounted, SayExpect, Header, StageStarts, StageReports, StageDone,
              StageFails, Finishes, Dies, OtherOutput, screen
<1>2. CASE Look
  BY <1>2 DEF Look, screen
<1>3. ASSUME NEW a \in answers, JobMsg(a)
      PROVE  /\ seen' = a /\ bar'.job = a.job /\ ReadProgress(a.lines) \in Known /\ Before(a) \in 0 .. Full
             /\ \E t \in Nat : bar'.full = Filled(ReadProgress(a.lines), Before(a), t)
  <2>1. Sound(a) /\ seen' = a /\ Advance(a, age)
    BY <1>3 DEF IInv, ReadsInv, JobMsg
  <2> QED
    BY <1>0, <2>1, AdvanceIs
<1>4. ASSUME TickMsg
      PROVE  \E s \in {seen} :
               /\ seen' = s /\ bar'.job = s.job /\ ReadProgress(s.lines) \in Known /\ Before(s) \in 0 .. Full
               /\ \E t \in Nat : bar'.full = Filled(ReadProgress(s.lines), Before(s), t)
  <2>1. PICK s : s = seen
    OBVIOUS
  <2>2. age + 1 \in 0 .. MaxAge /\ seen' = s /\ Advance(s, age + 1) /\ Sound(s)
    BY <1>0, <1>4, <2>1 DEF TickMsg, IInv, ReadsInv
  <2>3. PICK now \in 0 .. MaxAge : now = age + 1
    BY <2>2
  <2>4. /\ bar'.job = s.job /\ ReadProgress(s.lines) \in Known /\ Before(s) \in 0 .. Full
        /\ \E t \in Nat : bar'.full = Filled(ReadProgress(s.lines), Before(s), t)
    BY <1>0, <2>2, <2>3, AdvanceIs
  <2> QED
    BY <2>1, <2>2, <2>4
<1>5. CASE UNCHANGED vars
  BY <1>5 DEF vars, screen
<1> QED
  BY <1>1, <1>2, <1>3, <1>4, <1>5 DEF Next

LEMMA FullInvInit == Init => FullInv
  BY DEF Init, FullInv, AlmostFull

LEMMA FullInvNext ==
  ASSUME IInv, FullInv, [Next]_vars
  PROVE  FullInv'
<1>1. ASSUME NEW s, seen' = s, ReadProgress(s.lines) \in Known, Before(s) \in 0 .. Full,
             \E t \in Nat : bar'.full = Filled(ReadProgress(s.lines), Before(s), t)
      PROVE  FullInv'
  <2>1. PICK p : p = ReadProgress(s.lines)
    OBVIOUS
  <2>2. PICK t \in Nat : bar'.full = Filled(p, Before(s), t)
    BY <1>1, <2>1
  <2>3. Filled(p, Before(s), t) > AlmostFull => p.finished
    BY <1>1, <2>1, FilledIs
  <2> QED
    BY <1>1, <2>1, <2>2, <2>3 DEF FullInv
<1>2. CASE UNCHANGED <<bar, seen>>
  BY <1>2 DEF FullInv
<1> QED
  BY <1>1, <1>2, BarMoves

(* However many reads of the log are under way and in whatever order they are  *)
(* answered, the bar of a job goes back only from full to 99, when a finished  *)
(* reading is replaced by one that was not: Filled keeps the greater share, up *)
(* to 99, and only a finished reading fills the bar.                           *)
THEOREM BarGoesBackFromFullOnly == Spec => BarNearlyNeverBack
<1>1. ASSUME IInv, FullInv, FullInv', [Next]_vars, bar'.job = bar.job, bar'.full < bar.full
      PROVE  /\ bar.full = Full /\ bar'.full = AlmostFull
             /\ ReadProgress(seen.lines).finished /\ ~ ReadProgress(seen'.lines).finished
  <2>1. bar.full \in 0 .. Full
    BY <1>1 DEF IInv, TypeOK, Bar
  <2>2. ASSUME NEW s, seen' = s, bar'.job = s.job, ReadProgress(s.lines) \in Known, Before(s) \in 0 .. Full,
               \E t \in Nat : bar'.full = Filled(ReadProgress(s.lines), Before(s), t)
        PROVE  bar.full = Full /\ bar'.full = AlmostFull /\ ~ ReadProgress(seen'.lines).finished
    <3>1. Before(s) = bar.full
      BY <1>1, <2>2 DEF Before
    <3>2. PICK p : p = ReadProgress(s.lines)
      OBVIOUS
    <3>3. PICK t \in Nat : bar'.full = Filled(p, bar.full, t)
      BY <2>2, <3>1, <3>2
    <3>4. /\ Filled(p, bar.full, t) \in 0 .. Full
          /\ Lesser(bar.full, AlmostFull) <= Filled(p, bar.full, t)
          /\ p.finished => bar.full <= Filled(p, bar.full, t)
      BY <2>2, <3>1, <3>2, FilledIs
    <3>5. bar'.full \in 0 .. Full /\ Lesser(bar.full, AlmostFull) <= bar'.full
      BY <3>3, <3>4
    <3>6. bar.full = Full /\ bar'.full = AlmostFull
      BY <1>1, <2>1, <3>5 DEF Lesser, AlmostFull, Full
    <3>7. ~ p.finished
      BY <1>1, <2>1, <3>3, <3>4, <3>5 DEF Full
    <3> QED
      BY <2>2, <3>2, <3>6, <3>7
  <2>3. ~ UNCHANGED bar
    <3>1. ~ (bar.full < bar.full)
      BY <2>1 DEF Full
    <3> QED
      BY <1>1, <3>1
  <2>4. bar.full = Full /\ bar'.full = AlmostFull /\ ~ ReadProgress(seen'.lines).finished
    BY <1>1, <2>2, <2>3, BarMoves
  <2> QED
    BY <1>1, <2>4 DEF FullInv, Full, AlmostFull
<1>2. IInv /\ FullInv /\ FullInv' /\ [Next]_vars =>
        [bar'.job = bar.job /\ bar'.full < bar.full =>
           /\ bar.full = Full /\ bar'.full = AlmostFull
           /\ ReadProgress(seen.lines).finished /\ ~ ReadProgress(seen'.lines).finished]_vars
  BY <1>1
<1>3. IInv /\ FullInv /\ [Next]_vars => FullInv'
  BY FullInvNext
<1> QED
  BY <1>2, <1>3, FullInvInit, Invariant, PTL DEF Spec, BarNearlyNeverBack
=============================================================================
