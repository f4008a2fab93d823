------------------------- MODULE RunEvidenceProofs -------------------------
(* Proofs about RunEvidence: what the report, the gameplan and the clock       *)
(* witness of a run folder are of, for any engines, clocks and number of       *)
(* commands, each stopped anywhere.                                            *)
EXTENDS RunEvidence, TLAPS

(* A command that is measuring, and one that takes the per-role capture.       *)
Measuring == job.at \in {"measure", "timing", "status", "close"}
Capturing == job.at \in {"roles", "capture", "window"}

(* Which command is where, and whose step is on file by then.                  *)
Stages ==
  /\ ~At("idle") => job.by \in Engines
  /\ Measuring => job.kind \in {"full", "short"}
  /\ Capturing => job.kind \in {"full", "alone"}
  /\ At("import") => job.kind = "import"
  /\ At("emit") => job.kind = "emit"
  /\ job.at \in {"status", "close"} \/ (Capturing /\ job.kind = "full") =>
       timing.of = n /\ timing.by = job.by
  /\ timing.by = NoEngine => timing.of = 0

(* The numbers of what is on file: a command under way is in no report or plan,*)
(* and an emit, or role-time alone, found the step there.                      *)
Numbers ==
  /\ timing.of <= n /\ \A e \in Engines : roles[e] <= n
  /\ \A page \in {report, plan} :
       /\ page.timing <= n /\ page.roles <= n
       /\ ~At("idle") => page.timing < n /\ page.roles < n
  /\ At("emit") => timing.of < n /\ \A e \in Engines : roles[e] < n
  /\ Capturing /\ job.kind = "alone" => timing.of < n

(* The verdict holds until the report is written.                              *)
Verdict == At("report") /\ validation = "passed" => Reconciles

(* The phases of the witness are opened anew by each pass.                     *)
Arms ==
  /\ job.at \in {"timing", "status", "close"} => witness.native # "done" /\ witness.captured # "done"
  /\ Capturing /\ job.kind = "full" /\ witness.native = "done" => armOf.native = n
  /\ job.at \in {"capture", "window"} /\ job.kind = "full" => witness.captured # "done"
  /\ witness.native = "done" =>
       timing.by \in Engines /\ (timing.of = armOf.native \/ timing.of \in alone)
  /\ witness.native = "done" /\ witness.captured = "done" =>
       /\ armOf.native = armOf.captured
       /\ timing.of \in alone \/ roles[timing.by] \in {0, armOf.captured} \cup alone

(* The role trace on file is older than the step only as OldRolesExplained     *)
(* says of the report.                                                         *)
OldRoles ==
  timing.by \in Engines /\ roles[timing.by] \in 1 .. (timing.of - 1) => timing.of \in uncaptured

IInv ==
  /\ TypeOK /\ Stages /\ Numbers /\ Verdict /\ Arms /\ OldRoles
  /\ ReportTells /\ AdviceIsSound /\ OldRolesExplained /\ DifferExplained

-----------------------------------------------------------------------------
(* What is asked of the evidence depends on three files.                       *)

LEMMA EvidenceFrame ==
  ASSUME UNCHANGED <<timing, roles, status, refused>>
  PROVE  /\ Evidence' = Evidence /\ (Differ' <=> Differ)
         /\ UNCHANGED flawed => (Reconciles' <=> Reconciles)
<1>1. declared' = declared
  BY DEF declared
<1>2. run_provider' = run_provider /\ (Differ' <=> Differ)
  BY <1>1 DEF run_provider, Differ
<1>3. the_token' = the_token /\ shown' = shown
  BY <1>2 DEF the_token, shown, HaveRoles
<1>4. Evidence' = Evidence /\ (LedgerRefuses' <=> LedgerRefuses)
  BY <1>2, <1>3 DEF Evidence, LedgerRefuses
<1> QED
  BY <1>2, <1>4 DEF Reconciles

(* A page of the evidence holds the step on file or none, and the roles of one *)
(* engine or none.                                                             *)
LEMMA EvidenceTypedHere ==
  ASSUME TypeOK
  PROVE  /\ run_provider \in Engines /\ shown \in Engines
         /\ Evidence \in Pages /\ Evidence.is = "results"
         /\ Evidence.timing = 0 \/ (Evidence.timing = timing.of /\ run_provider = timing.by)
         /\ Evidence.roles \in {0, roles[shown]} /\ Evidence.other = (shown # run_provider)
<1>1. run_provider \in Engines
  BY EvidenceAssumption DEF run_provider, declared, TypeOK
<1>2. shown \in Engines
  <2>1. CASE roles[run_provider] # 0 \/ HaveRoles = {}
    BY <1>1, <2>1 DEF shown
  <2>2. CASE ~(roles[run_provider] # 0 \/ HaveRoles = {})
    <3>1. shown \in HaveRoles
      BY <2>2 DEF shown
    <3> QED
      BY <3>1 DEF HaveRoles
  <2> QED
    BY <2>1, <2>2
<1>3. the_token \in Nat /\ (the_token = 0 \/ (the_token = timing.of /\ run_provider = timing.by))
  BY DEF the_token, TypeOK
<1>4. roles[shown] \in Nat
  BY <1>2 DEF TypeOK
<1>5. (shown # run_provider) \in BOOLEAN
  OBVIOUS
<1> QED
  BY <1>1, <1>2, <1>3, <1>4, <1>5 DEF Evidence, Pages

-----------------------------------------------------------------------------
LEMMA PageTyped == \A is \in {"none", "failed"} : Page(is) \in Pages
<1> SUFFICES ASSUME NEW is \in {"none", "failed"} PROVE Page(is) \in Pages
  OBVIOUS
<1>1. FALSE \in BOOLEAN
  OBVIOUS
<1> QED
  BY <1>1 DEF Page, Pages

LEMMA InitEstablishes == Init => IInv
<1> SUFFICES ASSUME Init PROVE IInv
  OBVIOUS
<1>1. TypeOK
  <2>1. broken \in BOOLEAN
    BY Zenon DEF Init
  <2> QED
    BY <2>1, EvidenceAssumption DEF Init, TypeOK, Idle, NoClock, Page, Pages, Phase
<1>2. Stages /\ Numbers /\ Verdict /\ Arms
  BY DEF Init, Stages, Numbers, Verdict, Arms, Measuring, Capturing, At, Idle, NoClock, Page
<1>3. OldRoles /\ ReportTells /\ AdviceIsSound /\ OldRolesExplained
  BY EvidenceAssumption DEF Init, OldRoles, ReportTells, AdviceIsSound, OldRolesExplained, Good, Page, At, NoEngine
<1>4. DifferExplained
  BY DEF Init, DifferExplained, Differ
<1> QED
  BY <1>1, <1>2, <1>3, <1>4 DEF IInv

-----------------------------------------------------------------------------

LEMMA BeginPreserves ==
  ASSUME IInv, NEW kind \in Kinds, NEW by \in Engines, NEW mhz \in Clocks \cup {0}, Begin(kind, by, mhz)
  PROVE  IInv'
<1>0. /\ TypeOK /\ Stages /\ Numbers /\ Verdict /\ Arms /\ OldRoles
      /\ ReportTells /\ AdviceIsSound /\ OldRolesExplained /\ DifferExplained
  BY DEF IInv
<1>u. /\ UNCHANGED <<timing, roles, status, witness, report, validation, plan, last, flawed, refused, uncaptured, unsaid, alone, armOf, broken>>
      /\ At("idle") /\ n' = n + 1
      /\ job' = [kind |-> kind, by |-> by, mhz |-> mhz,
                 at |-> CASE kind = "alone" -> "roles" [] kind = "emit" -> "emit"
                          [] kind = "import" -> "import" [] OTHER -> "measure"]
  BY DEF Begin, files, history
<1>t. /\ timing \in [of : Nat, by : Engines \cup {NoEngine}] /\ roles \in [Engines -> Nat]
      /\ witness \in [mhz : Nat, native : Phase, captured : Phase]
      /\ report \in Pages /\ plan \in Pages /\ n \in Nat
      /\ status \in [state : {"none", "skipped", "failed", "measured"}, by : Engines \cup {NoEngine}]
      /\ job \in [kind : Kinds \cup {"none"}, by : Engines \cup {NoEngine}, mhz : Nat,
                  at : {"idle", "measure", "timing", "status", "close", "import", "roles", "capture",
                        "window", "emit", "output", "report"}]
      /\ armOf \in [{"native", "captured"} -> Nat]
  BY <1>0 DEF TypeOK
<1>k. /\ job'.kind = kind /\ job'.by = by /\ job'.mhz = mhz
      /\ \/ kind = "alone" /\ job'.at = "roles"
         \/ kind = "emit" /\ job'.at = "emit"
         \/ kind = "import" /\ job'.at = "import"
         \/ kind \in {"full", "short"} /\ job'.at = "measure"
      /\ mhz \in Nat
  BY <1>u, EvidenceAssumption DEF Kinds
<1>1. TypeOK'
  <2>1. job' \in [kind : Kinds \cup {"none"}, by : Engines \cup {NoEngine}, mhz : Nat,
                  at : {"idle", "measure", "timing", "status", "close", "import", "roles", "capture",
                        "window", "emit", "output", "report"}]
    BY <1>0, <1>u, <1>t, EvidenceAssumption DEF TypeOK, Phase, Pages, Page, Kinds, NoEngine, Idle, NoClock
  <2>2. n' \in Nat
    BY <1>0, <1>u, <1>t, EvidenceAssumption DEF TypeOK, Phase, Pages, Page, Kinds, NoEngine, Idle, NoClock
  <2>3. broken' \in BOOLEAN
    BY <1>0, <1>u DEF TypeOK
  <2> QED
    BY <1>0, <1>u, <2>1, <2>2, <2>3 DEF TypeOK
<1>2. Stages'
  BY <1>0, <1>u, <1>t, EvidenceAssumption, <1>k DEF Stages, Measuring, Capturing, At, NoEngine, Idle, TypeOK
<1>3. Numbers'
  <2>1. n < n' /\ n' \in Nat /\ ~At("idle")'
    BY <1>u, <1>t, <1>k DEF At
  <2>2. timing.of < n' /\ \A e \in Engines : roles[e] < n'
    BY <1>0, <1>t, <2>1 DEF Numbers
  <2>3. \A page \in {report, plan} : page.timing < n' /\ page.roles < n'
    BY <1>0, <1>t, <2>1 DEF Numbers, Pages
  <2>4. \A page \in {report, plan} : page.timing <= n' /\ page.roles <= n'
    BY <1>t, <2>1, <2>3 DEF Pages
  <2> QED
    BY <1>u, <1>t, <2>1, <2>2, <2>3, <2>4 DEF Numbers
<1>4. Verdict'
  BY <1>0, <1>u, <1>t, EvidenceFrame, <1>k DEF Verdict, At, Idle
<1>5. Arms'
  BY <1>0, <1>u, <1>t, <1>k DEF Arms, Stages, Measuring, Capturing, At, Idle, NoClock, Phase
<1>6. OldRoles'
  BY <1>0, <1>u, <1>t, <1>k DEF OldRoles, Stages, Numbers, Measuring, Capturing, At
<1>7. ReportTells'
  BY <1>0, <1>u, <1>t, EvidenceFrame, <1>k DEF ReportTells, Good, At, Idle, Page
<1>8. AdviceIsSound'
  BY <1>0, <1>u, <1>t, <1>k DEF AdviceIsSound, Good, Numbers, At, Page
<1>9. OldRolesExplained'
  BY <1>0, <1>u, <1>t, <1>k DEF OldRolesExplained, Good, Numbers, At, Page, Pages
<1>10. DifferExplained'
  BY <1>0, <1>u, <1>t, EvidenceFrame, <1>k DEF DifferExplained, Differ, Stages, At
<1> QED
  BY <1>1, <1>2, <1>3, <1>4, <1>5, <1>6, <1>7, <1>8, <1>9, <1>10 DEF IInv

LEMMA PlanRefusedPreserves ==
  ASSUME IInv, PlanRefused
  PROVE  IInv'
<1>0. /\ TypeOK /\ Stages /\ Numbers /\ Verdict /\ Arms /\ OldRoles
      /\ ReportTells /\ AdviceIsSound /\ OldRolesExplained /\ DifferExplained
  BY DEF IInv
<1>u. /\ UNCHANGED <<timing, roles, witness, report, validation, plan, n, last, flawed, refused, uncaptured, unsaid, alone, armOf, broken>>
      /\ At("measure") /\ job' = [job EXCEPT !.at = "output"]
      /\ status' = [state |-> "skipped", by |-> job.by]
  BY DEF PlanRefused, Goto, history
<1>t. /\ timing \in [of : Nat, by : Engines \cup {NoEngine}] /\ roles \in [Engines -> Nat]
      /\ witness \in [mhz : Nat, native : Phase, captured : Phase]
      /\ report \in Pages /\ plan \in Pages /\ n \in Nat
      /\ status \in [state : {"none", "skipped", "failed", "measured"}, by : Engines \cup {NoEngine}]
      /\ job \in [kind : Kinds \cup {"none"}, by : Engines \cup {NoEngine}, mhz : Nat,
                  at : {"idle", "measure", "timing", "status", "close", "import", "roles", "capture",
                        "window", "emit", "output", "report"}]
      /\ armOf \in [{"native", "captured"} -> Nat]
  BY <1>0 DEF TypeOK
<1>1. TypeOK'
  <2>1. status' \in [state : {"none", "skipped", "failed", "measured"}, by : Engines \cup {NoEngine}]
    BY <1>0, <1>u, <1>t, EvidenceAssumption DEF TypeOK, Phase, Pages, Page, Kinds, NoEngine, Idle, NoClock
  <2>2. job' \in [kind : Kinds \cup {"none"}, by : Engines \cup {NoEngine}, mhz : Nat,
                  at : {"idle", "measure", "timing", "status", "close", "import", "roles", "capture",
                        "window", "emit", "output", "report"}]
    BY <1>0, <1>u, <1>t, EvidenceAssumption DEF TypeOK, Phase, Pages, Page, Kinds, NoEngine, Idle, NoClock
  <2>3. broken' \in BOOLEAN
    BY <1>0, <1>u DEF TypeOK
  <2> QED
    BY <1>0, <1>u, <2>1, <2>2, <2>3 DEF TypeOK
<1>2. Stages'
  BY <1>0, <1>u, <1>t, EvidenceAssumption DEF Stages, Measuring, Capturing, At, NoEngine, Idle, TypeOK
<1>3. Numbers'
  BY <1>0, <1>u, <1>t DEF Numbers, Stages, Measuring, Capturing, At, Idle, Page
<1>4. Verdict'
  BY <1>0, <1>u, <1>t, EvidenceFrame DEF Verdict, At, Idle
<1>5. Arms'
  BY <1>0, <1>u, <1>t DEF Arms, Stages, Measuring, Capturing, At, Idle, NoClock, Phase
<1>6. OldRoles'
  BY <1>0, <1>u, <1>t DEF OldRoles, Stages, Numbers, Measuring, Capturing, At
<1>7. ReportTells'
  BY <1>0, <1>u, <1>t, EvidenceFrame DEF ReportTells, Good, At, Idle, Page
<1>8. AdviceIsSound'
  BY <1>0, <1>u, <1>t DEF AdviceIsSound, Good, Numbers, At, Page
<1>9. OldRolesExplained'
  BY <1>0, <1>u, <1>t DEF OldRolesExplained, Good, Numbers, At, Page, Pages
<1>10. DifferExplained'
  BY <1>0, <1>u, <1>t, EvidenceFrame DEF DifferExplained, Differ, Stages, At
<1> QED
  BY <1>1, <1>2, <1>3, <1>4, <1>5, <1>6, <1>7, <1>8, <1>9, <1>10 DEF IInv

LEMMA TimingFailsPreserves ==
  ASSUME IInv, TimingFails
  PROVE  IInv'
<1>0. /\ TypeOK /\ Stages /\ Numbers /\ Verdict /\ Arms /\ OldRoles
      /\ ReportTells /\ AdviceIsSound /\ OldRolesExplained /\ DifferExplained
  BY DEF IInv
<1>u. /\ UNCHANGED <<timing, roles, witness, report, validation, plan, n, flawed, refused, uncaptured, unsaid, alone, armOf, broken>>
      /\ At("timing") /\ job' = Idle /\ last' = "failed"
      /\ status' = [state |-> "failed", by |-> job.by]
  BY DEF TimingFails, End, history
<1>t. /\ timing \in [of : Nat, by : Engines \cup {NoEngine}] /\ roles \in [Engines -> Nat]
      /\ witness \in [mhz : Nat, native : Phase, captured : Phase]
      /\ report \in Pages /\ plan \in Pages /\ n \in Nat
      /\ status \in [state : {"none", "skipped", "failed", "measured"}, by : Engines \cup {NoEngine}]
      /\ job \in [kind : Kinds \cup {"none"}, by : Engines \cup {NoEngine}, mhz : Nat,
                  at : {"idle", "measure", "timing", "status", "close", "import", "roles", "capture",
                        "window", "emit", "output", "report"}]
      /\ armOf \in [{"native", "captured"} -> Nat]
  BY <1>0 DEF TypeOK
<1>1. TypeOK'
  <2>1. status' \in [state : {"none", "skipped", "failed", "measured"}, by : Engines \cup {NoEngine}]
    BY <1>0, <1>u, <1>t, EvidenceAssumption DEF TypeOK, Phase, Pages, Page, Kinds, NoEngine, Idle, NoClock
  <2>2. job' \in [kind : Kinds \cup {"none"}, by : Engines \cup {NoEngine}, mhz : Nat,
                  at : {"idle", "measure", "timing", "status", "close", "import", "roles", "capture",
                        "window", "emit", "output", "report"}]
    BY <1>0, <1>u, <1>t, EvidenceAssumption DEF TypeOK, Phase, Pages, Page, Kinds, NoEngine, Idle, NoClock
  <2>3. last' \in {"ok", "failed", "killed"}
    BY <1>0, <1>u, <1>t, EvidenceAssumption DEF TypeOK, Phase, Pages, Page, Kinds, NoEngine, Idle, NoClock
  <2>4. broken' \in BOOLEAN
    BY <1>0, <1>u DEF TypeOK
  <2> QED
    BY <1>0, <1>u, <2>1, <2>2, <2>3, <2>4 DEF TypeOK
<1>2. Stages'
  BY <1>0, <1>u, <1>t, EvidenceAssumption DEF Stages, Measuring, Capturing, At, NoEngine, Idle, TypeOK
<1>3. Numbers'
  BY <1>0, <1>u, <1>t DEF Numbers, Stages, Measuring, Capturing, At, Idle, Page
<1>4. Verdict'
  BY <1>0, <1>u, <1>t, EvidenceFrame DEF Verdict, At, Idle
<1>5. Arms'
  BY <1>0, <1>u, <1>t DEF Arms, Stages, Measuring, Capturing, At, Idle, NoClock, Phase
<1>6. OldRoles'
  BY <1>0, <1>u, <1>t DEF OldRoles, Stages, Numbers, Measuring, Capturing, At
<1>7. ReportTells'
  BY <1>0, <1>u, <1>t, EvidenceFrame DEF ReportTells, Good, At, Idle, Page
<1>8. AdviceIsSound'
  BY <1>0, <1>u, <1>t DEF AdviceIsSound, Good, Numbers, At, Page
<1>9. OldRolesExplained'
  BY <1>0, <1>u, <1>t DEF OldRolesExplained, Good, Numbers, At, Page, Pages
<1>10. DifferExplained'
  BY <1>0, <1>u, <1>t, EvidenceFrame DEF DifferExplained, Differ, Stages, At
<1> QED
  BY <1>1, <1>2, <1>3, <1>4, <1>5, <1>6, <1>7, <1>8, <1>9, <1>10 DEF IInv

LEMMA TimingTakenPreserves ==
  ASSUME IInv, NEW sound \in BOOLEAN, TimingTaken(sound)
  PROVE  IInv'
<1>0. /\ TypeOK /\ Stages /\ Numbers /\ Verdict /\ Arms /\ OldRoles
      /\ ReportTells /\ AdviceIsSound /\ OldRolesExplained /\ DifferExplained
  BY DEF IInv
<1>u. /\ UNCHANGED <<roles, status, witness, report, validation, plan, n, last, refused, alone, armOf, broken>>
      /\ At("timing") /\ job' = [job EXCEPT !.at = "status"]
      /\ timing' = [of |-> n, by |-> job.by] /\ flawed' \in {flawed, flawed \cup {n}}
      /\ uncaptured' = uncaptured \cup {n} /\ unsaid' = unsaid \cup {n}
  BY DEF TimingTaken, Goto
<1>t. /\ timing \in [of : Nat, by : Engines \cup {NoEngine}] /\ roles \in [Engines -> Nat]
      /\ witness \in [mhz : Nat, native : Phase, captured : Phase]
      /\ report \in Pages /\ plan \in Pages /\ n \in Nat
      /\ status \in [state : {"none", "skipped", "failed", "measured"}, by : Engines \cup {NoEngine}]
      /\ job \in [kind : Kinds \cup {"none"}, by : Engines \cup {NoEngine}, mhz : Nat,
                  at : {"idle", "measure", "timing", "status", "close", "import", "roles", "capture",
                        "window", "emit", "output", "report"}]
      /\ armOf \in [{"native", "captured"} -> Nat]
  BY <1>0 DEF TypeOK
<1>1. TypeOK'
  <2>1. timing' \in [of : Nat, by : Engines \cup {NoEngine}]
    BY <1>0, <1>u, <1>t, EvidenceAssumption DEF TypeOK, Phase, Pages, Page, Kinds, NoEngine, Idle, NoClock
  <2>2. job' \in [kind : Kinds \cup {"none"}, by : Engines \cup {NoEngine}, mhz : Nat,
                  at : {"idle", "measure", "timing", "status", "close", "import", "roles", "capture",
                        "window", "emit", "output", "report"}]
    BY <1>0, <1>u, <1>t, EvidenceAssumption DEF TypeOK, Phase, Pages, Page, Kinds, NoEngine, Idle, NoClock
  <2>3. flawed' \subseteq Nat
    BY <1>0, <1>u, <1>t, EvidenceAssumption DEF TypeOK, Phase, Pages, Page, Kinds, NoEngine, Idle, NoClock
  <2>4. uncaptured' \subseteq Nat
    BY <1>0, <1>u, <1>t, EvidenceAssumption DEF TypeOK, Phase, Pages, Page, Kinds, NoEngine, Idle, NoClock
  <2>5. unsaid' \subseteq Nat
    BY <1>0, <1>u, <1>t, EvidenceAssumption DEF TypeOK, Phase, Pages, Page, Kinds, NoEngine, Idle, NoClock
  <2>6. broken' \in BOOLEAN
    BY <1>0, <1>u DEF TypeOK
  <2> QED
    BY <1>0, <1>u, <2>1, <2>2, <2>3, <2>4, <2>5, <2>6 DEF TypeOK
<1>2. Stages'
  BY <1>0, <1>u, <1>t, EvidenceAssumption DEF Stages, Measuring, Capturing, At, NoEngine, Idle, TypeOK
<1>3. Numbers'
  BY <1>0, <1>u, <1>t DEF Numbers, Stages, Measuring, Capturing, At, Idle, Page
<1>4. Verdict'
  BY <1>0, <1>u, <1>t, EvidenceFrame DEF Verdict, At, Idle
<1>5. Arms'
  BY <1>0, <1>u, <1>t DEF Arms, Stages, Measuring, Capturing, At, Idle, NoClock, Phase
<1>6. OldRoles'
  BY <1>0, <1>u, <1>t DEF OldRoles, Stages, Numbers, Measuring, Capturing, At
<1>7. ReportTells'
  BY <1>0, <1>u, <1>t, EvidenceFrame DEF ReportTells, Good, At, Idle, Page
<1>8. AdviceIsSound'
  BY <1>0, <1>u, <1>t DEF AdviceIsSound, Good, Numbers, At, Page
<1>9. OldRolesExplained'
  BY <1>0, <1>u, <1>t DEF OldRolesExplained, Good, Numbers, At, Page, Pages
<1>10. DifferExplained'
  BY <1>0, <1>u, <1>t, EvidenceFrame DEF DifferExplained, Differ, Stages, At
<1> QED
  BY <1>1, <1>2, <1>3, <1>4, <1>5, <1>6, <1>7, <1>8, <1>9, <1>10 DEF IInv

LEMMA TimingSaidPreserves ==
  ASSUME IInv, TimingSaid
  PROVE  IInv'
<1>0. /\ TypeOK /\ Stages /\ Numbers /\ Verdict /\ Arms /\ OldRoles
      /\ ReportTells /\ AdviceIsSound /\ OldRolesExplained /\ DifferExplained
  BY DEF IInv
<1>u. /\ UNCHANGED <<timing, roles, witness, report, validation, plan, n, last, flawed, refused, uncaptured, alone, armOf, broken>>
      /\ At("status") /\ job' = [job EXCEPT !.at = "close"]
      /\ status' = [state |-> "measured", by |-> job.by] /\ unsaid' = unsaid \ {n}
  BY DEF TimingSaid, Goto
<1>t. /\ timing \in [of : Nat, by : Engines \cup {NoEngine}] /\ roles \in [Engines -> Nat]
      /\ witness \in [mhz : Nat, native : Phase, captured : Phase]
      /\ report \in Pages /\ plan \in Pages /\ n \in Nat
      /\ status \in [state : {"none", "skipped", "failed", "measured"}, by : Engines \cup {NoEngine}]
      /\ job \in [kind : Kinds \cup {"none"}, by : Engines \cup {NoEngine}, mhz : Nat,
                  at : {"idle", "measure", "timing", "status", "close", "import", "roles", "capture",
                        "window", "emit", "output", "report"}]
      /\ armOf \in [{"native", "captured"} -> Nat]
  BY <1>0 DEF TypeOK
<1>1. TypeOK'
  <2>1. status' \in [state : {"none", "skipped", "failed", "measured"}, by : Engines \cup {NoEngine}]
    BY <1>0, <1>u, <1>t, EvidenceAssumption DEF TypeOK, Phase, Pages, Page, Kinds, NoEngine, Idle, NoClock
  <2>2. job' \in [kind : Kinds \cup {"none"}, by : Engines \cup {NoEngine}, mhz : Nat,
                  at : {"idle", "measure", "timing", "status", "close", "import", "roles", "capture",
                        "window", "emit", "output", "report"}]
    BY <1>0, <1>u, <1>t, EvidenceAssumption DEF TypeOK, Phase, Pages, Page, Kinds, NoEngine, Idle, NoClock
  <2>3. unsaid' \subseteq Nat
    BY <1>0, <1>u, <1>t, EvidenceAssumption DEF TypeOK, Phase, Pages, Page, Kinds, NoEngine, Idle, NoClock
  <2>4. broken' \in BOOLEAN
    BY <1>0, <1>u DEF TypeOK
  <2> QED
    BY <1>0, <1>u, <2>1, <2>2, <2>3, <2>4 DEF TypeOK
<1>2. Stages'
  BY <1>0, <1>u, <1>t, EvidenceAssumption DEF Stages, Measuring, Capturing, At, NoEngine, Idle, TypeOK
<1>3. Numbers'
  BY <1>0, <1>u, <1>t DEF Numbers, Stages, Measuring, Capturing, At, Idle, Page
<1>4. Verdict'
  BY <1>0, <1>u, <1>t, EvidenceFrame DEF Verdict, At, Idle
<1>5. Arms'
  BY <1>0, <1>u, <1>t DEF Arms, Stages, Measuring, Capturing, At, Idle, NoClock, Phase
<1>6. OldRoles'
  BY <1>0, <1>u, <1>t DEF OldRoles, Stages, Numbers, Measuring, Capturing, At
<1>7. ReportTells'
  BY <1>0, <1>u, <1>t, EvidenceFrame DEF ReportTells, Good, At, Idle, Page
<1>8. AdviceIsSound'
  BY <1>0, <1>u, <1>t DEF AdviceIsSound, Good, Numbers, At, Page
<1>9. OldRolesExplained'
  BY <1>0, <1>u, <1>t DEF OldRolesExplained, Good, Numbers, At, Page, Pages
<1>10. DifferExplained'
  BY <1>0, <1>u, <1>t, EvidenceFrame DEF DifferExplained, Differ, Stages, At
<1> QED
  BY <1>1, <1>2, <1>3, <1>4, <1>5, <1>6, <1>7, <1>8, <1>9, <1>10 DEF IInv

LEMMA TimingImportedPreserves ==
  ASSUME IInv, NEW sound \in BOOLEAN, TimingImported(sound)
  PROVE  IInv'
<1>0. /\ TypeOK /\ Stages /\ Numbers /\ Verdict /\ Arms /\ OldRoles
      /\ ReportTells /\ AdviceIsSound /\ OldRolesExplained /\ DifferExplained
  BY DEF IInv
<1>u. /\ UNCHANGED <<roles, status, witness, report, validation, plan, n, last, refused, unsaid, armOf, broken>>
      /\ At("import") /\ job' = [job EXCEPT !.at = "output"]
      /\ timing' = [of |-> n, by |-> job.by] /\ flawed' \in {flawed, flawed \cup {n}}
      /\ uncaptured' = uncaptured \cup {n} /\ alone' = alone \cup {n}
  BY DEF TimingImported, Goto
<1>t. /\ timing \in [of : Nat, by : Engines \cup {NoEngine}] /\ roles \in [Engines -> Nat]
      /\ witness \in [mhz : Nat, native : Phase, captured : Phase]
      /\ report \in Pages /\ plan \in Pages /\ n \in Nat
      /\ status \in [state : {"none", "skipped", "failed", "measured"}, by : Engines \cup {NoEngine}]
      /\ job \in [kind : Kinds \cup {"none"}, by : Engines \cup {NoEngine}, mhz : Nat,
                  at : {"idle", "measure", "timing", "status", "close", "import", "roles", "capture",
                        "window", "emit", "output", "report"}]
      /\ armOf \in [{"native", "captured"} -> Nat]
  BY <1>0 DEF TypeOK
<1>1. TypeOK'
  <2>1. timing' \in [of : Nat, by : Engines \cup {NoEngine}]
    BY <1>0, <1>u, <1>t, EvidenceAssumption DEF TypeOK, Phase, Pages, Page, Kinds, NoEngine, Idle, NoClock
  <2>2. job' \in [kind : Kinds \cup {"none"}, by : Engines \cup {NoEngine}, mhz : Nat,
                  at : {"idle", "measure", "timing", "status", "close", "import", "roles", "capture",
                        "window", "emit", "output", "report"}]
    BY <1>0, <1>u, <1>t, EvidenceAssumption DEF TypeOK, Phase, Pages, Page, Kinds, NoEngine, Idle, NoClock
  <2>3. flawed' \subseteq Nat
    BY <1>0, <1>u, <1>t, EvidenceAssumption DEF TypeOK, Phase, Pages, Page, Kinds, NoEngine, Idle, NoClock
  <2>4. uncaptured' \subseteq Nat
    BY <1>0, <1>u, <1>t, EvidenceAssumption DEF TypeOK, Phase, Pages, Page, Kinds, NoEngine, Idle, NoClock
  <2>5. alone' \subseteq Nat
    BY <1>0, <1>u, <1>t, EvidenceAssumption DEF TypeOK, Phase, Pages, Page, Kinds, NoEngine, Idle, NoClock
  <2>6. broken' \in BOOLEAN
    BY <1>0, <1>u DEF TypeOK
  <2> QED
    BY <1>0, <1>u, <2>1, <2>2, <2>3, <2>4, <2>5, <2>6 DEF TypeOK
<1>2. Stages'
  BY <1>0, <1>u, <1>t, EvidenceAssumption DEF Stages, Measuring, Capturing, At, NoEngine, Idle, TypeOK
<1>3. Numbers'
  BY <1>0, <1>u, <1>t DEF Numbers, Stages, Measuring, Capturing, At, Idle, Page
<1>4. Verdict'
  BY <1>0, <1>u, <1>t, EvidenceFrame DEF Verdict, At, Idle
<1>5. Arms'
  BY <1>0, <1>u, <1>t DEF Arms, Stages, Measuring, Capturing, At, Idle, NoClock, Phase
<1>6. OldRoles'
  BY <1>0, <1>u, <1>t DEF OldRoles, Stages, Numbers, Measuring, Capturing, At
<1>7. ReportTells'
  BY <1>0, <1>u, <1>t, EvidenceFrame DEF ReportTells, Good, At, Idle, Page
<1>8. AdviceIsSound'
  BY <1>0, <1>u, <1>t DEF AdviceIsSound, Good, Numbers, At, Page
<1>9. OldRolesExplained'
  BY <1>0, <1>u, <1>t DEF OldRolesExplained, Good, Numbers, At, Page, Pages
<1>10. DifferExplained'
  BY <1>0, <1>u, <1>t, EvidenceFrame DEF DifferExplained, Differ, Stages, At
<1> QED
  BY <1>1, <1>2, <1>3, <1>4, <1>5, <1>6, <1>7, <1>8, <1>9, <1>10 DEF IInv

LEMMA RolesRefusedPreserves ==
  ASSUME IInv, NEW notSplit \in BOOLEAN, RolesRefused(notSplit)
  PROVE  IInv'
<1>0. /\ TypeOK /\ Stages /\ Numbers /\ Verdict /\ Arms /\ OldRoles
      /\ ReportTells /\ AdviceIsSound /\ OldRolesExplained /\ DifferExplained
  BY DEF IInv
<1>u. /\ UNCHANGED <<timing, roles, status, witness, report, validation, plan, n, flawed, refused, uncaptured, unsaid, alone, armOf, broken>>
      /\ At("capture")
      /\ \/ job' = [job EXCEPT !.at = "output"] /\ last' = last
         \/ job' = Idle /\ last' = "failed"
  BY DEF RolesRefused, Goto, End, files, history
<1>t. /\ timing \in [of : Nat, by : Engines \cup {NoEngine}] /\ roles \in [Engines -> Nat]
      /\ witness \in [mhz : Nat, native : Phase, captured : Phase]
      /\ report \in Pages /\ plan \in Pages /\ n \in Nat
      /\ status \in [state : {"none", "skipped", "failed", "measured"}, by : Engines \cup {NoEngine}]
      /\ job \in [kind : Kinds \cup {"none"}, by : Engines \cup {NoEngine}, mhz : Nat,
                  at : {"idle", "measure", "timing", "status", "close", "import", "roles", "capture",
                        "window", "emit", "output", "report"}]
      /\ armOf \in [{"native", "captured"} -> Nat]
  BY <1>0 DEF TypeOK
<1>1. TypeOK'
  <2>1. job' \in [kind : Kinds \cup {"none"}, by : Engines \cup {NoEngine}, mhz : Nat,
                  at : {"idle", "measure", "timing", "status", "close", "import", "roles", "capture",
                        "window", "emit", "output", "report"}]
    BY <1>0, <1>u, <1>t, EvidenceAssumption DEF TypeOK, Phase, Pages, Page, Kinds, NoEngine, Idle, NoClock
  <2>2. last' \in {"ok", "failed", "killed"}
    BY <1>0, <1>u, <1>t, EvidenceAssumption DEF TypeOK, Phase, Pages, Page, Kinds, NoEngine, Idle, NoClock
  <2>3. broken' \in BOOLEAN
    BY <1>0, <1>u DEF TypeOK
  <2> QED
    BY <1>0, <1>u, <2>1, <2>2, <2>3 DEF TypeOK
<1>2. Stages'
  BY <1>0, <1>u, <1>t, EvidenceAssumption DEF Stages, Measuring, Capturing, At, NoEngine, Idle, TypeOK
<1>3. Numbers'
  BY <1>0, <1>u, <1>t DEF Numbers, Stages, Measuring, Capturing, At, Idle, Page
<1>4. Verdict'
  BY <1>0, <1>u, <1>t, EvidenceFrame DEF Verdict, At, Idle
<1>5. Arms'
  BY <1>0, <1>u, <1>t DEF Arms, Stages, Measuring, Capturing, At, Idle, NoClock, Phase
<1>6. OldRoles'
  BY <1>0, <1>u, <1>t DEF OldRoles, Stages, Numbers, Measuring, Capturing, At
<1>7. ReportTells'
  BY <1>0, <1>u, <1>t, EvidenceFrame DEF ReportTells, Good, At, Idle, Page
<1>8. AdviceIsSound'
  BY <1>0, <1>u, <1>t DEF AdviceIsSound, Good, Numbers, At, Page
<1>9. OldRolesExplained'
  BY <1>0, <1>u, <1>t DEF OldRolesExplained, Good, Numbers, At, Page, Pages
<1>10. DifferExplained'
  BY <1>0, <1>u, <1>t, EvidenceFrame DEF DifferExplained, Differ, Stages, At
<1> QED
  BY <1>1, <1>2, <1>3, <1>4, <1>5, <1>6, <1>7, <1>8, <1>9, <1>10 DEF IInv

LEMMA RolesClearedPreserves ==
  ASSUME IInv, RolesCleared
  PROVE  IInv'
<1>0. /\ TypeOK /\ Stages /\ Numbers /\ Verdict /\ Arms /\ OldRoles
      /\ ReportTells /\ AdviceIsSound /\ OldRolesExplained /\ DifferExplained
  BY DEF IInv
<1>u. /\ UNCHANGED <<timing, status, witness, report, validation, plan, n, last, flawed, refused, unsaid, alone, armOf, broken>>
      /\ At("capture") /\ job' = [job EXCEPT !.at = "window"]
      /\ roles' = [roles EXCEPT ![job.by] = 0] /\ uncaptured' = uncaptured \ {n}
  BY DEF RolesCleared, Goto
<1>t. /\ timing \in [of : Nat, by : Engines \cup {NoEngine}] /\ roles \in [Engines -> Nat]
      /\ witness \in [mhz : Nat, native : Phase, captured : Phase]
      /\ report \in Pages /\ plan \in Pages /\ n \in Nat
      /\ status \in [state : {"none", "skipped", "failed", "measured"}, by : Engines \cup {NoEngine}]
      /\ job \in [kind : Kinds \cup {"none"}, by : Engines \cup {NoEngine}, mhz : Nat,
                  at : {"idle", "measure", "timing", "status", "close", "import", "roles", "capture",
                        "window", "emit", "output", "report"}]
      /\ armOf \in [{"native", "captured"} -> Nat]
  BY <1>0 DEF TypeOK
<1>1. TypeOK'
  <2>1. roles' \in [Engines -> Nat]
    BY <1>0, <1>u, <1>t, EvidenceAssumption DEF TypeOK, Phase, Pages, Page, Kinds, NoEngine, Idle, NoClock
  <2>2. job' \in [kind : Kinds \cup {"none"}, by : Engines \cup {NoEngine}, mhz : Nat,
                  at : {"idle", "measure", "timing", "status", "close", "import", "roles", "capture",
                        "window", "emit", "output", "report"}]
    BY <1>0, <1>u, <1>t, EvidenceAssumption DEF TypeOK, Phase, Pages, Page, Kinds, NoEngine, Idle, NoClock
  <2>3. uncaptured' \subseteq Nat
    BY <1>0, <1>u, <1>t, EvidenceAssumption DEF TypeOK, Phase, Pages, Page, Kinds, NoEngine, Idle, NoClock
  <2>4. broken' \in BOOLEAN
    BY <1>0, <1>u DEF TypeOK
  <2> QED
    BY <1>0, <1>u, <2>1, <2>2, <2>3, <2>4 DEF TypeOK
<1>2. Stages'
  BY <1>0, <1>u, <1>t, EvidenceAssumption DEF Stages, Measuring, Capturing, At, NoEngine, Idle, TypeOK
<1>3. Numbers'
  BY <1>0, <1>u, <1>t DEF Numbers, Stages, Measuring, Capturing, At, Idle, Page
<1>4. Verdict'
  BY <1>0, <1>u, <1>t, EvidenceFrame DEF Verdict, At, Idle
<1>5. Arms'
  BY <1>0, <1>u, <1>t DEF Arms, Stages, Measuring, Capturing, At, Idle, NoClock, Phase
<1>6. OldRoles'
  BY <1>0, <1>u, <1>t DEF OldRoles, Stages, Numbers, Measuring, Capturing, At
<1>7. ReportTells'
  BY <1>0, <1>u, <1>t, EvidenceFrame DEF ReportTells, Good, At, Idle, Page
<1>8. AdviceIsSound'
  BY <1>0, <1>u, <1>t DEF AdviceIsSound, Good, Numbers, At, Page
<1>9. OldRolesExplained'
  BY <1>0, <1>u, <1>t DEF OldRolesExplained, Good, Numbers, At, Page, Pages
<1>10. DifferExplained'
  BY <1>0, <1>u, <1>t, EvidenceFrame DEF DifferExplained, Differ, Stages, At
<1> QED
  BY <1>1, <1>2, <1>3, <1>4, <1>5, <1>6, <1>7, <1>8, <1>9, <1>10 DEF IInv

LEMMA WindowRefusedPreserves ==
  ASSUME IInv, WindowRefused
  PROVE  IInv'
<1>0. /\ TypeOK /\ Stages /\ Numbers /\ Verdict /\ Arms /\ OldRoles
      /\ ReportTells /\ AdviceIsSound /\ OldRolesExplained /\ DifferExplained
  BY DEF IInv
<1>u. /\ UNCHANGED <<timing, roles, status, witness, report, validation, plan, n, flawed, refused, uncaptured, unsaid, alone, armOf, broken>>
      /\ At("window") /\ job' = Idle /\ last' = "failed"
  BY DEF WindowRefused, End, files, history
<1>t. /\ timing \in [of : Nat, by : Engines \cup {NoEngine}] /\ roles \in [Engines -> Nat]
      /\ witness \in [mhz : Nat, native : Phase, captured : Phase]
      /\ report \in Pages /\ plan \in Pages /\ n \in Nat
      /\ status \in [state : {"none", "skipped", "failed", "measured"}, by : Engines \cup {NoEngine}]
      /\ job \in [kind : Kinds \cup {"none"}, by : Engines \cup {NoEngine}, mhz : Nat,
                  at : {"idle", "measure", "timing", "status", "close", "import", "roles", "capture",
                        "window", "emit", "output", "report"}]
      /\ armOf \in [{"native", "captured"} -> Nat]
  BY <1>0 DEF TypeOK
<1>1. TypeOK'
  <2>1. job' \in [kind : Kinds \cup {"none"}, by : Engines \cup {NoEngine}, mhz : Nat,
                  at : {"idle", "measure", "timing", "status", "close", "import", "roles", "capture",
                        "window", "emit", "output", "report"}]
    BY <1>0, <1>u, <1>t, EvidenceAssumption DEF TypeOK, Phase, Pages, Page, Kinds, NoEngine, Idle, NoClock
  <2>2. last' \in {"ok", "failed", "killed"}
    BY <1>0, <1>u, <1>t, EvidenceAssumption DEF TypeOK, Phase, Pages, Page, Kinds, NoEngine, Idle, NoClock
  <2>3. broken' \in BOOLEAN
    BY <1>0, <1>u DEF TypeOK
  <2> QED
    BY <1>0, <1>u, <2>1, <2>2, <2>3 DEF TypeOK
<1>2. Stages'
  BY <1>0, <1>u, <1>t, EvidenceAssumption DEF Stages, Measuring, Capturing, At, NoEngine, Idle, TypeOK
<1>3. Numbers'
  BY <1>0, <1>u, <1>t DEF Numbers, Stages, Measuring, Capturing, At, Idle, Page
<1>4. Verdict'
  BY <1>0, <1>u, <1>t, EvidenceFrame DEF Verdict, At, Idle
<1>5. Arms'
  BY <1>0, <1>u, <1>t DEF Arms, Stages, Measuring, Capturing, At, Idle, NoClock, Phase
<1>6. OldRoles'
  BY <1>0, <1>u, <1>t DEF OldRoles, Stages, Numbers, Measuring, Capturing, At
<1>7. ReportTells'
  BY <1>0, <1>u, <1>t, EvidenceFrame DEF ReportTells, Good, At, Idle, Page
<1>8. AdviceIsSound'
  BY <1>0, <1>u, <1>t DEF AdviceIsSound, Good, Numbers, At, Page
<1>9. OldRolesExplained'
  BY <1>0, <1>u, <1>t DEF OldRolesExplained, Good, Numbers, At, Page, Pages
<1>10. DifferExplained'
  BY <1>0, <1>u, <1>t, EvidenceFrame DEF DifferExplained, Differ, Stages, At
<1> QED
  BY <1>1, <1>2, <1>3, <1>4, <1>5, <1>6, <1>7, <1>8, <1>9, <1>10 DEF IInv

LEMMA RolesKeptPreserves ==
  ASSUME IInv, RolesKept
  PROVE  IInv'
<1>0. /\ TypeOK /\ Stages /\ Numbers /\ Verdict /\ Arms /\ OldRoles
      /\ ReportTells /\ AdviceIsSound /\ OldRolesExplained /\ DifferExplained
  BY DEF IInv
<1>u. /\ UNCHANGED <<timing, roles, status, witness, report, validation, plan, n, last, flawed, refused, uncaptured, unsaid, alone, armOf, broken>>
      /\ At("capture") /\ job' = [job EXCEPT !.at = "window"]
  BY DEF RolesKept, Goto, files, history
<1>t. /\ timing \in [of : Nat, by : Engines \cup {NoEngine}] /\ roles \in [Engines -> Nat]
      /\ witness \in [mhz : Nat, native : Phase, captured : Phase]
      /\ report \in Pages /\ plan \in Pages /\ n \in Nat
      /\ status \in [state : {"none", "skipped", "failed", "measured"}, by : Engines \cup {NoEngine}]
      /\ job \in [kind : Kinds \cup {"none"}, by : Engines \cup {NoEngine}, mhz : Nat,
                  at : {"idle", "measure", "timing", "status", "close", "import", "roles", "capture",
                        "window", "emit", "output", "report"}]
      /\ armOf \in [{"native", "captured"} -> Nat]
  BY <1>0 DEF TypeOK
<1>1. TypeOK'
  <2>1. job' \in [kind : Kinds \cup {"none"}, by : Engines \cup {NoEngine}, mhz : Nat,
                  at : {"idle", "measure", "timing", "status", "close", "import", "roles", "capture",
                        "window", "emit", "output", "report"}]
    BY <1>0, <1>u, <1>t, EvidenceAssumption DEF TypeOK, Phase, Pages, Page, Kinds, NoEngine, Idle, NoClock
  <2>2. broken' \in BOOLEAN
    BY <1>0, <1>u DEF TypeOK
  <2> QED
    BY <1>0, <1>u, <2>1, <2>2 DEF TypeOK
<1>2. Stages'
  BY <1>0, <1>u, <1>t, EvidenceAssumption DEF Stages, Measuring, Capturing, At, NoEngine, Idle, TypeOK
<1>3. Numbers'
  BY <1>0, <1>u, <1>t DEF Numbers, Stages, Measuring, Capturing, At, Idle, Page
<1>4. Verdict'
  BY <1>0, <1>u, <1>t, EvidenceFrame DEF Verdict, At, Idle
<1>5. Arms'
  BY <1>0, <1>u, <1>t DEF Arms, Stages, Measuring, Capturing, At, Idle, NoClock, Phase
<1>6. OldRoles'
  BY <1>0, <1>u, <1>t DEF OldRoles, Stages, Numbers, Measuring, Capturing, At
<1>7. ReportTells'
  BY <1>0, <1>u, <1>t, EvidenceFrame DEF ReportTells, Good, At, Idle, Page
<1>8. AdviceIsSound'
  BY <1>0, <1>u, <1>t DEF AdviceIsSound, Good, Numbers, At, Page
<1>9. OldRolesExplained'
  BY <1>0, <1>u, <1>t DEF OldRolesExplained, Good, Numbers, At, Page, Pages
<1>10. DifferExplained'
  BY <1>0, <1>u, <1>t, EvidenceFrame DEF DifferExplained, Differ, Stages, At
<1> QED
  BY <1>1, <1>2, <1>3, <1>4, <1>5, <1>6, <1>7, <1>8, <1>9, <1>10 DEF IInv

LEMMA RolesTakenBrokenPreserves ==
  ASSUME IInv, RolesTakenBroken
  PROVE  IInv'
<1>0. /\ TypeOK /\ Stages /\ Numbers /\ Verdict /\ Arms /\ OldRoles
      /\ ReportTells /\ AdviceIsSound /\ OldRolesExplained /\ DifferExplained
  BY DEF IInv
<1>u. /\ UNCHANGED <<timing, status, witness, report, validation, plan, n, flawed, unsaid, armOf, broken>>
      /\ At("window") /\ job' = Idle /\ last' = "failed"
      /\ roles' = [roles EXCEPT ![job.by] = n] /\ refused' = refused \cup {n}
      /\ uncaptured' = uncaptured \ {n}
      /\ \/ job.kind = "full" /\ alone' = alone
         \/ job.kind # "full" /\ alone' = alone \cup {n}
  BY DEF RolesTakenBroken, End
<1>t. /\ timing \in [of : Nat, by : Engines \cup {NoEngine}] /\ roles \in [Engines -> Nat]
      /\ witness \in [mhz : Nat, native : Phase, captured : Phase]
      /\ report \in Pages /\ plan \in Pages /\ n \in Nat
      /\ status \in [state : {"none", "skipped", "failed", "measured"}, by : Engines \cup {NoEngine}]
      /\ job \in [kind : Kinds \cup {"none"}, by : Engines \cup {NoEngine}, mhz : Nat,
                  at : {"idle", "measure", "timing", "status", "close", "import", "roles", "capture",
                        "window", "emit", "output", "report"}]
      /\ armOf \in [{"native", "captured"} -> Nat]
  BY <1>0 DEF TypeOK
<1>1. TypeOK'
  <2>1. job' \in [kind : Kinds \cup {"none"}, by : Engines \cup {NoEngine}, mhz : Nat,
                  at : {"idle", "measure", "timing", "status", "close", "import", "roles", "capture",
                        "window", "emit", "output", "report"}]
    BY <1>0, <1>u, <1>t, EvidenceAssumption DEF TypeOK, Phase, Pages, Page, Kinds, NoEngine, Idle, NoClock
  <2>2. last' \in {"ok", "failed", "killed"}
    BY <1>0, <1>u, <1>t, EvidenceAssumption DEF TypeOK, Phase, Pages, Page, Kinds, NoEngine, Idle, NoClock
  <2>3. roles' \in [Engines -> Nat]
    BY <1>u, <1>t
  <2>4. refused' \subseteq Nat /\ uncaptured' \subseteq Nat /\ alone' \subseteq Nat
    BY <1>0, <1>u, <1>t DEF TypeOK
  <2>5. broken' \in BOOLEAN
    BY <1>0, <1>u DEF TypeOK
  <2> QED
    BY <1>0, <1>u, <2>1, <2>2, <2>3, <2>4, <2>5 DEF TypeOK
<1>2. Stages'
  BY <1>0, <1>u, <1>t, EvidenceAssumption DEF Stages, Measuring, Capturing, At, NoEngine, Idle, TypeOK
<1>3. Numbers'
  BY <1>0, <1>u, <1>t DEF Numbers, Stages, Measuring, Capturing, At, Idle, Page
<1>4. Verdict'
  BY <1>0, <1>u, <1>t, EvidenceFrame DEF Verdict, At, Idle
<1>5. Arms'
  BY <1>0, <1>u, <1>t DEF Arms, Stages, Measuring, Capturing, At, Idle, NoClock, Phase
<1>6. OldRoles'
  BY <1>0, <1>u, <1>t DEF OldRoles, Stages, Numbers, Measuring, Capturing, At
<1>7. ReportTells'
  BY <1>0, <1>u, <1>t, EvidenceFrame DEF ReportTells, Good, At, Idle, Page
<1>8. AdviceIsSound'
  BY <1>0, <1>u, <1>t DEF AdviceIsSound, Good, Numbers, At, Page
<1>9. OldRolesExplained'
  BY <1>0, <1>u, <1>t DEF OldRolesExplained, Good, Numbers, At, Page, Pages
<1>10. DifferExplained'
  BY <1>0, <1>u, <1>t, EvidenceFrame DEF DifferExplained, Differ, Stages, At
<1> QED
  BY <1>1, <1>2, <1>3, <1>4, <1>5, <1>6, <1>7, <1>8, <1>9, <1>10 DEF IInv

LEMMA TimingOpensPreserves ==
  ASSUME IInv, TimingOpens
  PROVE  IInv'
<1>0. /\ TypeOK /\ Stages /\ Numbers /\ Verdict /\ Arms /\ OldRoles
      /\ ReportTells /\ AdviceIsSound /\ OldRolesExplained /\ DifferExplained
  BY DEF IInv
<1>u. /\ UNCHANGED <<timing, roles, status, report, validation, plan, n, last, flawed, refused, uncaptured, unsaid, alone, armOf, broken>>
      /\ At("measure") /\ job' = [job EXCEPT !.at = "timing"]
      /\ ClockOpens("native")
  BY DEF TimingOpens, Goto, history
<1>t. /\ timing \in [of : Nat, by : Engines \cup {NoEngine}] /\ roles \in [Engines -> Nat]
      /\ witness \in [mhz : Nat, native : Phase, captured : Phase]
      /\ report \in Pages /\ plan \in Pages /\ n \in Nat
      /\ status \in [state : {"none", "skipped", "failed", "measured"}, by : Engines \cup {NoEngine}]
      /\ job \in [kind : Kinds \cup {"none"}, by : Engines \cup {NoEngine}, mhz : Nat,
                  at : {"idle", "measure", "timing", "status", "close", "import", "roles", "capture",
                        "window", "emit", "output", "report"}]
      /\ armOf \in [{"native", "captured"} -> Nat]
  BY <1>0 DEF TypeOK
<1>c. /\ witness' \in [mhz : Nat, native : Phase, captured : Phase]
      /\ witness'.native # "done" /\ witness'.captured # "done"
  <2>1. job.mhz \in Nat /\ NoClock \in [mhz : Nat, native : Phase, captured : Phase] /\ NoClock.native = "none" /\ NoClock.captured = "none"
    BY <1>t DEF NoClock, Phase
  <2>2. CASE job.mhz = 0
    BY <1>u, <2>1, <2>2 DEF ClockOpens
  <2>3. CASE job.mhz # 0
    <3>1. witness' = [[NoClock EXCEPT !.mhz = job.mhz] EXCEPT !.native = "open"]
      BY <1>u, <2>3 DEF ClockOpens
    <3> QED
      BY <3>1, <2>1 DEF NoClock, Phase
  <2> QED
    BY <2>2, <2>3
<1>1. TypeOK'
  <2>1. witness' \in [mhz : Nat, native : Phase, captured : Phase]
    BY <1>c
  <2>2. job' \in [kind : Kinds \cup {"none"}, by : Engines \cup {NoEngine}, mhz : Nat,
                  at : {"idle", "measure", "timing", "status", "close", "import", "roles", "capture",
                        "window", "emit", "output", "report"}]
    BY <1>0, <1>u, <1>t, EvidenceAssumption DEF TypeOK, Phase, Pages, Page, Kinds, NoEngine, Idle, NoClock
  <2>3. broken' \in BOOLEAN
    BY <1>0, <1>u DEF TypeOK
  <2> QED
    BY <1>0, <1>u, <2>1, <2>2, <2>3 DEF TypeOK
<1>2. Stages'
  BY <1>0, <1>u, <1>t, EvidenceAssumption, <1>c DEF Stages, Measuring, Capturing, At, NoEngine, Idle, TypeOK
<1>3. Numbers'
  BY <1>0, <1>u, <1>t, <1>c DEF Numbers, Stages, Measuring, Capturing, At, Idle, Page
<1>4. Verdict'
  BY <1>0, <1>u, <1>t, EvidenceFrame, <1>c DEF Verdict, At, Idle
<1>5. Arms'
  BY <1>0, <1>u, <1>t, <1>c DEF Arms, Stages, Measuring, Capturing, At, Idle, NoClock, Phase
<1>6. OldRoles'
  BY <1>0, <1>u, <1>t, <1>c DEF OldRoles, Stages, Numbers, Measuring, Capturing, At
<1>7. ReportTells'
  BY <1>0, <1>u, <1>t, EvidenceFrame, <1>c DEF ReportTells, Good, At, Idle, Page
<1>8. AdviceIsSound'
  BY <1>0, <1>u, <1>t, <1>c DEF AdviceIsSound, Good, Numbers, At, Page
<1>9. OldRolesExplained'
  BY <1>0, <1>u, <1>t, <1>c DEF OldRolesExplained, Good, Numbers, At, Page, Pages
<1>10. DifferExplained'
  BY <1>0, <1>u, <1>t, EvidenceFrame, <1>c DEF DifferExplained, Differ, Stages, At
<1> QED
  BY <1>1, <1>2, <1>3, <1>4, <1>5, <1>6, <1>7, <1>8, <1>9, <1>10 DEF IInv

LEMMA TimingEndsPreserves ==
  ASSUME IInv, TimingEnds
  PROVE  IInv'
<1>0. /\ TypeOK /\ Stages /\ Numbers /\ Verdict /\ Arms /\ OldRoles
      /\ ReportTells /\ AdviceIsSound /\ OldRolesExplained /\ DifferExplained
  BY DEF IInv
<1>u. /\ UNCHANGED <<timing, roles, status, report, validation, plan, n, last, flawed, refused, uncaptured, unsaid, alone, broken>>
      /\ At("close")
      /\ job' = [job EXCEPT !.at = IF job.kind = "full" THEN "roles" ELSE "output"]
      /\ ClockCloses("native")
  BY DEF TimingEnds, Goto
<1>t. /\ timing \in [of : Nat, by : Engines \cup {NoEngine}] /\ roles \in [Engines -> Nat]
      /\ witness \in [mhz : Nat, native : Phase, captured : Phase]
      /\ report \in Pages /\ plan \in Pages /\ n \in Nat
      /\ status \in [state : {"none", "skipped", "failed", "measured"}, by : Engines \cup {NoEngine}]
      /\ job \in [kind : Kinds \cup {"none"}, by : Engines \cup {NoEngine}, mhz : Nat,
                  at : {"idle", "measure", "timing", "status", "close", "import", "roles", "capture",
                        "window", "emit", "output", "report"}]
      /\ armOf \in [{"native", "captured"} -> Nat]
  BY <1>0 DEF TypeOK
<1>c. /\ witness' \in [mhz : Nat, native : Phase, captured : Phase] /\ armOf' \in [{"native", "captured"} -> Nat]
      /\ witness'.captured = witness.captured
      /\ \/ witness'.native = "done" /\ armOf'.native = n
         \/ witness' = witness /\ armOf' = armOf
  <2>1. CASE witness.native = "open"
    <3>1. witness' = [witness EXCEPT !.native = "done"] /\ armOf' = [armOf EXCEPT !["native"] = n]
      BY <1>u, <2>1 DEF ClockCloses
    <3> QED
      BY <1>t, <3>1 DEF Phase
  <2>2. CASE witness.native # "open"
    <3>1. witness' = witness /\ armOf' = armOf
      BY <1>u, <2>2 DEF ClockCloses
    <3> QED
      BY <1>t, <3>1
  <2> QED
    BY <2>1, <2>2
<1>1. TypeOK'
  <2>1. witness' \in [mhz : Nat, native : Phase, captured : Phase]
    BY <1>c
  <2>2. job' \in [kind : Kinds \cup {"none"}, by : Engines \cup {NoEngine}, mhz : Nat,
                  at : {"idle", "measure", "timing", "status", "close", "import", "roles", "capture",
                        "window", "emit", "output", "report"}]
    BY <1>0, <1>u, <1>t, EvidenceAssumption DEF TypeOK, Phase, Pages, Page, Kinds, NoEngine, Idle, NoClock
  <2>3. armOf' \in [{"native", "captured"} -> Nat]
    BY <1>c
  <2>4. broken' \in BOOLEAN
    BY <1>0, <1>u DEF TypeOK
  <2> QED
    BY <1>0, <1>u, <2>1, <2>2, <2>3, <2>4 DEF TypeOK
<1>2. Stages'
  BY <1>0, <1>u, <1>t, EvidenceAssumption, <1>c DEF Stages, Measuring, Capturing, At, NoEngine, Idle, TypeOK
<1>3. Numbers'
  BY <1>0, <1>u, <1>t, <1>c DEF Numbers, Stages, Measuring, Capturing, At, Idle, Page
<1>4. Verdict'
  BY <1>0, <1>u, <1>t, EvidenceFrame, <1>c DEF Verdict, At, Idle
<1>5. Arms'
  BY <1>0, <1>u, <1>t, <1>c DEF Arms, Stages, Measuring, Capturing, At, Idle, NoClock, Phase
<1>6. OldRoles'
  BY <1>0, <1>u, <1>t, <1>c DEF OldRoles, Stages, Numbers, Measuring, Capturing, At
<1>7. ReportTells'
  BY <1>0, <1>u, <1>t, EvidenceFrame, <1>c DEF ReportTells, Good, At, Idle, Page
<1>8. AdviceIsSound'
  BY <1>0, <1>u, <1>t, <1>c DEF AdviceIsSound, Good, Numbers, At, Page
<1>9. OldRolesExplained'
  BY <1>0, <1>u, <1>t, <1>c DEF OldRolesExplained, Good, Numbers, At, Page, Pages
<1>10. DifferExplained'
  BY <1>0, <1>u, <1>t, EvidenceFrame, <1>c DEF DifferExplained, Differ, Stages, At
<1> QED
  BY <1>1, <1>2, <1>3, <1>4, <1>5, <1>6, <1>7, <1>8, <1>9, <1>10 DEF IInv

LEMMA RolesOpenPreserves ==
  ASSUME IInv, RolesOpen
  PROVE  IInv'
<1>0. /\ TypeOK /\ Stages /\ Numbers /\ Verdict /\ Arms /\ OldRoles
      /\ ReportTells /\ AdviceIsSound /\ OldRolesExplained /\ DifferExplained
  BY DEF IInv
<1>u. /\ UNCHANGED <<timing, roles, status, report, validation, plan, n, last, flawed, refused, uncaptured, unsaid, alone, armOf, broken>>
      /\ At("roles") /\ job' = [job EXCEPT !.at = "capture"]
      /\ IF job.kind = "full" THEN ClockOpens("captured") ELSE witness' = witness
  BY DEF RolesOpen, Goto, history
<1>t. /\ timing \in [of : Nat, by : Engines \cup {NoEngine}] /\ roles \in [Engines -> Nat]
      /\ witness \in [mhz : Nat, native : Phase, captured : Phase]
      /\ report \in Pages /\ plan \in Pages /\ n \in Nat
      /\ status \in [state : {"none", "skipped", "failed", "measured"}, by : Engines \cup {NoEngine}]
      /\ job \in [kind : Kinds \cup {"none"}, by : Engines \cup {NoEngine}, mhz : Nat,
                  at : {"idle", "measure", "timing", "status", "close", "import", "roles", "capture",
                        "window", "emit", "output", "report"}]
      /\ armOf \in [{"native", "captured"} -> Nat]
  BY <1>0 DEF TypeOK
<1>c. /\ witness' \in [mhz : Nat, native : Phase, captured : Phase]
      /\ \/ job.kind # "full" /\ witness' = witness
         \/ /\ job.kind = "full" /\ witness'.captured # "done"
            /\ witness'.native = "done" => witness.native = "done"
  <2>1. job.mhz \in Nat /\ NoClock \in [mhz : Nat, native : Phase, captured : Phase] /\ NoClock.native = "none" /\ NoClock.captured = "none"
    BY <1>t DEF NoClock, Phase
  <2>2. CASE job.kind # "full"
    BY <1>u, <1>t, <2>2
  <2>3. CASE job.kind = "full" /\ job.mhz = 0
    <3>1. witness' \in {NoClock, [witness EXCEPT !.native = "none", !.captured = "none"]}
      BY <1>u, <2>3 DEF ClockOpens
    <3> QED
      BY <1>t, <2>1, <2>3, <3>1 DEF Phase
  <2>4. CASE job.kind = "full" /\ job.mhz # 0
    <3>1. witness' \in {[witness EXCEPT !.captured = "open"], [[NoClock EXCEPT !.mhz = job.mhz] EXCEPT !.captured = "open"]}
      BY <1>u, <2>4 DEF ClockOpens
    <3> QED
      BY <1>t, <2>1, <2>4, <3>1 DEF Phase, NoClock
  <2> QED
    BY <2>2, <2>3, <2>4
<1>1. TypeOK'
  <2>1. witness' \in [mhz : Nat, native : Phase, captured : Phase]
    BY <1>c
  <2>2. job' \in [kind : Kinds \cup {"none"}, by : Engines \cup {NoEngine}, mhz : Nat,
                  at : {"idle", "measure", "timing", "status", "close", "import", "roles", "capture",
                        "window", "emit", "output", "report"}]
    BY <1>0, <1>u, <1>t, EvidenceAssumption DEF TypeOK, Phase, Pages, Page, Kinds, NoEngine, Idle, NoClock
  <2>3. broken' \in BOOLEAN
    BY <1>0, <1>u DEF TypeOK
  <2> QED
    BY <1>0, <1>u, <2>1, <2>2, <2>3 DEF TypeOK
<1>2. Stages'
  BY <1>0, <1>u, <1>t, EvidenceAssumption, <1>c DEF Stages, Measuring, Capturing, At, NoEngine, Idle, TypeOK
<1>3. Numbers'
  BY <1>0, <1>u, <1>t, <1>c DEF Numbers, Stages, Measuring, Capturing, At, Idle, Page
<1>4. Verdict'
  BY <1>0, <1>u, <1>t, EvidenceFrame, <1>c DEF Verdict, At, Idle
<1>5. Arms'
  BY <1>0, <1>u, <1>t, <1>c DEF Arms, Stages, Measuring, Capturing, At, Idle, NoClock, Phase
<1>6. OldRoles'
  BY <1>0, <1>u, <1>t, <1>c DEF OldRoles, Stages, Numbers, Measuring, Capturing, At
<1>7. ReportTells'
  BY <1>0, <1>u, <1>t, EvidenceFrame, <1>c DEF ReportTells, Good, At, Idle, Page
<1>8. AdviceIsSound'
  BY <1>0, <1>u, <1>t, <1>c DEF AdviceIsSound, Good, Numbers, At, Page
<1>9. OldRolesExplained'
  BY <1>0, <1>u, <1>t, <1>c DEF OldRolesExplained, Good, Numbers, At, Page, Pages
<1>10. DifferExplained'
  BY <1>0, <1>u, <1>t, EvidenceFrame, <1>c DEF DifferExplained, Differ, Stages, At
<1> QED
  BY <1>1, <1>2, <1>3, <1>4, <1>5, <1>6, <1>7, <1>8, <1>9, <1>10 DEF IInv

LEMMA RolesTakenPreserves ==
  ASSUME IInv, NEW sound \in BOOLEAN, RolesTaken(sound)
  PROVE  IInv'
<1>0. /\ TypeOK /\ Stages /\ Numbers /\ Verdict /\ Arms /\ OldRoles
      /\ ReportTells /\ AdviceIsSound /\ OldRolesExplained /\ DifferExplained
  BY DEF IInv
<1>u. /\ UNCHANGED <<timing, status, report, validation, plan, n, last, refused, unsaid, broken>>
      /\ At("window") /\ job' = [job EXCEPT !.at = "output"]
      /\ roles' = [roles EXCEPT ![job.by] = n]
      /\ flawed' \in {flawed, flawed \cup {n}}
      /\ uncaptured' = uncaptured \ {n}
      /\ \/ job.kind = "full" /\ ClockCloses("captured") /\ alone' = alone
         \/ job.kind # "full" /\ alone' = alone \cup {n} /\ witness' = witness /\ armOf' = armOf
  BY DEF RolesTaken, Goto
<1>t. /\ timing \in [of : Nat, by : Engines \cup {NoEngine}] /\ roles \in [Engines -> Nat]
      /\ witness \in [mhz : Nat, native : Phase, captured : Phase]
      /\ report \in Pages /\ plan \in Pages /\ n \in Nat
      /\ status \in [state : {"none", "skipped", "failed", "measured"}, by : Engines \cup {NoEngine}]
      /\ job \in [kind : Kinds \cup {"none"}, by : Engines \cup {NoEngine}, mhz : Nat,
                  at : {"idle", "measure", "timing", "status", "close", "import", "roles", "capture",
                        "window", "emit", "output", "report"}]
      /\ armOf \in [{"native", "captured"} -> Nat]
  BY <1>0 DEF TypeOK
<1>c. /\ witness' \in [mhz : Nat, native : Phase, captured : Phase] /\ armOf' \in [{"native", "captured"} -> Nat]
      /\ witness'.native = witness.native /\ armOf'.native = armOf.native
      /\ \/ job.kind = "full" /\ alone' = alone
            /\ (witness'.captured = "done" => armOf'.captured = n)
         \/ job.kind # "full" /\ alone' = alone \cup {n} /\ witness' = witness /\ armOf' = armOf
  <2>1. CASE job.kind # "full"
    BY <1>u, <1>t, <2>1
  <2>2. CASE job.kind = "full" /\ witness.captured = "open"
    <3>1. /\ witness' = [witness EXCEPT !.captured = "done"] /\ armOf' = [armOf EXCEPT !["captured"] = n]
          /\ alone' = alone
      BY <1>u, <2>2 DEF ClockCloses
    <3> QED
      BY <1>t, <2>2, <3>1 DEF Phase
  <2>3. CASE job.kind = "full" /\ witness.captured # "open"
    <3>1. witness' = witness /\ armOf' = armOf /\ alone' = alone
      BY <1>u, <2>3 DEF ClockCloses
    <3>2. witness.captured # "done"
      BY <1>0, <1>u, <2>3 DEF Arms, At
    <3> QED
      BY <1>t, <2>3, <3>1, <3>2
  <2> QED
    BY <2>1, <2>2, <2>3
<1>1. TypeOK'
  <2>1. roles' \in [Engines -> Nat]
    BY <1>0, <1>u, <1>t, EvidenceAssumption DEF TypeOK, Phase, Pages, Page, Kinds, NoEngine, Idle, NoClock
  <2>2. witness' \in [mhz : Nat, native : Phase, captured : Phase]
    BY <1>c
  <2>3. job' \in [kind : Kinds \cup {"none"}, by : Engines \cup {NoEngine}, mhz : Nat,
                  at : {"idle", "measure", "timing", "status", "close", "import", "roles", "capture",
                        "window", "emit", "output", "report"}]
    BY <1>0, <1>u, <1>t, EvidenceAssumption DEF TypeOK, Phase, Pages, Page, Kinds, NoEngine, Idle, NoClock
  <2>4. flawed' \subseteq Nat
    BY <1>0, <1>u, <1>t, EvidenceAssumption DEF TypeOK, Phase, Pages, Page, Kinds, NoEngine, Idle, NoClock
  <2>5. uncaptured' \subseteq Nat
    BY <1>0, <1>u, <1>t, EvidenceAssumption DEF TypeOK, Phase, Pages, Page, Kinds, NoEngine, Idle, NoClock
  <2>6. alone' \subseteq Nat
    BY <1>0, <1>u, <1>t, EvidenceAssumption DEF TypeOK, Phase, Pages, Page, Kinds, NoEngine, Idle, NoClock
  <2>7. armOf' \in [{"native", "captured"} -> Nat]
    BY <1>c
  <2>8. broken' \in BOOLEAN
    BY <1>0, <1>u DEF TypeOK
  <2> QED
    BY <1>0, <1>u, <2>1, <2>2, <2>3, <2>4, <2>5, <2>6, <2>7, <2>8 DEF TypeOK
<1>2. Stages'
  BY <1>0, <1>u, <1>t, EvidenceAssumption, <1>c DEF Stages, Measuring, Capturing, At, NoEngine, Idle, TypeOK
<1>3. Numbers'
  BY <1>0, <1>u, <1>t, <1>c DEF Numbers, Stages, Measuring, Capturing, At, Idle, Page
<1>4. Verdict'
  BY <1>0, <1>u, <1>t, EvidenceFrame, <1>c DEF Verdict, At, Idle
<1>5. Arms'
  BY <1>0, <1>u, <1>t, <1>c DEF Arms, Stages, Measuring, Capturing, At, Idle, NoClock, Phase
<1>6. OldRoles'
  BY <1>0, <1>u, <1>t, <1>c DEF OldRoles, Stages, Numbers, Measuring, Capturing, At
<1>7. ReportTells'
  BY <1>0, <1>u, <1>t, EvidenceFrame, <1>c DEF ReportTells, Good, At, Idle, Page
<1>8. AdviceIsSound'
  BY <1>0, <1>u, <1>t, <1>c DEF AdviceIsSound, Good, Numbers, At, Page
<1>9. OldRolesExplained'
  BY <1>0, <1>u, <1>t, <1>c DEF OldRolesExplained, Good, Numbers, At, Page, Pages
<1>10. DifferExplained'
  BY <1>0, <1>u, <1>t, EvidenceFrame, <1>c DEF DifferExplained, Differ, Stages, At
<1> QED
  BY <1>1, <1>2, <1>3, <1>4, <1>5, <1>6, <1>7, <1>8, <1>9, <1>10 DEF IInv

LEMMA EmitPreserves ==
  ASSUME IInv, Emit
  PROVE  IInv'
<1>0. /\ TypeOK /\ Stages /\ Numbers /\ Verdict /\ Arms /\ OldRoles
      /\ ReportTells /\ AdviceIsSound /\ OldRolesExplained /\ DifferExplained
  BY DEF IInv
<1>u. /\ UNCHANGED <<timing, roles, status, witness, report, validation, n, flawed, refused, uncaptured, unsaid, alone, armOf, broken>>
      /\ At("emit")
      /\ \/ Reconciles /\ plan' = Evidence /\ last' = last /\ job' = [job EXCEPT !.at = "output"]
         \/ plan' = Page("none") /\ job' = Idle /\ last' = "failed"
  BY DEF Emit, Goto, End, history
<1>t. /\ timing \in [of : Nat, by : Engines \cup {NoEngine}] /\ roles \in [Engines -> Nat]
      /\ witness \in [mhz : Nat, native : Phase, captured : Phase]
      /\ report \in Pages /\ plan \in Pages /\ n \in Nat
      /\ status \in [state : {"none", "skipped", "failed", "measured"}, by : Engines \cup {NoEngine}]
      /\ job \in [kind : Kinds \cup {"none"}, by : Engines \cup {NoEngine}, mhz : Nat,
                  at : {"idle", "measure", "timing", "status", "close", "import", "roles", "capture",
                        "window", "emit", "output", "report"}]
      /\ armOf \in [{"native", "captured"} -> Nat]
  BY <1>0 DEF TypeOK
<1>e. /\ shown \in Engines /\ Evidence \in Pages
      /\ Evidence.timing \in {0, timing.of} /\ Evidence.roles \in {0, roles[shown]}
      /\ Reconciles => Evidence.timing \notin flawed /\ Evidence.roles \notin flawed
  BY <1>0, EvidenceTypedHere DEF Reconciles
<1>1. TypeOK'
  <2>1. plan' \in Pages
    BY <1>u, <1>e, PageTyped
  <2>2. job' \in [kind : Kinds \cup {"none"}, by : Engines \cup {NoEngine}, mhz : Nat,
                  at : {"idle", "measure", "timing", "status", "close", "import", "roles", "capture",
                        "window", "emit", "output", "report"}]
    BY <1>0, <1>u, <1>t, EvidenceAssumption DEF TypeOK, Phase, Pages, Page, Kinds, NoEngine, Idle, NoClock
  <2>3. last' \in {"ok", "failed", "killed"}
    BY <1>0, <1>u, <1>t, EvidenceAssumption DEF TypeOK, Phase, Pages, Page, Kinds, NoEngine, Idle, NoClock
  <2>4. broken' \in BOOLEAN
    BY <1>0, <1>u DEF TypeOK
  <2> QED
    BY <1>0, <1>u, <2>1, <2>2, <2>3, <2>4 DEF TypeOK
<1>2. Stages'
  BY <1>0, <1>u, <1>t, EvidenceAssumption, <1>e DEF Stages, Measuring, Capturing, At, NoEngine, Idle, TypeOK
<1>3. Numbers'
  BY <1>0, <1>u, <1>t, <1>e DEF Numbers, Stages, Measuring, Capturing, At, Idle, Page
<1>4. Verdict'
  BY <1>0, <1>u, <1>t, EvidenceFrame, <1>e DEF Verdict, At, Idle
<1>5. Arms'
  BY <1>0, <1>u, <1>t, <1>e DEF Arms, Stages, Measuring, Capturing, At, Idle, NoClock, Phase
<1>6. OldRoles'
  BY <1>0, <1>u, <1>t, <1>e DEF OldRoles, Stages, Numbers, Measuring, Capturing, At
<1>7. ReportTells'
  BY <1>0, <1>u, <1>t, EvidenceFrame, <1>e DEF ReportTells, Good, At, Idle, Page
<1>8. AdviceIsSound'
  BY <1>0, <1>u, <1>t, <1>e DEF AdviceIsSound, Good, Numbers, At, Page
<1>9. OldRolesExplained'
  BY <1>0, <1>u, <1>t, <1>e DEF OldRolesExplained, Good, Numbers, At, Page, Pages
<1>10. DifferExplained'
  BY <1>0, <1>u, <1>t, EvidenceFrame, <1>e DEF DifferExplained, Differ, Stages, At
<1> QED
  BY <1>1, <1>2, <1>3, <1>4, <1>5, <1>6, <1>7, <1>8, <1>9, <1>10 DEF IInv

LEMMA JudgesPreserves ==
  ASSUME IInv, OutputJudges
  PROVE  IInv'
<1>0. /\ TypeOK /\ Stages /\ Numbers /\ Verdict /\ Arms /\ OldRoles
      /\ ReportTells /\ AdviceIsSound /\ OldRolesExplained /\ DifferExplained
  BY DEF IInv
<1>u. /\ UNCHANGED <<timing, roles, status, witness, report, plan, n, last, flawed, refused, uncaptured, unsaid, alone, armOf, broken>>
      /\ At("output") /\ job' = [job EXCEPT !.at = "report"]
      /\ validation' = IF Reconciles THEN "passed" ELSE "failed"
  BY DEF OutputJudges, Goto, history
<1>t. /\ timing \in [of : Nat, by : Engines \cup {NoEngine}] /\ roles \in [Engines -> Nat]
      /\ witness \in [mhz : Nat, native : Phase, captured : Phase]
      /\ report \in Pages /\ plan \in Pages /\ n \in Nat
      /\ status \in [state : {"none", "skipped", "failed", "measured"}, by : Engines \cup {NoEngine}]
      /\ job \in [kind : Kinds \cup {"none"}, by : Engines \cup {NoEngine}, mhz : Nat,
                  at : {"idle", "measure", "timing", "status", "close", "import", "roles", "capture",
                        "window", "emit", "output", "report"}]
      /\ armOf \in [{"native", "captured"} -> Nat]
  BY <1>0 DEF TypeOK
<1>1. TypeOK'
  <2>1. validation' \in {"none", "passed", "failed"}
    BY <1>0, <1>u, <1>t, EvidenceAssumption DEF TypeOK, Phase, Pages, Page, Kinds, NoEngine, Idle, NoClock
  <2>2. job' \in [kind : Kinds \cup {"none"}, by : Engines \cup {NoEngine}, mhz : Nat,
                  at : {"idle", "measure", "timing", "status", "close", "import", "roles", "capture",
                        "window", "emit", "output", "report"}]
    BY <1>0, <1>u, <1>t, EvidenceAssumption DEF TypeOK, Phase, Pages, Page, Kinds, NoEngine, Idle, NoClock
  <2>3. broken' \in BOOLEAN
    BY <1>0, <1>u DEF TypeOK
  <2> QED
    BY <1>0, <1>u, <2>1, <2>2, <2>3 DEF TypeOK
<1>2. Stages'
  BY <1>0, <1>u, <1>t, EvidenceAssumption DEF Stages, Measuring, Capturing, At, NoEngine, Idle, TypeOK
<1>3. Numbers'
  BY <1>0, <1>u, <1>t DEF Numbers, Stages, Measuring, Capturing, At, Idle, Page
<1>4. Verdict'
  BY <1>0, <1>u, <1>t, EvidenceFrame DEF Verdict, At, Idle
<1>5. Arms'
  BY <1>0, <1>u, <1>t DEF Arms, Stages, Measuring, Capturing, At, Idle, NoClock, Phase
<1>6. OldRoles'
  BY <1>0, <1>u, <1>t DEF OldRoles, Stages, Numbers, Measuring, Capturing, At
<1>7. ReportTells'
  BY <1>0, <1>u, <1>t, EvidenceFrame DEF ReportTells, Good, At, Idle, Page
<1>8. AdviceIsSound'
  BY <1>0, <1>u, <1>t DEF AdviceIsSound, Good, Numbers, At, Page
<1>9. OldRolesExplained'
  BY <1>0, <1>u, <1>t DEF OldRolesExplained, Good, Numbers, At, Page, Pages
<1>10. DifferExplained'
  BY <1>0, <1>u, <1>t, EvidenceFrame DEF DifferExplained, Differ, Stages, At
<1> QED
  BY <1>1, <1>2, <1>3, <1>4, <1>5, <1>6, <1>7, <1>8, <1>9, <1>10 DEF IInv

LEMMA ReportsPreserves ==
  ASSUME IInv, OutputReports
  PROVE  IInv'
<1>0. /\ TypeOK /\ Stages /\ Numbers /\ Verdict /\ Arms /\ OldRoles
      /\ ReportTells /\ AdviceIsSound /\ OldRolesExplained /\ DifferExplained
  BY DEF IInv
<1>u. /\ UNCHANGED <<timing, roles, status, witness, validation, plan, n, flawed, refused, uncaptured, unsaid, alone, armOf>>
      /\ At("report") /\ job' = Idle /\ broken' = FALSE
      /\ \/ validation = "passed" /\ report' = Evidence /\ last' = "ok"
         \/ validation # "passed" /\ report' = Page("failed") /\ last' = "failed"
  BY DEF OutputReports, End
<1>t. /\ timing \in [of : Nat, by : Engines \cup {NoEngine}] /\ roles \in [Engines -> Nat]
      /\ witness \in [mhz : Nat, native : Phase, captured : Phase]
      /\ report \in Pages /\ plan \in Pages /\ n \in Nat
      /\ status \in [state : {"none", "skipped", "failed", "measured"}, by : Engines \cup {NoEngine}]
      /\ job \in [kind : Kinds \cup {"none"}, by : Engines \cup {NoEngine}, mhz : Nat,
                  at : {"idle", "measure", "timing", "status", "close", "import", "roles", "capture",
                        "window", "emit", "output", "report"}]
      /\ armOf \in [{"native", "captured"} -> Nat]
  BY <1>0 DEF TypeOK
<1>e. /\ shown \in Engines /\ run_provider \in Engines /\ Evidence \in Pages
      /\ Evidence.timing = 0 \/ (Evidence.timing = timing.of /\ run_provider = timing.by)
      /\ Evidence.roles \in {0, roles[shown]} /\ Evidence.other = (shown # run_provider)
      /\ validation = "passed" => Evidence.timing \notin flawed /\ Evidence.roles \notin flawed
  BY <1>0, <1>u, EvidenceTypedHere DEF Reconciles, Verdict
<1>1. TypeOK'
  <2>1. report' \in Pages
    BY <1>u, <1>e, PageTyped
  <2>2. job' \in [kind : Kinds \cup {"none"}, by : Engines \cup {NoEngine}, mhz : Nat,
                  at : {"idle", "measure", "timing", "status", "close", "import", "roles", "capture",
                        "window", "emit", "output", "report"}]
    BY <1>0, <1>u, <1>t, EvidenceAssumption DEF TypeOK, Phase, Pages, Page, Kinds, NoEngine, Idle, NoClock
  <2>3. last' \in {"ok", "failed", "killed"}
    BY <1>0, <1>u, <1>t, EvidenceAssumption DEF TypeOK, Phase, Pages, Page, Kinds, NoEngine, Idle, NoClock
  <2>4. broken' \in BOOLEAN
    BY <1>0, <1>u, <1>t, EvidenceAssumption DEF TypeOK, Phase, Pages, Page, Kinds, NoEngine, Idle, NoClock
  <2> QED
    BY <1>0, <1>u, <2>1, <2>2, <2>3, <2>4 DEF TypeOK
<1>2. Stages'
  BY <1>0, <1>u, <1>t, EvidenceAssumption, <1>e DEF Stages, Measuring, Capturing, At, NoEngine, Idle, TypeOK
<1>3. Numbers'
  BY <1>0, <1>u, <1>t, <1>e DEF Numbers, Stages, Measuring, Capturing, At, Idle, Page
<1>4. Verdict'
  BY <1>0, <1>u, <1>t, EvidenceFrame, <1>e DEF Verdict, At, Idle
<1>5. Arms'
  BY <1>0, <1>u, <1>t, <1>e DEF Arms, Stages, Measuring, Capturing, At, Idle, NoClock, Phase
<1>6. OldRoles'
  BY <1>0, <1>u, <1>t, <1>e DEF OldRoles, Stages, Numbers, Measuring, Capturing, At
<1>7. ReportTells'
  BY <1>0, <1>u, <1>t, EvidenceFrame, <1>e DEF ReportTells, Good, At, Idle, Page
<1>8. AdviceIsSound'
  BY <1>0, <1>u, <1>t, <1>e DEF AdviceIsSound, Good, Numbers, At, Page
<1>9. OldRolesExplained'
  <2>1. CASE validation # "passed"
    BY <1>u, <2>1 DEF OldRolesExplained, Good, Page
  <2>2. CASE validation = "passed"
    <3>1. report' = Evidence /\ uncaptured' = uncaptured
      BY <1>u, <2>2
    <3>2. CASE Evidence.timing = 0 \/ Evidence.roles = 0 \/ Evidence.other
      BY <1>e, <3>1, <3>2 DEF OldRolesExplained, Pages
    <3>3. CASE Evidence.timing # 0 /\ Evidence.roles # 0 /\ ~Evidence.other
      <4>1. Evidence.timing = timing.of /\ timing.by \in Engines /\ Evidence.roles = roles[timing.by]
        BY <1>e, <3>3
      <4> QED
        BY <1>0, <3>1, <4>1 DEF OldRoles, OldRolesExplained
    <3> QED
      BY <3>2, <3>3
  <2> QED
    BY <2>1, <2>2
<1>10. DifferExplained'
  BY <1>0, <1>u, <1>t, EvidenceFrame, <1>e DEF DifferExplained, Differ, Stages, At
<1> QED
  BY <1>1, <1>2, <1>3, <1>4, <1>5, <1>6, <1>7, <1>8, <1>9, <1>10 DEF IInv

LEMMA KilledPreserves ==
  ASSUME IInv, Killed
  PROVE  IInv'
<1>0. /\ TypeOK /\ Stages /\ Numbers /\ Verdict /\ Arms /\ OldRoles
      /\ ReportTells /\ AdviceIsSound /\ OldRolesExplained /\ DifferExplained
  BY DEF IInv
<1>u. /\ UNCHANGED <<timing, roles, status, witness, report, validation, plan, n, flawed, refused, uncaptured, unsaid, alone, armOf>>
      /\ ~At("idle") /\ job' = Idle /\ last' = "killed"
      /\ (broken' <=> broken \/ At("report")) /\ broken' \in BOOLEAN
  BY DEF Killed, End, files
<1>t. /\ timing \in [of : Nat, by : Engines \cup {NoEngine}] /\ roles \in [Engines -> Nat]
      /\ witness \in [mhz : Nat, native : Phase, captured : Phase]
      /\ report \in Pages /\ plan \in Pages /\ n \in Nat
      /\ status \in [state : {"none", "skipped", "failed", "measured"}, by : Engines \cup {NoEngine}]
      /\ job \in [kind : Kinds \cup {"none"}, by : Engines \cup {NoEngine}, mhz : Nat,
                  at : {"idle", "measure", "timing", "status", "close", "import", "roles", "capture",
                        "window", "emit", "output", "report"}]
      /\ armOf \in [{"native", "captured"} -> Nat]
  BY <1>0 DEF TypeOK
<1>1. TypeOK'
  <2>1. job' \in [kind : Kinds \cup {"none"}, by : Engines \cup {NoEngine}, mhz : Nat,
                  at : {"idle", "measure", "timing", "status", "close", "import", "roles", "capture",
                        "window", "emit", "output", "report"}]
    BY <1>0, <1>u, <1>t, EvidenceAssumption DEF TypeOK, Phase, Pages, Page, Kinds, NoEngine, Idle, NoClock
  <2>2. last' \in {"ok", "failed", "killed"}
    BY <1>0, <1>u, <1>t, EvidenceAssumption DEF TypeOK, Phase, Pages, Page, Kinds, NoEngine, Idle, NoClock
  <2>3. broken' \in BOOLEAN
    BY <1>0, <1>u, <1>t, EvidenceAssumption DEF TypeOK, Phase, Pages, Page, Kinds, NoEngine, Idle, NoClock
  <2> QED
    BY <1>0, <1>u, <2>1, <2>2, <2>3 DEF TypeOK
<1>2. Stages'
  BY <1>0, <1>u, <1>t, EvidenceAssumption DEF Stages, Measuring, Capturing, At, NoEngine, Idle, TypeOK
<1>3. Numbers'
  BY <1>0, <1>u, <1>t DEF Numbers, Stages, Measuring, Capturing, At, Idle, Page
<1>4. Verdict'
  BY <1>0, <1>u, <1>t, EvidenceFrame DEF Verdict, At, Idle
<1>5. Arms'
  BY <1>0, <1>u, <1>t DEF Arms, Stages, Measuring, Capturing, At, Idle, NoClock, Phase
<1>6. OldRoles'
  BY <1>0, <1>u, <1>t DEF OldRoles, Stages, Numbers, Measuring, Capturing, At
<1>7. ReportTells'
  BY <1>0, <1>u, <1>t, EvidenceFrame DEF ReportTells, Good, At, Idle, Page
<1>8. AdviceIsSound'
  BY <1>0, <1>u, <1>t DEF AdviceIsSound, Good, Numbers, At, Page
<1>9. OldRolesExplained'
  BY <1>0, <1>u, <1>t DEF OldRolesExplained, Good, Numbers, At, Page, Pages
<1>10. DifferExplained'
  BY <1>0, <1>u, <1>t, EvidenceFrame DEF DifferExplained, Differ, Stages, At
<1> QED
  BY <1>1, <1>2, <1>3, <1>4, <1>5, <1>6, <1>7, <1>8, <1>9, <1>10 DEF IInv

LEMMA StutterPreserves ==
  ASSUME IInv, UNCHANGED vars
  PROVE  IInv'
<1>0. /\ TypeOK /\ Stages /\ Numbers /\ Verdict /\ Arms /\ OldRoles
      /\ ReportTells /\ AdviceIsSound /\ OldRolesExplained /\ DifferExplained
  BY DEF IInv
<1>u. UNCHANGED <<timing, roles, status, witness, report, validation, plan, job, n, last, flawed, refused,
                  uncaptured, unsaid, alone, armOf, broken>>
  BY DEF vars
<1>1. TypeOK'
  BY <1>0, <1>u DEF TypeOK
<1>2. Stages' /\ Numbers' /\ Arms' /\ OldRoles'
  BY <1>0, <1>u DEF Stages, Numbers, Arms, OldRoles, Measuring, Capturing, At
<1>3. Verdict' /\ ReportTells'
  BY <1>0, <1>u, EvidenceFrame DEF Verdict, ReportTells, Good, At
<1>4. AdviceIsSound' /\ OldRolesExplained' /\ DifferExplained'
  BY <1>0, <1>u DEF AdviceIsSound, OldRolesExplained, DifferExplained, Differ, Good
<1> QED
  BY <1>1, <1>2, <1>3, <1>4 DEF IInv

-----------------------------------------------------------------------------
LEMMA NextPreserves == IInv /\ [Next]_vars => IInv'
<1> SUFFICES ASSUME IInv, [Next]_vars PROVE IInv'
  OBVIOUS
<1>1. CASE \E kind \in Kinds, by \in Engines, mhz \in Clocks \cup {0} : Begin(kind, by, mhz)
  BY <1>1, BeginPreserves
<1>2. CASE PlanRefused \/ TimingOpens \/ TimingFails \/ TimingSaid \/ TimingEnds
  BY <1>2, PlanRefusedPreserves, TimingOpensPreserves, TimingFailsPreserves, TimingSaidPreserves,
     TimingEndsPreserves
<1>3. CASE RolesOpen \/ RolesCleared \/ RolesKept \/ RolesTakenBroken \/ WindowRefused
  BY <1>3, RolesOpenPreserves, RolesClearedPreserves, RolesKeptPreserves, RolesTakenBrokenPreserves,
     WindowRefusedPreserves
<1>4. CASE \E sound \in BOOLEAN : TimingTaken(sound) \/ TimingImported(sound) \/ RolesTaken(sound)
  BY <1>4, TimingTakenPreserves, TimingImportedPreserves, RolesTakenPreserves
<1>5. CASE \E notSplit \in BOOLEAN : RolesRefused(notSplit)
  BY <1>5, RolesRefusedPreserves
<1>6. CASE Emit \/ OutputJudges \/ OutputReports \/ Killed
  BY <1>6, EmitPreserves, JudgesPreserves, ReportsPreserves, KilledPreserves
<1>7. CASE UNCHANGED vars
  BY <1>7, StutterPreserves
<1> QED
  BY <1>1, <1>2, <1>3, <1>4, <1>5, <1>6, <1>7 DEF Next

LEMMA Inductive == Spec => []IInv
  BY InitEstablishes, NextPreserves, PTL DEF Spec

(* The files of a run folder hold what their writers write (screen.py,         *)
(* output.py, providers.py), for any engines, clocks and number of commands.   *)
THEOREM EvidenceTyped == Spec => []TypeOK
<1>1. IInv => TypeOK
  BY DEF IInv
<1> QED
  BY <1>1, Inductive, PTL

(* A command that ended well left a report of the evidence on file, and a      *)
(* failed verdict stands beside a report of results only after a kill between  *)
(* the two writes of output_run (output.py).                                   *)
THEOREM ReportIsOfTheEvidence == Spec => []ReportTells
<1>1. IInv => ReportTells
  BY DEF IInv
<1> QED
  BY <1>1, Inductive, PTL

(* No report and no gameplan is of evidence that does not reconcile, whichever *)
(* command was stopped where (results, gameplan.emit, output_run).             *)
THEOREM NoAdviceOnFlawedEvidence == Spec => []AdviceIsSound
<1>1. IInv => AdviceIsSound
  BY DEF IInv
<1> QED
  BY <1>1, Inductive, PTL

(* A complete clock witness is of one pass, whose step and roles are on file,  *)
(* but for those measurement_clock does not see (gpu_telemetry.py).            *)
THEOREM WitnessIsOfOnePass == Spec => []WitnessOfArms
<1>1. IInv => WitnessOfArms
  BY DEF IInv, Arms, WitnessOfArms
<1> QED
  BY <1>1, Inductive, PTL

(* Roles older than the step they are reported with stand beside a pass that   *)
(* never came to replace them, or are another engine's and the page says so    *)
(* (attribution.provider_trace, screen.loss_block).                            *)
THEOREM OldRolesAreExplained == Spec => []OldRolesExplained
<1>1. IInv => OldRolesExplained
  BY DEF IInv
<1> QED
  BY <1>1, Inductive, PTL

(* The step and the status are of different engines only after an import, a    *)
(* pass that failed or was refused, or a stop between the two (run_provider).  *)
THEOREM DifferIsExplained == Spec => []DifferExplained
<1>1. IInv => DifferExplained
  BY DEF IInv
<1> QED
  BY <1>1, Inductive, PTL
=============================================================================
