-------------------------- MODULE RunFoldersProofs --------------------------
(* Proofs about RunFolders: what a finished run and a listed save hold, and    *)
(* that saving implements SavedRun, for any names, number of commands and      *)
(* measurements, each command stopped anywhere.                                *)
EXTENDS RunFolders, TLAPS

(* The places a command passes through, and the folders it works on.           *)
Busy(c) == cmd[c].op # "none"

Shape(c) ==
  /\ ~Busy(c) => cmd[c] = Idle
  /\ Busy(c) => cmd[c].dir \in Dirs
  /\ cmd[c].op = "pipeline" =>
       /\ cmd[c].dir[1] = "work"
       /\ cmd[c].at \in {"load", "loading", "measure", "output", "updating", "writing", "report"}
  /\ cmd[c].op = "amend" =>
       cmd[c].dir[1] = "work" /\ cmd[c].at \in {"measure", "output", "updating", "writing", "report"}
  /\ cmd[c].op = "emit" => cmd[c].at \in {"output", "writing", "report"}
  /\ cmd[c].op = "save" =>
       /\ cmd[c].dir[1] = "saved"
       /\ cmd[c].at \in {"replace", "remove", "make", "copy", "output", "writing", "report",
                         "results", "record"}
  /\ cmd[c].op = "remove" => cmd[c].at \in {"replace", "remove"}

(* Two commands on one run are on record.                                      *)
Apart ==
  \A b, c \in Cmds :
    b # c /\ Busy(b) /\ Busy(c) /\ cmd[b].dir[2] = cmd[c].dir[2] => cmd[c].dir[2] \in tangled

(* Evidence is of a measurement that was taken, and only saves are recorded.   *)
Evident ==
  \A d \in Dirs :
    /\ disk[d]["evidence"] \in 0 .. made
    /\ d[1] = "work" => disk[d]["results"] = Absent /\ disk[d]["record"] = Absent

(* What a folder promises between two commands, and at most of their steps.    *)
Holds(d) ==
  d[1] = "saved" /\ is_run(d) /\ disk[d]["record"] # Absent =>
    /\ disk[d]["manifest"] = Finished
    /\ disk[d]["results"] = Shown(disk[d]["evidence"])
    /\ disk[d]["report"] = disk[d]["results"]

Reported(d) ==
  (d[1] = "saved" => disk[d]["record"] # Absent) /\ disk[d]["manifest"] = Finished =>
    disk[d]["report"] = Shown(disk[d]["evidence"])

Quiet(d) ==
  \A c \in Cmds : cmd[c].dir = d =>
    cmd[c].at \notin {"remove", "writing", "report"} /\ ~OwesReport(c)

Folder(d) ==
  d[2] \notin tangled =>
    /\ d \notin exists => \A g \in Files : disk[d][g] = Absent
    /\ d \notin cut /\ Quiet(d) => Holds(d)
    /\ d \notin behind /\ Quiet(d) => Reported(d)

(* How far a command has come with its folder, unless another is in its way.   *)
Written(c) ==
  LET d == cmd[c].dir
      file == disk[d]
      source == disk[Source(d)]
  IN
  /\ cmd[c].at = "loading" => d \in exists /\ file["manifest"] = Torn
  /\ cmd[c].op = "pipeline" /\ cmd[c].at \in {"measure", "output"} => file["manifest"] = Loaded
  /\ cmd[c].at = "updating" =>
       file["manifest"] = Torn /\ (cmd[c].op = "pipeline" => cmd[c].res = Loaded)
  /\ cmd[c].at = "writing" => file["manifest"] = Torn
  /\ cmd[c].at = "report" => file["manifest"] = Finished
  /\ /\ cmd[c].op = "emit" /\ cmd[c].at \in {"writing", "report"} /\ d[1] = "saved"
     /\ d \notin cut /\ file["record"] # Absent
     => file["results"] = Shown(file["evidence"])
  /\ cmd[c].op = "save" => cmd[c].res = Shown(source["evidence"])
  /\ cmd[c].at = "make" => d \notin exists
  /\ cmd[c].at = "copy" =>
       /\ file["record"] = Absent
       /\ "record" \notin cmd[c].left
       /\ "evidence" \in cmd[c].left \/ file["evidence"] = source["evidence"]
  /\ cmd[c].op = "save" /\ cmd[c].at \in {"output", "writing", "report", "results", "record"} =>
       file["record"] = Absent /\ file["evidence"] = source["evidence"]
  /\ cmd[c].at \in {"results", "record"} =>
       file["manifest"] = Finished /\ file["report"] = Shown(file["evidence"])
  /\ cmd[c].at = "record" => file["results"] = cmd[c].res

Progress(c) == Busy(c) /\ cmd[c].dir[2] \notin tangled => Written(c)

IInv ==
  /\ TypeOK /\ Apart /\ Evident
  /\ \A c \in Cmds : Shape(c) /\ Progress(c)
  /\ \A d \in Dirs : Folder(d)

-----------------------------------------------------------------------------
LEMMA WritesFacts ==
  ASSUME TypeOK, NEW d \in Dirs, NEW f \in Files, NEW v \in Content, Writes(d, f, v)
  PROVE  /\ disk' \in [Dirs -> [Files -> Content]]
         /\ disk'[d][f] = v
         /\ \A g \in Files : g # f => disk'[d][g] = disk[d][g]
         /\ \A e \in Dirs : e # d => disk'[e] = disk[e]
<1>1. disk \in [Dirs -> [Files -> Content]] /\ disk' = [disk EXCEPT ![d][f] = v]
  BY DEF TypeOK, Writes
<1> QED
  BY <1>1

CmdType == [op : Ops \cup {"none"}, at : Places, dir : Dirs \cup {<<>>}, left : SUBSET Files, res : Content]

LEMMA GotoFacts ==
  ASSUME TypeOK, NEW c \in Cmds, NEW p \in Places, NEW left \in SUBSET Files,
         (Goto(c, p) /\ left = cmd[c].left) \/ GotoWith(c, p, left)
  PROVE  /\ cmd' \in [Cmds -> CmdType]
         /\ cmd'[c].op = cmd[c].op /\ cmd'[c].at = p /\ cmd'[c].dir = cmd[c].dir
         /\ cmd'[c].left = left /\ cmd'[c].res = cmd[c].res
         /\ \A b \in Cmds : b # c => cmd'[b] = cmd[b]
<1>1. cmd \in [Cmds -> CmdType]
  BY DEF TypeOK, CmdType
<1>2. CASE Goto(c, p) /\ left = cmd[c].left
  BY <1>1, <1>2 DEF Goto, CmdType
<1>3. CASE GotoWith(c, p, left)
  BY <1>1, <1>3 DEF GotoWith, CmdType
<1> QED
  BY <1>2, <1>3

LEMMA DoneFacts ==
  ASSUME TypeOK, NEW c \in Cmds, Done(c)
  PROVE  /\ cmd' \in [Cmds -> CmdType] /\ cmd'[c] = Idle
         /\ \A b \in Cmds : b # c => cmd'[b] = cmd[b]
<1>1. cmd \in [Cmds -> CmdType] /\ Idle \in CmdType
  BY DEF TypeOK, CmdType, Idle, Ops, Places, Content, Absent
<1> QED
  BY <1>1 DEF Done

LEMMA IdleFacts ==
  Idle.op = "none" /\ Idle.at = "idle" /\ Idle.dir = <<>> /\ \A d \in Dirs : Idle.dir # d
  BY DEF Idle, Dirs

LEMMA SourceFacts ==
  ASSUME NEW d \in Dirs
  PROVE  Source(d) \in Dirs /\ Source(d)[1] = "work" /\ Source(d)[2] = d[2]
         /\ (d[1] = "saved" => Source(d) # d) /\ d = <<d[1], d[2]>> /\ d[1] \in {"work", "saved"} /\ d[2] \in Names
  BY DEF Source, Dirs

(* A step of one command touches its own folder and its own place only.        *)
Local(c, d) ==
  /\ \A e \in Dirs : e # d =>
       /\ disk'[e] = disk[e] /\ (e \in exists' <=> e \in exists)
       /\ (e \in cut' <=> e \in cut) /\ (e \in behind' <=> e \in behind)
  /\ \A b \in Cmds : b # c => cmd'[b] = cmd[b]
  /\ cmd'[c].dir = d \/ cmd'[c] = Idle
  /\ tangled' = tangled

LEMMA StepFrame ==
  ASSUME IInv, NEW c \in Cmds, NEW d \in Dirs, Busy(c), cmd[c].dir = d, Local(c, d),
         TypeOK', Shape(c)', Progress(c)', Folder(d)', Evident'
  PROVE  IInv'
<1>0. /\ TypeOK /\ Apart /\ Evident
      /\ \A b \in Cmds : Shape(b) /\ Progress(b)
      /\ \A e \in Dirs : Folder(e)
  BY DEF IInv
<1>1. \A b \in Cmds : b # c => cmd'[b] = cmd[b]
  BY DEF Local
<1>2. ASSUME NEW b \in Cmds PROVE Shape(b)'
  BY <1>0, <1>1 DEF Shape, Busy
<1>3. ASSUME NEW b \in Cmds PROVE Progress(b)'
  <2>1. CASE b = c
    BY <2>1
  <2>2. CASE b # c
    <3> SUFFICES ASSUME Busy(b), cmd[b].dir[2] \notin tangled PROVE Written(b)'
      BY <2>2, <1>1 DEF Progress, Busy, Local
    <3> DEFINE e == cmd[b].dir
    <3>1. e[2] # d[2] /\ e \in Dirs
      BY <1>0, <2>2 DEF Apart, Shape
    <3>2. e # d /\ Source(e) # d /\ Source(e) \in Dirs
      BY <3>1, SourceFacts
    <3>3. /\ disk'[e] = disk[e] /\ disk'[Source(e)] = disk[Source(e)]
          /\ (e \in exists' <=> e \in exists) /\ (e \in cut' <=> e \in cut)
          /\ cmd'[b] = cmd[b]
      BY <1>1, <2>2, <3>1, <3>2 DEF Local
    <3>4. Written(b)
      BY <1>0 DEF Progress
    <3> QED
      BY <3>3, <3>4 DEF Written, Source
  <2> QED
    BY <2>1, <2>2
<1>4. ASSUME NEW e \in Dirs PROVE Folder(e)'
  <2>1. CASE e = d
    BY <2>1
  <2>2. CASE e # d
    <3>1. /\ disk'[e] = disk[e] /\ tangled' = tangled
          /\ (e \in exists' <=> e \in exists)
          /\ (e \in cut' <=> e \in cut) /\ (e \in behind' <=> e \in behind)
      BY <2>2 DEF Local
    <3>2. Quiet(e)' => Quiet(e)
      BY <1>1, <2>2 DEF Quiet, OwesReport
    <3>3. (Holds(e)' <=> Holds(e)) /\ (Reported(e)' <=> Reported(e))
      BY <3>1 DEF Holds, Reported, is_run
    <3> QED
      BY <1>0, <3>1, <3>2, <3>3 DEF Folder
  <2> QED
    BY <2>1, <2>2
<1>5. Apart'
  <2>1. \A b \in Cmds : Busy(b)' => Busy(b) /\ cmd'[b].dir = cmd[b].dir
    BY <1>1, IdleFacts DEF Local, Busy
  <2> QED
    BY <1>0, <2>1 DEF Apart, Local
<1> QED
  BY <1>2, <1>3, <1>4, <1>5 DEF IInv

-----------------------------------------------------------------------------
LEMMA InitEstablishes == Init => IInv
<1> SUFFICES ASSUME Init PROVE IInv
  OBVIOUS
<1>1. /\ exists = {} /\ cut = {} /\ behind = {} /\ tangled = {} /\ made = 0 /\ starts = 0
      /\ \A d \in Dirs, f \in Files : disk[d][f] = Absent
      /\ \A c \in Cmds : cmd[c] = Idle
  BY DEF Init
<1>2. TypeOK
  <2>1. disk \in [Dirs -> [Files -> Content]]
    BY DEF Init, Content, Absent
  <2>2. Idle \in CmdType
    BY DEF CmdType, Idle, Ops, Places, Content, Absent
  <2>3. cmd \in [Cmds -> CmdType]
    BY <2>2 DEF Init
  <2> QED
    BY <1>1, <2>1, <2>3 DEF TypeOK, CmdType
<1>3. Apart /\ \A c \in Cmds : Shape(c) /\ Progress(c)
  BY <1>1, IdleFacts DEF Apart, Shape, Progress, Busy
<1>4. Evident
  BY <1>1 DEF Evident, Files, Absent
<1>5. ASSUME NEW d \in Dirs PROVE Folder(d)
  <2>1. ~is_run(d) /\ disk[d]["manifest"] # Finished
    BY <1>1 DEF is_run, Finished, Absent, Files
  <2> QED
    BY <1>1, <2>1 DEF Folder, Holds, Reported
<1> QED
  BY <1>2, <1>3, <1>4, <1>5 DEF IInv

-----------------------------------------------------------------------------

LEMMA LoadWritesPreserves ==
  ASSUME IInv, NEW c \in Cmds, LoadWrites(c)
  PROVE  IInv' /\ Busy(c) /\ cmd[c].dir \in Dirs /\ Local(c, cmd[c].dir)
<1>d. PICK d : d = cmd[c].dir
  OBVIOUS
<1>0. /\ TypeOK /\ Apart /\ Evident /\ Shape(c) /\ Progress(c)
      /\ \A e \in Dirs : Folder(e)
  BY DEF IInv
<1>1. /\ cmd[c].at = "load"
      /\ exists' = exists \cup {d} /\ cut' = cut /\ behind' = behind /\ made' = made
      /\ starts' = starts /\ tangled' = tangled
  BY <1>0, <1>d DEF LoadWrites, history
<1>2. /\ Busy(c) /\ d \in Dirs /\ cmd[c].op \in {"pipeline"}
      /\ d[1] \in {"work", "saved"}
      /\ cmd[c].op \in {"pipeline", "amend"} => d[1] = "work"
      /\ cmd[c].op = "save" => d[1] = "saved" /\ Source(d) \in Dirs /\ Source(d) # d
  <2>1. cmd[c] # Idle
    BY <1>1, IdleFacts
  <2>2. Busy(c) /\ d \in Dirs /\ cmd[c].op \in Ops
    BY <1>0, <1>d, <2>1 DEF Shape, Busy, TypeOK
  <2> QED
    BY <1>0, <1>1, <1>d, <2>2, SourceFacts DEF Shape, Ops
<1>3. /\ disk' \in [Dirs -> [Files -> Content]]
      /\ \A e \in Dirs : e # d => disk'[e] = disk[e]
      /\ disk'[d]["manifest"] = Torn
      /\ disk'[d]["evidence"] = disk[d]["evidence"]
      /\ disk'[d]["report"] = disk[d]["report"]
      /\ disk'[d]["results"] = disk[d]["results"]
      /\ disk'[d]["record"] = disk[d]["record"]
  <2>1. Torn \in Content
    BY <1>0, <1>1, <1>2, <1>d DEF TypeOK, Content, Torn, Blank, Absent, Loaded, Finished, Shown, Files, CmdType
  <2>2. Writes(d, "manifest", Torn)
    BY <1>d DEF LoadWrites
  <2>3. "manifest" \in Files
    BY DEF Files
  <2>4. /\ disk' \in [Dirs -> [Files -> Content]] /\ disk'[d]["manifest"] = Torn
        /\ \A g \in Files : g # "manifest" => disk'[d][g] = disk[d][g]
        /\ \A e \in Dirs : e # d => disk'[e] = disk[e]
    BY <1>0, <1>2, <2>1, <2>2, <2>3, WritesFacts
  <2> QED
    BY <2>4 DEF Files
<1>4. /\ cmd' \in [Cmds -> CmdType]
      /\ cmd'[c].op = cmd[c].op /\ cmd'[c].at = "loading" /\ cmd'[c].dir = d
      /\ cmd'[c].left = cmd[c].left /\ cmd'[c].res = cmd[c].res
      /\ \A b \in Cmds : b # c => cmd'[b] = cmd[b]
  <2>1. (Goto(c, "loading") /\ cmd[c].left = cmd[c].left) \/ GotoWith(c, "loading", cmd[c].left)
    BY <1>1, <1>2, <1>d DEF LoadWrites
  <2>2. "loading" \in Places /\ cmd[c].left \in SUBSET Files
    BY <1>0 DEF Places, TypeOK, Present
  <2> QED
    BY <1>0, <1>d, <2>1, <2>2, GotoFacts
<1>5. TypeOK'
  BY <1>0, <1>1, <1>2, <1>3, <1>4, <1>d DEF TypeOK, CmdType
<1>6. Local(c, d)
  BY <1>0, <1>1, <1>2, <1>3, <1>4, <1>d DEF Local
<1>7. Shape(c)'
  BY <1>0, <1>1, <1>2, <1>3, <1>4, <1>d, IdleFacts DEF Shape, Busy
<1>8. Evident'
  BY <1>0, <1>1, <1>2, <1>3, <1>4, <1>d DEF Evident, TypeOK, Absent, Torn, Blank, Shown, Loaded, Finished
<1>9. Progress(c)'
  <2> SUFFICES ASSUME Busy(c)', d[2] \notin tangled PROVE Written(c)'
    BY <1>1, <1>4, IdleFacts DEF Progress, Busy
  <2>1. Written(c)
    BY <1>0, <1>2, <1>d DEF Progress
  <2>2. Folder(d)
    BY <1>0, <1>2
  <2> QED
    BY <1>0, <1>1, <1>2, <1>3, <1>4, <1>d, <2>1, <2>2, IdleFacts DEF Written, Folder, Source, Busy, Files, Absent, Torn, Blank, Loaded, Finished, Shown
<1>10. Folder(d)'
  <2> SUFFICES ASSUME d[2] \notin tangled
               PROVE  /\ d \notin exists' => \A g \in Files : disk'[d][g] = Absent
                      /\ d \notin cut' /\ Quiet(d)' => Holds(d)'
                      /\ d \notin behind' /\ Quiet(d)' => Reported(d)'
    BY <1>1 DEF Folder
  <2>1. Written(c)
    BY <1>0, <1>1, <1>2, <1>d DEF Progress
  <2>2. /\ d \notin exists => \A g \in Files : disk[d][g] = Absent
        /\ d \notin cut /\ Quiet(d) => Holds(d)
        /\ d \notin behind /\ Quiet(d) => Reported(d)
    BY <1>0, <1>2 DEF Folder
  <2>3. \A b \in Cmds : b # c /\ Busy(b) => cmd[b].dir # d
    BY <1>0, <1>2, <1>d DEF Apart
  <2>4. \A b \in Cmds : b # c => cmd[b].dir # d
    BY <2>3, <1>2, IdleFacts DEF IInv, Shape
  <2>5. d \notin exists' => \A g \in Files : disk'[d][g] = Absent
    BY <1>0, <1>1, <1>2, <1>3, <1>4, <1>d, <2>1, <2>2 DEF Written, Files, Absent, Loaded, Finished, Torn, Present
  <2>6. ASSUME d \notin cut', Quiet(d)' PROVE Holds(d)'
    BY <1>0, <1>1, <1>2, <1>3, <1>4, <1>d, <2>1, <2>2, <2>4, <2>6, IdleFacts DEF Written, Holds, Quiet, OwesReport, is_run, Absent, Loaded, Finished, Torn, Blank, Shown, Files
  <2>7. ASSUME d \notin behind', Quiet(d)' PROVE Reported(d)'
    BY <1>0, <1>1, <1>2, <1>3, <1>4, <1>d, <2>1, <2>2, <2>4, <2>7, IdleFacts DEF Written, Reported, Quiet, OwesReport, is_run, Absent, Loaded, Finished, Torn, Blank, Shown, Files
  <2> QED
    BY <2>5, <2>6, <2>7
<1> QED
  BY <1>2, <1>5, <1>6, <1>7, <1>8, <1>9, <1>10, <1>d, StepFrame

LEMMA LoadEndsPreserves ==
  ASSUME IInv, NEW c \in Cmds, LoadEnds(c)
  PROVE  IInv' /\ Busy(c) /\ cmd[c].dir \in Dirs /\ Local(c, cmd[c].dir)
<1>d. PICK d : d = cmd[c].dir
  OBVIOUS
<1>0. /\ TypeOK /\ Apart /\ Evident /\ Shape(c) /\ Progress(c)
      /\ \A e \in Dirs : Folder(e)
  BY DEF IInv
<1>1. /\ cmd[c].at = "loading"
      /\ exists' = exists /\ cut' = cut /\ behind' = behind \ {d} /\ made' = made
      /\ starts' = starts /\ tangled' = tangled
  BY <1>0, <1>d DEF LoadEnds, history
<1>2. /\ Busy(c) /\ d \in Dirs /\ cmd[c].op \in {"pipeline"}
      /\ d[1] \in {"work", "saved"}
      /\ cmd[c].op \in {"pipeline", "amend"} => d[1] = "work"
      /\ cmd[c].op = "save" => d[1] = "saved" /\ Source(d) \in Dirs /\ Source(d) # d
  <2>1. cmd[c] # Idle
    BY <1>1, IdleFacts
  <2>2. Busy(c) /\ d \in Dirs /\ cmd[c].op \in Ops
    BY <1>0, <1>d, <2>1 DEF Shape, Busy, TypeOK
  <2> QED
    BY <1>0, <1>1, <1>d, <2>2, SourceFacts DEF Shape, Ops
<1>3. /\ disk' \in [Dirs -> [Files -> Content]]
      /\ \A e \in Dirs : e # d => disk'[e] = disk[e]
      /\ disk'[d]["manifest"] = Loaded
      /\ disk'[d]["evidence"] = disk[d]["evidence"]
      /\ disk'[d]["report"] = disk[d]["report"]
      /\ disk'[d]["results"] = disk[d]["results"]
      /\ disk'[d]["record"] = disk[d]["record"]
  <2>1. Loaded \in Content
    BY <1>0, <1>1, <1>2, <1>d DEF TypeOK, Content, Torn, Blank, Absent, Loaded, Finished, Shown, Files, CmdType
  <2>2. Writes(d, "manifest", Loaded)
    BY <1>d DEF LoadEnds
  <2>3. "manifest" \in Files
    BY DEF Files
  <2>4. /\ disk' \in [Dirs -> [Files -> Content]] /\ disk'[d]["manifest"] = Loaded
        /\ \A g \in Files : g # "manifest" => disk'[d][g] = disk[d][g]
        /\ \A e \in Dirs : e # d => disk'[e] = disk[e]
    BY <1>0, <1>2, <2>1, <2>2, <2>3, WritesFacts
  <2> QED
    BY <2>4 DEF Files
<1>4. /\ cmd' \in [Cmds -> CmdType]
      /\ cmd'[c].op = cmd[c].op /\ cmd'[c].at = "measure" /\ cmd'[c].dir = d
      /\ cmd'[c].left = cmd[c].left /\ cmd'[c].res = cmd[c].res
      /\ \A b \in Cmds : b # c => cmd'[b] = cmd[b]
  <2>1. (Goto(c, "measure") /\ cmd[c].left = cmd[c].left) \/ GotoWith(c, "measure", cmd[c].left)
    BY <1>1, <1>2, <1>d DEF LoadEnds
  <2>2. "measure" \in Places /\ cmd[c].left \in SUBSET Files
    BY <1>0 DEF Places, TypeOK, Present
  <2> QED
    BY <1>0, <1>d, <2>1, <2>2, GotoFacts
<1>5. TypeOK'
  BY <1>0, <1>1, <1>2, <1>3, <1>4, <1>d DEF TypeOK, CmdType
<1>6. Local(c, d)
  BY <1>0, <1>1, <1>2, <1>3, <1>4, <1>d DEF Local
<1>7. Shape(c)'
  BY <1>0, <1>1, <1>2, <1>3, <1>4, <1>d, IdleFacts DEF Shape, Busy
<1>8. Evident'
  BY <1>0, <1>1, <1>2, <1>3, <1>4, <1>d DEF Evident, TypeOK, Absent, Torn, Blank, Shown, Loaded, Finished
<1>9. Progress(c)'
  <2> SUFFICES ASSUME Busy(c)', d[2] \notin tangled PROVE Written(c)'
    BY <1>1, <1>4, IdleFacts DEF Progress, Busy
  <2>1. Written(c)
    BY <1>0, <1>2, <1>d DEF Progress
  <2>2. Folder(d)
    BY <1>0, <1>2
  <2> QED
    BY <1>0, <1>1, <1>2, <1>3, <1>4, <1>d, <2>1, <2>2, IdleFacts DEF Written, Folder, Source, Busy, Files, Absent, Torn, Blank, Loaded, Finished, Shown
<1>10. Folder(d)'
  <2> SUFFICES ASSUME d[2] \notin tangled
               PROVE  /\ d \notin exists' => \A g \in Files : disk'[d][g] = Absent
                      /\ d \notin cut' /\ Quiet(d)' => Holds(d)'
                      /\ d \notin behind' /\ Quiet(d)' => Reported(d)'
    BY <1>1 DEF Folder
  <2>1. Written(c)
    BY <1>0, <1>1, <1>2, <1>d DEF Progress
  <2>2. /\ d \notin exists => \A g \in Files : disk[d][g] = Absent
        /\ d \notin cut /\ Quiet(d) => Holds(d)
        /\ d \notin behind /\ Quiet(d) => Reported(d)
    BY <1>0, <1>2 DEF Folder
  <2>3. \A b \in Cmds : b # c /\ Busy(b) => cmd[b].dir # d
    BY <1>0, <1>2, <1>d DEF Apart
  <2>4. \A b \in Cmds : b # c => cmd[b].dir # d
    BY <2>3, <1>2, IdleFacts DEF IInv, Shape
  <2>5. d \notin exists' => \A g \in Files : disk'[d][g] = Absent
    BY <1>0, <1>1, <1>2, <1>3, <1>4, <1>d, <2>1, <2>2 DEF Written, Files, Absent, Loaded, Finished, Torn, Present
  <2>6. ASSUME d \notin cut', Quiet(d)' PROVE Holds(d)'
    BY <1>0, <1>1, <1>2, <1>3, <1>4, <1>d, <2>1, <2>2, <2>4, <2>6, IdleFacts DEF Written, Holds, Quiet, OwesReport, is_run, Absent, Loaded, Finished, Torn, Blank, Shown, Files
  <2>7. ASSUME d \notin behind', Quiet(d)' PROVE Reported(d)'
    BY <1>0, <1>1, <1>2, <1>3, <1>4, <1>d, <2>1, <2>2, <2>4, <2>7, IdleFacts DEF Written, Reported, Quiet, OwesReport, is_run, Absent, Loaded, Finished, Torn, Blank, Shown, Files
  <2> QED
    BY <2>5, <2>6, <2>7
<1> QED
  BY <1>2, <1>5, <1>6, <1>7, <1>8, <1>9, <1>10, <1>d, StepFrame

LEMMA MeasurePreserves ==
  ASSUME IInv, NEW c \in Cmds, Measure(c)
  PROVE  IInv' /\ Busy(c) /\ cmd[c].dir \in Dirs /\ Local(c, cmd[c].dir)
<1>d. PICK d : d = cmd[c].dir
  OBVIOUS
<1>0. /\ TypeOK /\ Apart /\ Evident /\ Shape(c) /\ Progress(c)
      /\ \A e \in Dirs : Folder(e)
  BY DEF IInv
<1>1. /\ cmd[c].at = "measure" /\ disk[d]["manifest"] \in {Loaded, Finished}
      /\ exists' = exists /\ cut' = cut /\ behind' = behind /\ made' = made + 1
      /\ starts' = starts /\ tangled' = tangled
  BY <1>0, <1>d DEF Measure, history
<1>2. /\ Busy(c) /\ d \in Dirs /\ cmd[c].op \in {"pipeline", "amend"}
      /\ d[1] \in {"work", "saved"}
      /\ cmd[c].op \in {"pipeline", "amend"} => d[1] = "work"
      /\ cmd[c].op = "save" => d[1] = "saved" /\ Source(d) \in Dirs /\ Source(d) # d
  <2>1. cmd[c] # Idle
    BY <1>1, IdleFacts
  <2>2. Busy(c) /\ d \in Dirs /\ cmd[c].op \in Ops
    BY <1>0, <1>d, <2>1 DEF Shape, Busy, TypeOK
  <2> QED
    BY <1>0, <1>1, <1>d, <2>2, SourceFacts DEF Shape, Ops
<1>3. /\ disk' \in [Dirs -> [Files -> Content]]
      /\ \A e \in Dirs : e # d => disk'[e] = disk[e]
      /\ disk'[d]["manifest"] = disk[d]["manifest"]
      /\ disk'[d]["evidence"] = made + 1
      /\ disk'[d]["report"] = disk[d]["report"]
      /\ disk'[d]["results"] = disk[d]["results"]
      /\ disk'[d]["record"] = disk[d]["record"]
  <2>1. made + 1 \in Content
    BY <1>0, <1>1, <1>2, <1>d DEF TypeOK, Content, Torn, Blank, Absent, Loaded, Finished, Shown, Files, CmdType
  <2>2. Writes(d, "evidence", made + 1)
    BY <1>d DEF Measure
  <2>3. "evidence" \in Files
    BY DEF Files
  <2>4. /\ disk' \in [Dirs -> [Files -> Content]] /\ disk'[d]["evidence"] = made + 1
        /\ \A g \in Files : g # "evidence" => disk'[d][g] = disk[d][g]
        /\ \A e \in Dirs : e # d => disk'[e] = disk[e]
    BY <1>0, <1>2, <2>1, <2>2, <2>3, WritesFacts
  <2> QED
    BY <2>4 DEF Files
<1>4. /\ cmd' \in [Cmds -> CmdType]
      /\ cmd'[c].op = cmd[c].op /\ cmd'[c].at = "output" /\ cmd'[c].dir = d
      /\ cmd'[c].left = cmd[c].left /\ cmd'[c].res = cmd[c].res
      /\ \A b \in Cmds : b # c => cmd'[b] = cmd[b]
  <2>1. (Goto(c, "output") /\ cmd[c].left = cmd[c].left) \/ GotoWith(c, "output", cmd[c].left)
    BY <1>1, <1>2, <1>d DEF Measure
  <2>2. "output" \in Places /\ cmd[c].left \in SUBSET Files
    BY <1>0 DEF Places, TypeOK, Present
  <2> QED
    BY <1>0, <1>d, <2>1, <2>2, GotoFacts
<1>5. TypeOK'
  BY <1>0, <1>1, <1>2, <1>3, <1>4, <1>d DEF TypeOK, CmdType
<1>6. Local(c, d)
  BY <1>0, <1>1, <1>2, <1>3, <1>4, <1>d DEF Local
<1>7. Shape(c)'
  BY <1>0, <1>1, <1>2, <1>3, <1>4, <1>d, IdleFacts DEF Shape, Busy
<1>8. Evident'
  <2> SUFFICES ASSUME NEW e \in Dirs
               PROVE  /\ disk'[e]["evidence"] \in 0 .. made + 1
                      /\ e[1] = "work" => disk'[e]["results"] = Absent /\ disk'[e]["record"] = Absent
    BY <1>1 DEF Evident
  <2>1. made \in Nat
    BY <1>0 DEF TypeOK
  <2>2. CASE e = d
    BY <1>0, <1>2, <1>3, <2>1, <2>2 DEF Evident
  <2>3. CASE e # d
    BY <1>0, <1>3, <2>1, <2>3 DEF Evident
  <2> QED
    BY <2>2, <2>3
<1>9. Progress(c)'
  <2> SUFFICES ASSUME Busy(c)', d[2] \notin tangled PROVE Written(c)'
    BY <1>1, <1>4, IdleFacts DEF Progress, Busy
  <2>1. Written(c)
    BY <1>0, <1>2, <1>d DEF Progress
  <2>2. Folder(d)
    BY <1>0, <1>2
  <2> QED
    BY <1>0, <1>1, <1>2, <1>3, <1>4, <1>d, <2>1, <2>2, IdleFacts DEF Written, Folder, Source, Busy, Files, Absent, Torn, Blank, Loaded, Finished, Shown
<1>10. Folder(d)'
  <2> SUFFICES ASSUME d[2] \notin tangled
               PROVE  /\ d \notin exists' => \A g \in Files : disk'[d][g] = Absent
                      /\ d \notin cut' /\ Quiet(d)' => Holds(d)'
                      /\ d \notin behind' /\ Quiet(d)' => Reported(d)'
    BY <1>1 DEF Folder
  <2>1. Written(c)
    BY <1>0, <1>1, <1>2, <1>d DEF Progress
  <2>2. /\ d \notin exists => \A g \in Files : disk[d][g] = Absent
        /\ d \notin cut /\ Quiet(d) => Holds(d)
        /\ d \notin behind /\ Quiet(d) => Reported(d)
    BY <1>0, <1>2 DEF Folder
  <2>3. \A b \in Cmds : b # c /\ Busy(b) => cmd[b].dir # d
    BY <1>0, <1>2, <1>d DEF Apart
  <2>4. \A b \in Cmds : b # c => cmd[b].dir # d
    BY <2>3, <1>2, IdleFacts DEF IInv, Shape
  <2>5. d \notin exists' => \A g \in Files : disk'[d][g] = Absent
    BY <1>0, <1>1, <1>2, <1>3, <1>4, <1>d, <2>1, <2>2 DEF Written, Files, Absent, Loaded, Finished, Torn, Present
  <2>6. ASSUME d \notin cut', Quiet(d)' PROVE Holds(d)'
    BY <1>0, <1>1, <1>2, <1>3, <1>4, <1>d, <2>1, <2>2, <2>4, <2>6, IdleFacts DEF Written, Holds, Quiet, OwesReport, is_run, Absent, Loaded, Finished, Torn, Blank, Shown, Files
  <2>7. ASSUME d \notin behind', Quiet(d)' PROVE Reported(d)'
    BY <1>0, <1>1, <1>2, <1>3, <1>4, <1>d, <2>1, <2>2, <2>4, <2>7, IdleFacts DEF Written, Reported, Quiet, OwesReport, is_run, Absent, Loaded, Finished, Torn, Blank, Shown, Files
  <2> QED
    BY <2>5, <2>6, <2>7
<1> QED
  BY <1>2, <1>5, <1>6, <1>7, <1>8, <1>9, <1>10, <1>d, StepFrame

LEMMA MeasureRefusedPreserves ==
  ASSUME IInv, NEW c \in Cmds, MeasureRefused(c)
  PROVE  IInv' /\ Busy(c) /\ cmd[c].dir \in Dirs /\ Local(c, cmd[c].dir)
<1>d. PICK d : d = cmd[c].dir
  OBVIOUS
<1>0. /\ TypeOK /\ Apart /\ Evident /\ Shape(c) /\ Progress(c)
      /\ \A e \in Dirs : Folder(e)
  BY DEF IInv
<1>1. /\ cmd[c].op = "pipeline" /\ cmd[c].at = "measure" /\ disk[d]["manifest"] \in {Loaded, Finished}
      /\ exists' = exists /\ cut' = cut /\ behind' = behind /\ made' = made
      /\ starts' = starts /\ tangled' = tangled
  BY <1>0, <1>d DEF MeasureRefused, history
<1>2. /\ Busy(c) /\ d \in Dirs /\ cmd[c].op \in {"pipeline"}
      /\ d[1] \in {"work", "saved"}
      /\ cmd[c].op \in {"pipeline", "amend"} => d[1] = "work"
      /\ cmd[c].op = "save" => d[1] = "saved" /\ Source(d) \in Dirs /\ Source(d) # d
  <2>1. cmd[c] # Idle
    BY <1>1, IdleFacts
  <2>2. Busy(c) /\ d \in Dirs /\ cmd[c].op \in Ops
    BY <1>0, <1>d, <2>1 DEF Shape, Busy, TypeOK
  <2> QED
    BY <1>0, <1>1, <1>d, <2>2, SourceFacts DEF Shape, Ops
<1>3. disk' = disk /\ disk' \in [Dirs -> [Files -> Content]]
  BY <1>0 DEF TypeOK, MeasureRefused, history
<1>4. /\ cmd' \in [Cmds -> CmdType]
      /\ cmd'[c].op = cmd[c].op /\ cmd'[c].at = "output" /\ cmd'[c].dir = d
      /\ cmd'[c].left = cmd[c].left /\ cmd'[c].res = cmd[c].res
      /\ \A b \in Cmds : b # c => cmd'[b] = cmd[b]
  <2>1. (Goto(c, "output") /\ cmd[c].left = cmd[c].left) \/ GotoWith(c, "output", cmd[c].left)
    BY <1>1, <1>2, <1>d DEF MeasureRefused
  <2>2. "output" \in Places /\ cmd[c].left \in SUBSET Files
    BY <1>0 DEF Places, TypeOK, Present
  <2> QED
    BY <1>0, <1>d, <2>1, <2>2, GotoFacts
<1>5. TypeOK'
  BY <1>0, <1>1, <1>2, <1>3, <1>4, <1>d DEF TypeOK, CmdType
<1>6. Local(c, d)
  BY <1>0, <1>1, <1>2, <1>3, <1>4, <1>d DEF Local
<1>7. Shape(c)'
  BY <1>0, <1>1, <1>2, <1>3, <1>4, <1>d, IdleFacts DEF Shape, Busy
<1>8. Evident'
  BY <1>0, <1>1, <1>2, <1>3, <1>4, <1>d DEF Evident, TypeOK, Absent, Torn, Blank, Shown, Loaded, Finished
<1>9. Progress(c)'
  <2> SUFFICES ASSUME Busy(c)', d[2] \notin tangled PROVE Written(c)'
    BY <1>1, <1>4, IdleFacts DEF Progress, Busy
  <2>1. Written(c)
    BY <1>0, <1>2, <1>d DEF Progress
  <2>2. Folder(d)
    BY <1>0, <1>2
  <2> QED
    BY <1>0, <1>1, <1>2, <1>3, <1>4, <1>d, <2>1, <2>2, IdleFacts DEF Written, Folder, Source, Busy, Files, Absent, Torn, Blank, Loaded, Finished, Shown
<1>10. Folder(d)'
  <2> SUFFICES ASSUME d[2] \notin tangled
               PROVE  /\ d \notin exists' => \A g \in Files : disk'[d][g] = Absent
                      /\ d \notin cut' /\ Quiet(d)' => Holds(d)'
                      /\ d \notin behind' /\ Quiet(d)' => Reported(d)'
    BY <1>1 DEF Folder
  <2>1. Written(c)
    BY <1>0, <1>1, <1>2, <1>d DEF Progress
  <2>2. /\ d \notin exists => \A g \in Files : disk[d][g] = Absent
        /\ d \notin cut /\ Quiet(d) => Holds(d)
        /\ d \notin behind /\ Quiet(d) => Reported(d)
    BY <1>0, <1>2 DEF Folder
  <2>3. \A b \in Cmds : b # c /\ Busy(b) => cmd[b].dir # d
    BY <1>0, <1>2, <1>d DEF Apart
  <2>4. \A b \in Cmds : b # c => cmd[b].dir # d
    BY <2>3, <1>2, IdleFacts DEF IInv, Shape
  <2>5. d \notin exists' => \A g \in Files : disk'[d][g] = Absent
    BY <1>0, <1>1, <1>2, <1>3, <1>4, <1>d, <2>1, <2>2 DEF Written, Files, Absent, Loaded, Finished, Torn, Present
  <2>6. ASSUME d \notin cut', Quiet(d)' PROVE Holds(d)'
    BY <1>0, <1>1, <1>2, <1>3, <1>4, <1>d, <2>1, <2>2, <2>4, <2>6, IdleFacts DEF Written, Holds, Quiet, OwesReport, is_run, Absent, Loaded, Finished, Torn, Blank, Shown, Files
  <2>7. ASSUME d \notin behind', Quiet(d)' PROVE Reported(d)'
    BY <1>0, <1>1, <1>2, <1>3, <1>4, <1>d, <2>1, <2>2, <2>4, <2>7, IdleFacts DEF Written, Reported, Quiet, OwesReport, is_run, Absent, Loaded, Finished, Torn, Blank, Shown, Files
  <2> QED
    BY <2>5, <2>6, <2>7
<1> QED
  BY <1>2, <1>5, <1>6, <1>7, <1>8, <1>9, <1>10, <1>d, StepFrame

LEMMA StageUpdatesPreserves ==
  ASSUME IInv, NEW c \in Cmds, StageUpdates(c)
  PROVE  IInv' /\ Busy(c) /\ cmd[c].dir \in Dirs /\ Local(c, cmd[c].dir)
<1>d. PICK d : d = cmd[c].dir
  OBVIOUS
<1>0. /\ TypeOK /\ Apart /\ Evident /\ Shape(c) /\ Progress(c)
      /\ \A e \in Dirs : Folder(e)
  BY DEF IInv
<1>1. /\ cmd[c].op \in {"pipeline", "amend"} /\ cmd[c].at = "output"
      /\ disk[d]["manifest"] \in {Loaded, Finished}
      /\ exists' = exists /\ cut' = cut /\ behind' = behind /\ made' = made
      /\ starts' = starts /\ tangled' = tangled
  BY <1>0, <1>d DEF StageUpdates, history
<1>2. /\ Busy(c) /\ d \in Dirs /\ cmd[c].op \in {"pipeline", "amend"}
      /\ d[1] \in {"work", "saved"}
      /\ cmd[c].op \in {"pipeline", "amend"} => d[1] = "work"
      /\ cmd[c].op = "save" => d[1] = "saved" /\ Source(d) \in Dirs /\ Source(d) # d
  <2>1. cmd[c] # Idle
    BY <1>1, IdleFacts
  <2>2. Busy(c) /\ d \in Dirs /\ cmd[c].op \in Ops
    BY <1>0, <1>d, <2>1 DEF Shape, Busy, TypeOK
  <2> QED
    BY <1>0, <1>1, <1>d, <2>2, SourceFacts DEF Shape, Ops
<1>3. /\ disk' \in [Dirs -> [Files -> Content]]
      /\ \A e \in Dirs : e # d => disk'[e] = disk[e]
      /\ disk'[d]["manifest"] = Torn
      /\ disk'[d]["evidence"] = disk[d]["evidence"]
      /\ disk'[d]["report"] = disk[d]["report"]
      /\ disk'[d]["results"] = disk[d]["results"]
      /\ disk'[d]["record"] = disk[d]["record"]
  <2>1. Torn \in Content
    BY <1>0, <1>1, <1>2, <1>d DEF TypeOK, Content, Torn, Blank, Absent, Loaded, Finished, Shown, Files, CmdType
  <2>2. Writes(d, "manifest", Torn)
    BY <1>d DEF StageUpdates
  <2>3. "manifest" \in Files
    BY DEF Files
  <2>4. /\ disk' \in [Dirs -> [Files -> Content]] /\ disk'[d]["manifest"] = Torn
        /\ \A g \in Files : g # "manifest" => disk'[d][g] = disk[d][g]
        /\ \A e \in Dirs : e # d => disk'[e] = disk[e]
    BY <1>0, <1>2, <2>1, <2>2, <2>3, WritesFacts
  <2> QED
    BY <2>4 DEF Files
<1>4. /\ cmd' \in [Cmds -> CmdType]
      /\ cmd'[c].op = cmd[c].op /\ cmd'[c].at = "updating" /\ cmd'[c].dir = d
      /\ cmd'[c].left = cmd[c].left /\ cmd'[c].res = disk[d]["manifest"]
      /\ \A b \in Cmds : b # c => cmd'[b] = cmd[b]
  <2>1. cmd' = [cmd EXCEPT ![c].at = "updating", ![c].res = disk[d]["manifest"]]
    BY <1>d DEF StageUpdates
  <2>2. cmd \in [Cmds -> CmdType] /\ "updating" \in Places /\ disk[d]["manifest"] \in Content
    BY <1>0, <1>1 DEF TypeOK, CmdType, Places, Content, Loaded, Finished
  <2> QED
    BY <1>d, <2>1, <2>2 DEF CmdType
<1>5. TypeOK'
  BY <1>0, <1>1, <1>2, <1>3, <1>4, <1>d DEF TypeOK, CmdType
<1>6. Local(c, d)
  BY <1>0, <1>1, <1>2, <1>3, <1>4, <1>d DEF Local
<1>7. Shape(c)'
  BY <1>0, <1>1, <1>2, <1>3, <1>4, <1>d, IdleFacts DEF Shape, Busy
<1>8. Evident'
  BY <1>0, <1>1, <1>2, <1>3, <1>4, <1>d DEF Evident, TypeOK, Absent, Torn, Blank, Shown, Loaded, Finished
<1>9. Progress(c)'
  <2> SUFFICES ASSUME Busy(c)', d[2] \notin tangled PROVE Written(c)'
    BY <1>1, <1>4, IdleFacts DEF Progress, Busy
  <2>1. Written(c)
    BY <1>0, <1>2, <1>d DEF Progress
  <2>2. Folder(d)
    BY <1>0, <1>2
  <2> QED
    BY <1>0, <1>1, <1>2, <1>3, <1>4, <1>d, <2>1, <2>2, IdleFacts DEF Written, Folder, Source, Busy, Files, Absent, Torn, Blank, Loaded, Finished, Shown
<1>10. Folder(d)'
  <2> SUFFICES ASSUME d[2] \notin tangled
               PROVE  /\ d \notin exists' => \A g \in Files : disk'[d][g] = Absent
                      /\ d \notin cut' /\ Quiet(d)' => Holds(d)'
                      /\ d \notin behind' /\ Quiet(d)' => Reported(d)'
    BY <1>1 DEF Folder
  <2>1. Written(c)
    BY <1>0, <1>1, <1>2, <1>d DEF Progress
  <2>2. /\ d \notin exists => \A g \in Files : disk[d][g] = Absent
        /\ d \notin cut /\ Quiet(d) => Holds(d)
        /\ d \notin behind /\ Quiet(d) => Reported(d)
    BY <1>0, <1>2 DEF Folder
  <2>3. \A b \in Cmds : b # c /\ Busy(b) => cmd[b].dir # d
    BY <1>0, <1>2, <1>d DEF Apart
  <2>4. \A b \in Cmds : b # c => cmd[b].dir # d
    BY <2>3, <1>2, IdleFacts DEF IInv, Shape
  <2>5. d \notin exists' => \A g \in Files : disk'[d][g] = Absent
    BY <1>0, <1>1, <1>2, <1>3, <1>4, <1>d, <2>1, <2>2 DEF Written, Files, Absent, Loaded, Finished, Torn, Present
  <2>6. ASSUME d \notin cut', Quiet(d)' PROVE Holds(d)'
    BY <1>0, <1>1, <1>2, <1>3, <1>4, <1>d, <2>1, <2>2, <2>4, <2>6, IdleFacts DEF Written, Holds, Quiet, OwesReport, is_run, Absent, Loaded, Finished, Torn, Blank, Shown, Files
  <2>7. ASSUME d \notin behind', Quiet(d)' PROVE Reported(d)'
    BY <1>0, <1>1, <1>2, <1>3, <1>4, <1>d, <2>1, <2>2, <2>4, <2>7, IdleFacts DEF Written, Reported, Quiet, OwesReport, is_run, Absent, Loaded, Finished, Torn, Blank, Shown, Files
  <2> QED
    BY <2>5, <2>6, <2>7
<1> QED
  BY <1>2, <1>5, <1>6, <1>7, <1>8, <1>9, <1>10, <1>d, StepFrame

LEMMA StageUpdatedPreserves ==
  ASSUME IInv, NEW c \in Cmds, StageUpdated(c)
  PROVE  IInv' /\ Busy(c) /\ cmd[c].dir \in Dirs /\ Local(c, cmd[c].dir)
<1>d. PICK d : d = cmd[c].dir
  OBVIOUS
<1>0. /\ TypeOK /\ Apart /\ Evident /\ Shape(c) /\ Progress(c)
      /\ \A e \in Dirs : Folder(e)
  BY DEF IInv
<1>1. /\ cmd[c].at = "updating"
      /\ exists' = exists \cup {d} /\ cut' = cut /\ behind' = behind /\ made' = made
      /\ starts' = starts /\ tangled' = tangled
  BY <1>0, <1>d DEF StageUpdated, history
<1>2. /\ Busy(c) /\ d \in Dirs /\ cmd[c].op \in {"pipeline", "amend"}
      /\ d[1] \in {"work", "saved"}
      /\ cmd[c].op \in {"pipeline", "amend"} => d[1] = "work"
      /\ cmd[c].op = "save" => d[1] = "saved" /\ Source(d) \in Dirs /\ Source(d) # d
  <2>1. cmd[c] # Idle
    BY <1>1, IdleFacts
  <2>2. Busy(c) /\ d \in Dirs /\ cmd[c].op \in Ops
    BY <1>0, <1>d, <2>1 DEF Shape, Busy, TypeOK
  <2> QED
    BY <1>0, <1>1, <1>d, <2>2, SourceFacts DEF Shape, Ops
<1>3. /\ disk' \in [Dirs -> [Files -> Content]]
      /\ \A e \in Dirs : e # d => disk'[e] = disk[e]
      /\ disk'[d]["manifest"] = cmd[c].res
      /\ disk'[d]["evidence"] = disk[d]["evidence"]
      /\ disk'[d]["report"] = disk[d]["report"]
      /\ disk'[d]["results"] = disk[d]["results"]
      /\ disk'[d]["record"] = disk[d]["record"]
  <2>1. cmd[c].res \in Content
    BY <1>0, <1>1, <1>2, <1>d DEF TypeOK, Content, Torn, Blank, Absent, Loaded, Finished, Shown, Files, CmdType
  <2>2. Writes(d, "manifest", cmd[c].res)
    BY <1>d DEF StageUpdated
  <2>3. "manifest" \in Files
    BY DEF Files
  <2>4. /\ disk' \in [Dirs -> [Files -> Content]] /\ disk'[d]["manifest"] = cmd[c].res
        /\ \A g \in Files : g # "manifest" => disk'[d][g] = disk[d][g]
        /\ \A e \in Dirs : e # d => disk'[e] = disk[e]
    BY <1>0, <1>2, <2>1, <2>2, <2>3, WritesFacts
  <2> QED
    BY <2>4 DEF Files
<1>4. /\ cmd' \in [Cmds -> CmdType]
      /\ cmd'[c].op = cmd[c].op /\ cmd'[c].at = "output" /\ cmd'[c].dir = d
      /\ cmd'[c].left = cmd[c].left /\ cmd'[c].res = cmd[c].res
      /\ \A b \in Cmds : b # c => cmd'[b] = cmd[b]
  <2>1. (Goto(c, "output") /\ cmd[c].left = cmd[c].left) \/ GotoWith(c, "output", cmd[c].left)
    BY <1>1, <1>2, <1>d DEF StageUpdated
  <2>2. "output" \in Places /\ cmd[c].left \in SUBSET Files
    BY <1>0 DEF Places, TypeOK, Present
  <2> QED
    BY <1>0, <1>d, <2>1, <2>2, GotoFacts
<1>5. TypeOK'
  BY <1>0, <1>1, <1>2, <1>3, <1>4, <1>d DEF TypeOK, CmdType
<1>6. Local(c, d)
  BY <1>0, <1>1, <1>2, <1>3, <1>4, <1>d DEF Local
<1>7. Shape(c)'
  BY <1>0, <1>1, <1>2, <1>3, <1>4, <1>d, IdleFacts DEF Shape, Busy
<1>8. Evident'
  BY <1>0, <1>1, <1>2, <1>3, <1>4, <1>d DEF Evident, TypeOK, Absent, Torn, Blank, Shown, Loaded, Finished
<1>9. Progress(c)'
  <2> SUFFICES ASSUME Busy(c)', d[2] \notin tangled PROVE Written(c)'
    BY <1>1, <1>4, IdleFacts DEF Progress, Busy
  <2>1. Written(c)
    BY <1>0, <1>2, <1>d DEF Progress
  <2>2. Folder(d)
    BY <1>0, <1>2
  <2> QED
    BY <1>0, <1>1, <1>2, <1>3, <1>4, <1>d, <2>1, <2>2, IdleFacts DEF Written, Folder, Source, Busy, Files, Absent, Torn, Blank, Loaded, Finished, Shown
<1>10. Folder(d)'
  <2> SUFFICES ASSUME d[2] \notin tangled
               PROVE  /\ d \notin exists' => \A g \in Files : disk'[d][g] = Absent
                      /\ d \notin cut' /\ Quiet(d)' => Holds(d)'
                      /\ d \notin behind' /\ Quiet(d)' => Reported(d)'
    BY <1>1 DEF Folder
  <2>1. Written(c)
    BY <1>0, <1>1, <1>2, <1>d DEF Progress
  <2>2. /\ d \notin exists => \A g \in Files : disk[d][g] = Absent
        /\ d \notin cut /\ Quiet(d) => Holds(d)
        /\ d \notin behind /\ Quiet(d) => Reported(d)
    BY <1>0, <1>2 DEF Folder
  <2>3. \A b \in Cmds : b # c /\ Busy(b) => cmd[b].dir # d
    BY <1>0, <1>2, <1>d DEF Apart
  <2>4. \A b \in Cmds : b # c => cmd[b].dir # d
    BY <2>3, <1>2, IdleFacts DEF IInv, Shape
  <2>5. d \notin exists' => \A g \in Files : disk'[d][g] = Absent
    BY <1>0, <1>1, <1>2, <1>3, <1>4, <1>d, <2>1, <2>2 DEF Written, Files, Absent, Loaded, Finished, Torn, Present
  <2>6. ASSUME d \notin cut', Quiet(d)' PROVE Holds(d)'
    BY <1>0, <1>1, <1>2, <1>3, <1>4, <1>d, <2>1, <2>2, <2>4, <2>6, IdleFacts DEF Written, Holds, Quiet, OwesReport, is_run, Absent, Loaded, Finished, Torn, Blank, Shown, Files
  <2>7. ASSUME d \notin behind', Quiet(d)' PROVE Reported(d)'
    BY <1>0, <1>1, <1>2, <1>3, <1>4, <1>d, <2>1, <2>2, <2>4, <2>7, IdleFacts DEF Written, Reported, Quiet, OwesReport, is_run, Absent, Loaded, Finished, Torn, Blank, Shown, Files
  <2> QED
    BY <2>5, <2>6, <2>7
<1> QED
  BY <1>2, <1>5, <1>6, <1>7, <1>8, <1>9, <1>10, <1>d, StepFrame

LEMMA OutputUpdatesPreserves ==
  ASSUME IInv, NEW c \in Cmds, OutputUpdates(c)
  PROVE  IInv' /\ Busy(c) /\ cmd[c].dir \in Dirs /\ Local(c, cmd[c].dir)
<1>d. PICK d : d = cmd[c].dir
  OBVIOUS
<1>0. /\ TypeOK /\ Apart /\ Evident /\ Shape(c) /\ Progress(c)
      /\ \A e \in Dirs : Folder(e)
  BY DEF IInv
<1>1. /\ cmd[c].at = "output" /\ disk[d]["manifest"] \in {Loaded, Finished}
      /\ exists' = exists /\ cut' = cut /\ behind' = behind /\ made' = made
      /\ starts' = starts /\ tangled' = tangled
  BY <1>0, <1>d DEF OutputUpdates, history
<1>2. /\ Busy(c) /\ d \in Dirs /\ cmd[c].op \in {"pipeline", "amend", "emit", "save"}
      /\ d[1] \in {"work", "saved"}
      /\ cmd[c].op \in {"pipeline", "amend"} => d[1] = "work"
      /\ cmd[c].op = "save" => d[1] = "saved" /\ Source(d) \in Dirs /\ Source(d) # d
  <2>1. cmd[c] # Idle
    BY <1>1, IdleFacts
  <2>2. Busy(c) /\ d \in Dirs /\ cmd[c].op \in Ops
    BY <1>0, <1>d, <2>1 DEF Shape, Busy, TypeOK
  <2> QED
    BY <1>0, <1>1, <1>d, <2>2, SourceFacts DEF Shape, Ops
<1>3. /\ disk' \in [Dirs -> [Files -> Content]]
      /\ \A e \in Dirs : e # d => disk'[e] = disk[e]
      /\ disk'[d]["manifest"] = Torn
      /\ disk'[d]["evidence"] = disk[d]["evidence"]
      /\ disk'[d]["report"] = disk[d]["report"]
      /\ disk'[d]["results"] = disk[d]["results"]
      /\ disk'[d]["record"] = disk[d]["record"]
  <2>1. Torn \in Content
    BY <1>0, <1>1, <1>2, <1>d DEF TypeOK, Content, Torn, Blank, Absent, Loaded, Finished, Shown, Files, CmdType
  <2>2. Writes(d, "manifest", Torn)
    BY <1>d DEF OutputUpdates
  <2>3. "manifest" \in Files
    BY DEF Files
  <2>4. /\ disk' \in [Dirs -> [Files -> Content]] /\ disk'[d]["manifest"] = Torn
        /\ \A g \in Files : g # "manifest" => disk'[d][g] = disk[d][g]
        /\ \A e \in Dirs : e # d => disk'[e] = disk[e]
    BY <1>0, <1>2, <2>1, <2>2, <2>3, WritesFacts
  <2> QED
    BY <2>4 DEF Files
<1>4. /\ cmd' \in [Cmds -> CmdType]
      /\ cmd'[c].op = cmd[c].op /\ cmd'[c].at = "writing" /\ cmd'[c].dir = d
      /\ cmd'[c].left = cmd[c].left /\ cmd'[c].res = cmd[c].res
      /\ \A b \in Cmds : b # c => cmd'[b] = cmd[b]
  <2>1. (Goto(c, "writing") /\ cmd[c].left = cmd[c].left) \/ GotoWith(c, "writing", cmd[c].left)
    BY <1>1, <1>2, <1>d DEF OutputUpdates
  <2>2. "writing" \in Places /\ cmd[c].left \in SUBSET Files
    BY <1>0 DEF Places, TypeOK, Present
  <2> QED
    BY <1>0, <1>d, <2>1, <2>2, GotoFacts
<1>5. TypeOK'
  BY <1>0, <1>1, <1>2, <1>3, <1>4, <1>d DEF TypeOK, CmdType
<1>6. Local(c, d)
  BY <1>0, <1>1, <1>2, <1>3, <1>4, <1>d DEF Local
<1>7. Shape(c)'
  BY <1>0, <1>1, <1>2, <1>3, <1>4, <1>d, IdleFacts DEF Shape, Busy
<1>8. Evident'
  BY <1>0, <1>1, <1>2, <1>3, <1>4, <1>d DEF Evident, TypeOK, Absent, Torn, Blank, Shown, Loaded, Finished
<1>9. Progress(c)'
  <2> SUFFICES ASSUME Busy(c)', d[2] \notin tangled PROVE Written(c)'
    BY <1>1, <1>4, IdleFacts DEF Progress, Busy
  <2>1. Written(c)
    BY <1>0, <1>2, <1>d DEF Progress
  <2>2. \A b \in Cmds : b # c /\ Busy(b) => cmd[b].dir # d
    BY <1>0, <1>2, <1>d DEF Apart
  <2>3. \A b \in Cmds : b # c => cmd[b].dir # d
    BY <2>2, <1>2, IdleFacts DEF IInv, Shape
  <2>4. d[1] = "saved" => Quiet(d)
    BY <1>1, <1>2, <1>d, <2>3 DEF Quiet, OwesReport
  <2>5. d \in exists
    BY <1>0, <1>1, <1>2 DEF Folder, Files, Absent, Loaded, Finished
  <2>6. d \notin cut /\ d[1] = "saved" /\ disk[d]["record"] # Absent =>
          disk[d]["results"] = Shown(disk[d]["evidence"])
    BY <1>0, <1>1, <1>2, <2>4, <2>5 DEF Folder, Holds, is_run, Absent, Loaded, Finished
  <2>7. cmd[c].op = "save" =>
          /\ cmd[c].res = Shown(disk[Source(d)]["evidence"])
          /\ disk[d]["record"] = Absent /\ disk[d]["evidence"] = disk[Source(d)]["evidence"]
    BY <1>1, <1>d, <2>1 DEF Written
  <2> QED
    BY <1>1, <1>2, <1>3, <1>4, <1>d, <2>6, <2>7 DEF Written, Source, Files, Absent, Torn
<1>10. Folder(d)'
  <2> SUFFICES ASSUME d[2] \notin tangled
               PROVE  /\ d \notin exists' => \A g \in Files : disk'[d][g] = Absent
                      /\ d \notin cut' /\ Quiet(d)' => Holds(d)'
                      /\ d \notin behind' /\ Quiet(d)' => Reported(d)'
    BY <1>1 DEF Folder
  <2>1. Written(c)
    BY <1>0, <1>1, <1>2, <1>d DEF Progress
  <2>2. /\ d \notin exists => \A g \in Files : disk[d][g] = Absent
        /\ d \notin cut /\ Quiet(d) => Holds(d)
        /\ d \notin behind /\ Quiet(d) => Reported(d)
    BY <1>0, <1>2 DEF Folder
  <2>3. \A b \in Cmds : b # c /\ Busy(b) => cmd[b].dir # d
    BY <1>0, <1>2, <1>d DEF Apart
  <2>4. \A b \in Cmds : b # c => cmd[b].dir # d
    BY <2>3, <1>2, IdleFacts DEF IInv, Shape
  <2>5. d \notin exists' => \A g \in Files : disk'[d][g] = Absent
    BY <1>0, <1>1, <1>2, <1>3, <1>4, <1>d, <2>1, <2>2 DEF Written, Files, Absent, Loaded, Finished, Torn, Present
  <2>6. ASSUME d \notin cut', Quiet(d)' PROVE Holds(d)'
    BY <1>0, <1>1, <1>2, <1>3, <1>4, <1>d, <2>1, <2>2, <2>4, <2>6, IdleFacts DEF Written, Holds, Quiet, OwesReport, is_run, Absent, Loaded, Finished, Torn, Blank, Shown, Files
  <2>7. ASSUME d \notin behind', Quiet(d)' PROVE Reported(d)'
    BY <1>0, <1>1, <1>2, <1>3, <1>4, <1>d, <2>1, <2>2, <2>4, <2>7, IdleFacts DEF Written, Reported, Quiet, OwesReport, is_run, Absent, Loaded, Finished, Torn, Blank, Shown, Files
  <2> QED
    BY <2>5, <2>6, <2>7
<1> QED
  BY <1>2, <1>5, <1>6, <1>7, <1>8, <1>9, <1>10, <1>d, StepFrame

LEMMA OutputUpdatedPreserves ==
  ASSUME IInv, NEW c \in Cmds, OutputUpdated(c)
  PROVE  IInv' /\ Busy(c) /\ cmd[c].dir \in Dirs /\ Local(c, cmd[c].dir)
<1>d. PICK d : d = cmd[c].dir
  OBVIOUS
<1>0. /\ TypeOK /\ Apart /\ Evident /\ Shape(c) /\ Progress(c)
      /\ \A e \in Dirs : Folder(e)
  BY DEF IInv
<1>1. /\ cmd[c].at = "writing"
      /\ exists' = exists \cup {d} /\ cut' = cut /\ behind' = behind /\ made' = made
      /\ starts' = starts /\ tangled' = tangled
  BY <1>0, <1>d DEF OutputUpdated, history
<1>2. /\ Busy(c) /\ d \in Dirs /\ cmd[c].op \in {"pipeline", "amend", "emit", "save"}
      /\ d[1] \in {"work", "saved"}
      /\ cmd[c].op \in {"pipeline", "amend"} => d[1] = "work"
      /\ cmd[c].op = "save" => d[1] = "saved" /\ Source(d) \in Dirs /\ Source(d) # d
  <2>1. cmd[c] # Idle
    BY <1>1, IdleFacts
  <2>2. Busy(c) /\ d \in Dirs /\ cmd[c].op \in Ops
    BY <1>0, <1>d, <2>1 DEF Shape, Busy, TypeOK
  <2> QED
    BY <1>0, <1>1, <1>d, <2>2, SourceFacts DEF Shape, Ops
<1>3. /\ disk' \in [Dirs -> [Files -> Content]]
      /\ \A e \in Dirs : e # d => disk'[e] = disk[e]
      /\ disk'[d]["manifest"] = Finished
      /\ disk'[d]["evidence"] = disk[d]["evidence"]
      /\ disk'[d]["report"] = disk[d]["report"]
      /\ disk'[d]["results"] = disk[d]["results"]
      /\ disk'[d]["record"] = disk[d]["record"]
  <2>1. Finished \in Content
    BY <1>0, <1>1, <1>2, <1>d DEF TypeOK, Content, Torn, Blank, Absent, Loaded, Finished, Shown, Files, CmdType
  <2>2. Writes(d, "manifest", Finished)
    BY <1>d DEF OutputUpdated
  <2>3. "manifest" \in Files
    BY DEF Files
  <2>4. /\ disk' \in [Dirs -> [Files -> Content]] /\ disk'[d]["manifest"] = Finished
        /\ \A g \in Files : g # "manifest" => disk'[d][g] = disk[d][g]
        /\ \A e \in Dirs : e # d => disk'[e] = disk[e]
    BY <1>0, <1>2, <2>1, <2>2, <2>3, WritesFacts
  <2> QED
    BY <2>4 DEF Files
<1>4. /\ cmd' \in [Cmds -> CmdType]
      /\ cmd'[c].op = cmd[c].op /\ cmd'[c].at = "report" /\ cmd'[c].dir = d
      /\ cmd'[c].left = cmd[c].left /\ cmd'[c].res = cmd[c].res
      /\ \A b \in Cmds : b # c => cmd'[b] = cmd[b]
  <2>1. (Goto(c, "report") /\ cmd[c].left = cmd[c].left) \/ GotoWith(c, "report", cmd[c].left)
    BY <1>1, <1>2, <1>d DEF OutputUpdated
  <2>2. "report" \in Places /\ cmd[c].left \in SUBSET Files
    BY <1>0 DEF Places, TypeOK, Present
  <2> QED
    BY <1>0, <1>d, <2>1, <2>2, GotoFacts
<1>5. TypeOK'
  BY <1>0, <1>1, <1>2, <1>3, <1>4, <1>d DEF TypeOK, CmdType
<1>6. Local(c, d)
  BY <1>0, <1>1, <1>2, <1>3, <1>4, <1>d DEF Local
<1>7. Shape(c)'
  BY <1>0, <1>1, <1>2, <1>3, <1>4, <1>d, IdleFacts DEF Shape, Busy
<1>8. Evident'
  BY <1>0, <1>1, <1>2, <1>3, <1>4, <1>d DEF Evident, TypeOK, Absent, Torn, Blank, Shown, Loaded, Finished
<1>9. Progress(c)'
  <2> SUFFICES ASSUME Busy(c)', d[2] \notin tangled PROVE Written(c)'
    BY <1>1, <1>4, IdleFacts DEF Progress, Busy
  <2>1. Written(c)
    BY <1>0, <1>2, <1>d DEF Progress
  <2>2. Folder(d)
    BY <1>0, <1>2
  <2> QED
    BY <1>0, <1>1, <1>2, <1>3, <1>4, <1>d, <2>1, <2>2, IdleFacts DEF Written, Folder, Source, Busy, Files, Absent, Torn, Blank, Loaded, Finished, Shown
<1>10. Folder(d)'
  <2> SUFFICES ASSUME d[2] \notin tangled
               PROVE  /\ d \notin exists' => \A g \in Files : disk'[d][g] = Absent
                      /\ d \notin cut' /\ Quiet(d)' => Holds(d)'
                      /\ d \notin behind' /\ Quiet(d)' => Reported(d)'
    BY <1>1 DEF Folder
  <2>1. Written(c)
    BY <1>0, <1>1, <1>2, <1>d DEF Progress
  <2>2. /\ d \notin exists => \A g \in Files : disk[d][g] = Absent
        /\ d \notin cut /\ Quiet(d) => Holds(d)
        /\ d \notin behind /\ Quiet(d) => Reported(d)
    BY <1>0, <1>2 DEF Folder
  <2>3. \A b \in Cmds : b # c /\ Busy(b) => cmd[b].dir # d
    BY <1>0, <1>2, <1>d DEF Apart
  <2>4. \A b \in Cmds : b # c => cmd[b].dir # d
    BY <2>3, <1>2, IdleFacts DEF IInv, Shape
  <2>5. d \notin exists' => \A g \in Files : disk'[d][g] = Absent
    BY <1>0, <1>1, <1>2, <1>3, <1>4, <1>d, <2>1, <2>2 DEF Written, Files, Absent, Loaded, Finished, Torn, Present
  <2>6. ASSUME d \notin cut', Quiet(d)' PROVE Holds(d)'
    BY <1>0, <1>1, <1>2, <1>3, <1>4, <1>d, <2>1, <2>2, <2>4, <2>6, IdleFacts DEF Written, Holds, Quiet, OwesReport, is_run, Absent, Loaded, Finished, Torn, Blank, Shown, Files
  <2>7. ASSUME d \notin behind', Quiet(d)' PROVE Reported(d)'
    BY <1>0, <1>1, <1>2, <1>3, <1>4, <1>d, <2>1, <2>2, <2>4, <2>7, IdleFacts DEF Written, Reported, Quiet, OwesReport, is_run, Absent, Loaded, Finished, Torn, Blank, Shown, Files
  <2> QED
    BY <2>5, <2>6, <2>7
<1> QED
  BY <1>2, <1>5, <1>6, <1>7, <1>8, <1>9, <1>10, <1>d, StepFrame

LEMMA OutputReportsPreserves ==
  ASSUME IInv, NEW c \in Cmds, OutputReports(c)
  PROVE  IInv' /\ Busy(c) /\ cmd[c].dir \in Dirs /\ Local(c, cmd[c].dir)
<1>d. PICK d : d = cmd[c].dir
  OBVIOUS
<1>0. /\ TypeOK /\ Apart /\ Evident /\ Shape(c) /\ Progress(c)
      /\ \A e \in Dirs : Folder(e)
  BY DEF IInv
<1>1. /\ cmd[c].at = "report" /\ d \in exists
      /\ exists' = exists /\ cut' = cut /\ behind' = behind \ {d} /\ made' = made
      /\ starts' = starts /\ tangled' = tangled
  BY <1>0, <1>d DEF OutputReports, history
<1>2. /\ Busy(c) /\ d \in Dirs /\ cmd[c].op \in {"pipeline", "amend", "emit", "save"}
      /\ d[1] \in {"work", "saved"}
      /\ cmd[c].op \in {"pipeline", "amend"} => d[1] = "work"
      /\ cmd[c].op = "save" => d[1] = "saved" /\ Source(d) \in Dirs /\ Source(d) # d
  <2>1. cmd[c] # Idle
    BY <1>1, IdleFacts
  <2>2. Busy(c) /\ d \in Dirs /\ cmd[c].op \in Ops
    BY <1>0, <1>d, <2>1 DEF Shape, Busy, TypeOK
  <2> QED
    BY <1>0, <1>1, <1>d, <2>2, SourceFacts DEF Shape, Ops
<1>3. /\ disk' \in [Dirs -> [Files -> Content]]
      /\ \A e \in Dirs : e # d => disk'[e] = disk[e]
      /\ disk'[d]["manifest"] = disk[d]["manifest"]
      /\ disk'[d]["evidence"] = disk[d]["evidence"]
      /\ disk'[d]["report"] = Shown(disk[d]["evidence"])
      /\ disk'[d]["results"] = disk[d]["results"]
      /\ disk'[d]["record"] = disk[d]["record"]
  <2>1. Shown(disk[d]["evidence"]) \in Content
    BY <1>0, <1>1, <1>2, <1>d DEF TypeOK, Content, Torn, Blank, Absent, Loaded, Finished, Shown, Files, CmdType
  <2>2. Writes(d, "report", Shown(disk[d]["evidence"]))
    BY <1>d DEF OutputReports
  <2>3. "report" \in Files
    BY DEF Files
  <2>4. /\ disk' \in [Dirs -> [Files -> Content]] /\ disk'[d]["report"] = Shown(disk[d]["evidence"])
        /\ \A g \in Files : g # "report" => disk'[d][g] = disk[d][g]
        /\ \A e \in Dirs : e # d => disk'[e] = disk[e]
    BY <1>0, <1>2, <2>1, <2>2, <2>3, WritesFacts
  <2> QED
    BY <2>4 DEF Files
<1>4. /\ cmd' \in [Cmds -> CmdType]
      /\ \A b \in Cmds : b # c => cmd'[b] = cmd[b]
      /\ \/ cmd[c].op # "save" /\ cmd'[c] = Idle
         \/ /\ cmd[c].op = "save"
            /\ cmd'[c].op = cmd[c].op /\ cmd'[c].at = "results" /\ cmd'[c].dir = d
            /\ cmd'[c].left = cmd[c].left /\ cmd'[c].res = cmd[c].res
  <2>1. CASE cmd[c].op # "save"
    <3>1. Done(c)
      BY <2>1 DEF OutputReports
    <3> QED
      BY <1>0, <2>1, <3>1, DoneFacts
  <2>2. CASE cmd[c].op = "save"
    <3>1. Goto(c, "results")
      BY <2>2 DEF OutputReports
    <3>2. "results" \in Places /\ cmd[c].left \in SUBSET Files
      BY <1>0 DEF Places, TypeOK
    <3> QED
      BY <1>0, <1>d, <2>2, <3>1, <3>2, GotoFacts
  <2> QED
    BY <2>1, <2>2
<1>5. TypeOK'
  BY <1>0, <1>1, <1>2, <1>3, <1>4, <1>d DEF TypeOK, CmdType
<1>6. Local(c, d)
  BY <1>0, <1>1, <1>2, <1>3, <1>4, <1>d DEF Local
<1>7. Shape(c)'
  BY <1>0, <1>1, <1>2, <1>3, <1>4, <1>d, IdleFacts DEF Shape, Busy
<1>8. Evident'
  BY <1>0, <1>1, <1>2, <1>3, <1>4, <1>d DEF Evident, TypeOK, Absent, Torn, Blank, Shown, Loaded, Finished
<1>9. Progress(c)'
  <2> SUFFICES ASSUME Busy(c)', d[2] \notin tangled PROVE Written(c)'
    BY <1>1, <1>4, IdleFacts DEF Progress, Busy
  <2>1. Written(c)
    BY <1>0, <1>2, <1>d DEF Progress
  <2>2. Folder(d)
    BY <1>0, <1>2
  <2> QED
    BY <1>0, <1>1, <1>2, <1>3, <1>4, <1>d, <2>1, <2>2, IdleFacts DEF Written, Folder, Source, Busy, Files, Absent, Torn, Blank, Loaded, Finished, Shown
<1>10. Folder(d)'
  <2> SUFFICES ASSUME d[2] \notin tangled
               PROVE  /\ d \notin exists' => \A g \in Files : disk'[d][g] = Absent
                      /\ d \notin cut' /\ Quiet(d)' => Holds(d)'
                      /\ d \notin behind' /\ Quiet(d)' => Reported(d)'
    BY <1>1 DEF Folder
  <2>1. Written(c)
    BY <1>0, <1>1, <1>2, <1>d DEF Progress
  <2>2. /\ d \notin exists => \A g \in Files : disk[d][g] = Absent
        /\ d \notin cut /\ Quiet(d) => Holds(d)
        /\ d \notin behind /\ Quiet(d) => Reported(d)
    BY <1>0, <1>2 DEF Folder
  <2>3. \A b \in Cmds : b # c /\ Busy(b) => cmd[b].dir # d
    BY <1>0, <1>2, <1>d DEF Apart
  <2>4. \A b \in Cmds : b # c => cmd[b].dir # d
    BY <2>3, <1>2, IdleFacts DEF IInv, Shape
  <2>5. d \notin exists' => \A g \in Files : disk'[d][g] = Absent
    BY <1>0, <1>1, <1>2, <1>3, <1>4, <1>d, <2>1, <2>2 DEF Written, Files, Absent, Loaded, Finished, Torn, Present
  <2>6. ASSUME d \notin cut', Quiet(d)' PROVE Holds(d)'
    BY <1>0, <1>1, <1>2, <1>3, <1>4, <1>d, <2>1, <2>2, <2>4, <2>6, IdleFacts DEF Written, Holds, Quiet, OwesReport, is_run, Absent, Loaded, Finished, Torn, Blank, Shown, Files
  <2>7. ASSUME d \notin behind', Quiet(d)' PROVE Reported(d)'
    BY <1>0, <1>1, <1>2, <1>3, <1>4, <1>d, <2>1, <2>2, <2>4, <2>7, IdleFacts DEF Written, Reported, Quiet, OwesReport, is_run, Absent, Loaded, Finished, Torn, Blank, Shown, Files
  <2> QED
    BY <2>5, <2>6, <2>7
<1> QED
  BY <1>2, <1>5, <1>6, <1>7, <1>8, <1>9, <1>10, <1>d, StepFrame

LEMMA RemoveFilePreserves ==
  ASSUME IInv, NEW c \in Cmds, NEW f \in Files, RemoveFile(c, f)
  PROVE  IInv' /\ Busy(c) /\ cmd[c].dir \in Dirs /\ Local(c, cmd[c].dir)
<1>d. PICK d : d = cmd[c].dir
  OBVIOUS
<1>0. /\ TypeOK /\ Apart /\ Evident /\ Shape(c) /\ Progress(c)
      /\ \A e \in Dirs : Folder(e)
  BY DEF IInv
<1>1. /\ cmd[c].at = "remove" /\ f \in cmd[c].left /\ f \in Present(d)
      /\ exists' = exists /\ cut' = cut /\ behind' = behind /\ made' = made
      /\ starts' = starts /\ tangled' = tangled
  BY <1>0, <1>d DEF RemoveFile, history
<1>2. /\ Busy(c) /\ d \in Dirs /\ cmd[c].op \in {"remove", "save"}
      /\ d[1] \in {"work", "saved"}
      /\ cmd[c].op \in {"pipeline", "amend"} => d[1] = "work"
      /\ cmd[c].op = "save" => d[1] = "saved" /\ Source(d) \in Dirs /\ Source(d) # d
  <2>1. cmd[c] # Idle
    BY <1>1, IdleFacts
  <2>2. Busy(c) /\ d \in Dirs /\ cmd[c].op \in Ops
    BY <1>0, <1>d, <2>1 DEF Shape, Busy, TypeOK
  <2> QED
    BY <1>0, <1>1, <1>d, <2>2, SourceFacts DEF Shape, Ops
<1>3. /\ disk' \in [Dirs -> [Files -> Content]]
      /\ \A e \in Dirs : e # d => disk'[e] = disk[e]
      /\ disk'[d][f] = Absent /\ \A g \in Files : g # f => disk'[d][g] = disk[d][g]
      /\ f \in Files
  <2>1. Absent \in Content /\ Writes(d, f, Absent)
    BY <1>d DEF Content, Absent, RemoveFile
  <2> QED
    BY <1>0, <1>2, <2>1, WritesFacts
<1>4. /\ cmd' \in [Cmds -> CmdType]
      /\ cmd'[c].op = cmd[c].op /\ cmd'[c].at = "remove" /\ cmd'[c].dir = d
      /\ cmd'[c].left = cmd[c].left \ {f} /\ cmd'[c].res = cmd[c].res
      /\ \A b \in Cmds : b # c => cmd'[b] = cmd[b]
  <2>1. (Goto(c, "remove") /\ cmd[c].left \ {f} = cmd[c].left) \/ GotoWith(c, "remove", cmd[c].left \ {f})
    BY <1>1, <1>2, <1>d DEF RemoveFile
  <2>2. "remove" \in Places /\ cmd[c].left \ {f} \in SUBSET Files
    BY <1>0 DEF Places, TypeOK, Present
  <2> QED
    BY <1>0, <1>d, <2>1, <2>2, GotoFacts
<1>5. TypeOK'
  BY <1>0, <1>1, <1>2, <1>3, <1>4, <1>d DEF TypeOK, CmdType
<1>6. Local(c, d)
  BY <1>0, <1>1, <1>2, <1>3, <1>4, <1>d DEF Local
<1>7. Shape(c)'
  BY <1>0, <1>1, <1>2, <1>3, <1>4, <1>d, IdleFacts DEF Shape, Busy
<1>8. Evident'
  <2> SUFFICES ASSUME NEW e \in Dirs
               PROVE  /\ disk'[e]["evidence"] \in 0 .. made
                      /\ e[1] = "work" => disk'[e]["results"] = Absent /\ disk'[e]["record"] = Absent
    BY <1>1 DEF Evident
  <2>1. \A g \in Files : disk'[e][g] \in {disk[e][g], Absent}
    BY <1>2, <1>3
  <2>2. {"evidence", "results", "record"} \subseteq Files /\ Absent \in 0 .. made
    BY <1>0 DEF Files, Absent, TypeOK
  <2> QED
    BY <1>0, <2>1, <2>2 DEF Evident
<1>9. Progress(c)'
  <2> SUFFICES ASSUME Busy(c)', d[2] \notin tangled PROVE Written(c)'
    BY <1>1, <1>4, IdleFacts DEF Progress, Busy
  <2>1. Written(c)
    BY <1>0, <1>2, <1>d DEF Progress
  <2>2. Folder(d)
    BY <1>0, <1>2
  <2> QED
    BY <1>0, <1>1, <1>2, <1>3, <1>4, <1>d, <2>1, <2>2, IdleFacts DEF Written, Folder, Source, Busy, Files, Absent, Torn, Blank, Loaded, Finished, Shown
<1>10. Folder(d)'
  <2> SUFFICES ASSUME d[2] \notin tangled
               PROVE  /\ d \notin exists' => \A g \in Files : disk'[d][g] = Absent
                      /\ d \notin cut' /\ Quiet(d)' => Holds(d)'
                      /\ d \notin behind' /\ Quiet(d)' => Reported(d)'
    BY <1>1 DEF Folder
  <2>1. Written(c)
    BY <1>0, <1>1, <1>2, <1>d DEF Progress
  <2>2. /\ d \notin exists => \A g \in Files : disk[d][g] = Absent
        /\ d \notin cut /\ Quiet(d) => Holds(d)
        /\ d \notin behind /\ Quiet(d) => Reported(d)
    BY <1>0, <1>2 DEF Folder
  <2>3. \A b \in Cmds : b # c /\ Busy(b) => cmd[b].dir # d
    BY <1>0, <1>2, <1>d DEF Apart
  <2>4. \A b \in Cmds : b # c => cmd[b].dir # d
    BY <2>3, <1>2, IdleFacts DEF IInv, Shape
  <2>5. d \notin exists' => \A g \in Files : disk'[d][g] = Absent
    BY <1>0, <1>1, <1>2, <1>3, <1>4, <1>d, <2>1, <2>2 DEF Written, Files, Absent, Loaded, Finished, Torn, Present
  <2>6. ASSUME d \notin cut', Quiet(d)' PROVE Holds(d)'
    BY <1>0, <1>1, <1>2, <1>3, <1>4, <1>d, <2>1, <2>2, <2>4, <2>6, IdleFacts DEF Written, Holds, Quiet, OwesReport, is_run, Absent, Loaded, Finished, Torn, Blank, Shown, Files
  <2>7. ASSUME d \notin behind', Quiet(d)' PROVE Reported(d)'
    BY <1>0, <1>1, <1>2, <1>3, <1>4, <1>d, <2>1, <2>2, <2>4, <2>7, IdleFacts DEF Written, Reported, Quiet, OwesReport, is_run, Absent, Loaded, Finished, Torn, Blank, Shown, Files
  <2> QED
    BY <2>5, <2>6, <2>7
<1> QED
  BY <1>2, <1>5, <1>6, <1>7, <1>8, <1>9, <1>10, <1>d, StepFrame

LEMMA CopyFilePreserves ==
  ASSUME IInv, NEW c \in Cmds, NEW f \in Files, CopyFile(c, f)
  PROVE  IInv' /\ Busy(c) /\ cmd[c].dir \in Dirs /\ Local(c, cmd[c].dir)
<1>d. PICK d : d = cmd[c].dir
  OBVIOUS
<1>0. /\ TypeOK /\ Apart /\ Evident /\ Shape(c) /\ Progress(c)
      /\ \A e \in Dirs : Folder(e)
  BY DEF IInv
<1>1. /\ cmd[c].at = "copy" /\ f \in cmd[c].left /\ d \in exists /\ f \in Present(Source(d))
      /\ exists' = exists /\ cut' = cut /\ behind' = behind /\ made' = made
      /\ starts' = starts /\ tangled' = tangled
  BY <1>0, <1>d DEF CopyFile, history
<1>2. /\ Busy(c) /\ d \in Dirs /\ cmd[c].op \in {"save"}
      /\ d[1] \in {"work", "saved"}
      /\ cmd[c].op \in {"pipeline", "amend"} => d[1] = "work"
      /\ cmd[c].op = "save" => d[1] = "saved" /\ Source(d) \in Dirs /\ Source(d) # d
  <2>1. cmd[c] # Idle
    BY <1>1, IdleFacts
  <2>2. Busy(c) /\ d \in Dirs /\ cmd[c].op \in Ops
    BY <1>0, <1>d, <2>1 DEF Shape, Busy, TypeOK
  <2> QED
    BY <1>0, <1>1, <1>d, <2>2, SourceFacts DEF Shape, Ops
<1>3. /\ disk' \in [Dirs -> [Files -> Content]]
      /\ \A e \in Dirs : e # d => disk'[e] = disk[e]
      /\ disk'[d][f] = disk[Source(d)][f] /\ \A g \in Files : g # f => disk'[d][g] = disk[d][g]
      /\ f \in Files
  <2>1. disk[Source(d)][f] \in Content /\ Writes(d, f, disk[Source(d)][f])
    BY <1>0, <1>1, <1>2, <1>d DEF TypeOK, CopyFile
  <2> QED
    BY <1>0, <1>2, <2>1, WritesFacts
<1>4. /\ cmd' \in [Cmds -> CmdType]
      /\ cmd'[c].op = cmd[c].op /\ cmd'[c].at = "copy" /\ cmd'[c].dir = d
      /\ cmd'[c].left = cmd[c].left \ {f} /\ cmd'[c].res = cmd[c].res
      /\ \A b \in Cmds : b # c => cmd'[b] = cmd[b]
  <2>1. (Goto(c, "copy") /\ cmd[c].left \ {f} = cmd[c].left) \/ GotoWith(c, "copy", cmd[c].left \ {f})
    BY <1>1, <1>2, <1>d DEF CopyFile
  <2>2. "copy" \in Places /\ cmd[c].left \ {f} \in SUBSET Files
    BY <1>0 DEF Places, TypeOK, Present
  <2> QED
    BY <1>0, <1>d, <2>1, <2>2, GotoFacts
<1>5. TypeOK'
  BY <1>0, <1>1, <1>2, <1>3, <1>4, <1>d DEF TypeOK, CmdType
<1>6. Local(c, d)
  BY <1>0, <1>1, <1>2, <1>3, <1>4, <1>d DEF Local
<1>7. Shape(c)'
  BY <1>0, <1>1, <1>2, <1>3, <1>4, <1>d, IdleFacts DEF Shape, Busy
<1>8. Evident'
  <2> SUFFICES ASSUME NEW e \in Dirs
               PROVE  /\ disk'[e]["evidence"] \in 0 .. made
                      /\ e[1] = "work" => disk'[e]["results"] = Absent /\ disk'[e]["record"] = Absent
    BY <1>1 DEF Evident
  <2>1. CASE e = d
    <3>1. disk'[d]["evidence"] \in {disk[d]["evidence"], disk[Source(d)]["evidence"]} /\ d[1] = "saved"
      BY <1>2, <1>3 DEF Files
    <3> QED
      BY <1>0, <1>2, <2>1, <3>1 DEF Evident
  <2>2. CASE e # d
    BY <1>0, <1>3, <2>2 DEF Evident
  <2> QED
    BY <2>1, <2>2
<1>9. Progress(c)'
  <2> SUFFICES ASSUME Busy(c)', d[2] \notin tangled PROVE Written(c)'
    BY <1>1, <1>4, IdleFacts DEF Progress, Busy
  <2>1. Written(c)
    BY <1>0, <1>2, <1>d DEF Progress
  <2>2. Folder(d)
    BY <1>0, <1>2
  <2> QED
    BY <1>0, <1>1, <1>2, <1>3, <1>4, <1>d, <2>1, <2>2, IdleFacts DEF Written, Folder, Source, Busy, Files, Absent, Torn, Blank, Loaded, Finished, Shown
<1>10. Folder(d)'
  <2> SUFFICES ASSUME d[2] \notin tangled
               PROVE  /\ d \notin exists' => \A g \in Files : disk'[d][g] = Absent
                      /\ d \notin cut' /\ Quiet(d)' => Holds(d)'
                      /\ d \notin behind' /\ Quiet(d)' => Reported(d)'
    BY <1>1 DEF Folder
  <2>1. Written(c)
    BY <1>0, <1>1, <1>2, <1>d DEF Progress
  <2>2. /\ d \notin exists => \A g \in Files : disk[d][g] = Absent
        /\ d \notin cut /\ Quiet(d) => Holds(d)
        /\ d \notin behind /\ Quiet(d) => Reported(d)
    BY <1>0, <1>2 DEF Folder
  <2>3. \A b \in Cmds : b # c /\ Busy(b) => cmd[b].dir # d
    BY <1>0, <1>2, <1>d DEF Apart
  <2>4. \A b \in Cmds : b # c => cmd[b].dir # d
    BY <2>3, <1>2, IdleFacts DEF IInv, Shape
  <2>5. d \notin exists' => \A g \in Files : disk'[d][g] = Absent
    BY <1>0, <1>1, <1>2, <1>3, <1>4, <1>d, <2>1, <2>2 DEF Written, Files, Absent, Loaded, Finished, Torn, Present
  <2>6. ASSUME d \notin cut', Quiet(d)' PROVE Holds(d)'
    BY <1>0, <1>1, <1>2, <1>3, <1>4, <1>d, <2>1, <2>2, <2>4, <2>6, IdleFacts DEF Written, Holds, Quiet, OwesReport, is_run, Absent, Loaded, Finished, Torn, Blank, Shown, Files
  <2>7. ASSUME d \notin behind', Quiet(d)' PROVE Reported(d)'
    BY <1>0, <1>1, <1>2, <1>3, <1>4, <1>d, <2>1, <2>2, <2>4, <2>7, IdleFacts DEF Written, Reported, Quiet, OwesReport, is_run, Absent, Loaded, Finished, Torn, Blank, Shown, Files
  <2> QED
    BY <2>5, <2>6, <2>7
<1> QED
  BY <1>2, <1>5, <1>6, <1>7, <1>8, <1>9, <1>10, <1>d, StepFrame

LEMMA CopyEndsPreserves ==
  ASSUME IInv, NEW c \in Cmds, CopyEnds(c)
  PROVE  IInv' /\ Busy(c) /\ cmd[c].dir \in Dirs /\ Local(c, cmd[c].dir)
<1>d. PICK d : d = cmd[c].dir
  OBVIOUS
<1>0. /\ TypeOK /\ Apart /\ Evident /\ Shape(c) /\ Progress(c)
      /\ \A e \in Dirs : Folder(e)
  BY DEF IInv
<1>1. /\ cmd[c].at = "copy" /\ cmd[c].left = {}
      /\ exists' = exists /\ cut' = cut /\ behind' = behind /\ made' = made
      /\ starts' = starts /\ tangled' = tangled
  BY <1>0, <1>d DEF CopyEnds, history
<1>2. /\ Busy(c) /\ d \in Dirs /\ cmd[c].op \in {"save"}
      /\ d[1] \in {"work", "saved"}
      /\ cmd[c].op \in {"pipeline", "amend"} => d[1] = "work"
      /\ cmd[c].op = "save" => d[1] = "saved" /\ Source(d) \in Dirs /\ Source(d) # d
  <2>1. cmd[c] # Idle
    BY <1>1, IdleFacts
  <2>2. Busy(c) /\ d \in Dirs /\ cmd[c].op \in Ops
    BY <1>0, <1>d, <2>1 DEF Shape, Busy, TypeOK
  <2> QED
    BY <1>0, <1>1, <1>d, <2>2, SourceFacts DEF Shape, Ops
<1>3. disk' = disk /\ disk' \in [Dirs -> [Files -> Content]]
  BY <1>0 DEF TypeOK, CopyEnds, history
<1>4. /\ cmd' \in [Cmds -> CmdType]
      /\ cmd'[c].op = cmd[c].op /\ cmd'[c].at = "output" /\ cmd'[c].dir = d
      /\ cmd'[c].left = cmd[c].left /\ cmd'[c].res = cmd[c].res
      /\ \A b \in Cmds : b # c => cmd'[b] = cmd[b]
  <2>1. (Goto(c, "output") /\ cmd[c].left = cmd[c].left) \/ GotoWith(c, "output", cmd[c].left)
    BY <1>1, <1>2, <1>d DEF CopyEnds
  <2>2. "output" \in Places /\ cmd[c].left \in SUBSET Files
    BY <1>0 DEF Places, TypeOK, Present
  <2> QED
    BY <1>0, <1>d, <2>1, <2>2, GotoFacts
<1>5. TypeOK'
  BY <1>0, <1>1, <1>2, <1>3, <1>4, <1>d DEF TypeOK, CmdType
<1>6. Local(c, d)
  BY <1>0, <1>1, <1>2, <1>3, <1>4, <1>d DEF Local
<1>7. Shape(c)'
  BY <1>0, <1>1, <1>2, <1>3, <1>4, <1>d, IdleFacts DEF Shape, Busy
<1>8. Evident'
  BY <1>0, <1>1, <1>2, <1>3, <1>4, <1>d DEF Evident, TypeOK, Absent, Torn, Blank, Shown, Loaded, Finished
<1>9. Progress(c)'
  <2> SUFFICES ASSUME Busy(c)', d[2] \notin tangled PROVE Written(c)'
    BY <1>1, <1>4, IdleFacts DEF Progress, Busy
  <2>1. Written(c)
    BY <1>0, <1>2, <1>d DEF Progress
  <2>2. Folder(d)
    BY <1>0, <1>2
  <2> QED
    BY <1>0, <1>1, <1>2, <1>3, <1>4, <1>d, <2>1, <2>2, IdleFacts DEF Written, Folder, Source, Busy, Files, Absent, Torn, Blank, Loaded, Finished, Shown
<1>10. Folder(d)'
  <2> SUFFICES ASSUME d[2] \notin tangled
               PROVE  /\ d \notin exists' => \A g \in Files : disk'[d][g] = Absent
                      /\ d \notin cut' /\ Quiet(d)' => Holds(d)'
                      /\ d \notin behind' /\ Quiet(d)' => Reported(d)'
    BY <1>1 DEF Folder
  <2>1. Written(c)
    BY <1>0, <1>1, <1>2, <1>d DEF Progress
  <2>2. /\ d \notin exists => \A g \in Files : disk[d][g] = Absent
        /\ d \notin cut /\ Quiet(d) => Holds(d)
        /\ d \notin behind /\ Quiet(d) => Reported(d)
    BY <1>0, <1>2 DEF Folder
  <2>3. \A b \in Cmds : b # c /\ Busy(b) => cmd[b].dir # d
    BY <1>0, <1>2, <1>d DEF Apart
  <2>4. \A b \in Cmds : b # c => cmd[b].dir # d
    BY <2>3, <1>2, IdleFacts DEF IInv, Shape
  <2>5. d \notin exists' => \A g \in Files : disk'[d][g] = Absent
    BY <1>0, <1>1, <1>2, <1>3, <1>4, <1>d, <2>1, <2>2 DEF Written, Files, Absent, Loaded, Finished, Torn, Present
  <2>6. ASSUME d \notin cut', Quiet(d)' PROVE Holds(d)'
    BY <1>0, <1>1, <1>2, <1>3, <1>4, <1>d, <2>1, <2>2, <2>4, <2>6, IdleFacts DEF Written, Holds, Quiet, OwesReport, is_run, Absent, Loaded, Finished, Torn, Blank, Shown, Files
  <2>7. ASSUME d \notin behind', Quiet(d)' PROVE Reported(d)'
    BY <1>0, <1>1, <1>2, <1>3, <1>4, <1>d, <2>1, <2>2, <2>4, <2>7, IdleFacts DEF Written, Reported, Quiet, OwesReport, is_run, Absent, Loaded, Finished, Torn, Blank, Shown, Files
  <2> QED
    BY <2>5, <2>6, <2>7
<1> QED
  BY <1>2, <1>5, <1>6, <1>7, <1>8, <1>9, <1>10, <1>d, StepFrame

LEMMA SaveResultsPreserves ==
  ASSUME IInv, NEW c \in Cmds, SaveResults(c)
  PROVE  IInv' /\ Busy(c) /\ cmd[c].dir \in Dirs /\ Local(c, cmd[c].dir)
<1>d. PICK d : d = cmd[c].dir
  OBVIOUS
<1>0. /\ TypeOK /\ Apart /\ Evident /\ Shape(c) /\ Progress(c)
      /\ \A e \in Dirs : Folder(e)
  BY DEF IInv
<1>1. /\ cmd[c].at = "results" /\ d \in exists
      /\ exists' = exists /\ cut' = cut /\ behind' = behind /\ made' = made
      /\ starts' = starts /\ tangled' = tangled
  BY <1>0, <1>d DEF SaveResults, history
<1>2. /\ Busy(c) /\ d \in Dirs /\ cmd[c].op \in {"save"}
      /\ d[1] \in {"work", "saved"}
      /\ cmd[c].op \in {"pipeline", "amend"} => d[1] = "work"
      /\ cmd[c].op = "save" => d[1] = "saved" /\ Source(d) \in Dirs /\ Source(d) # d
  <2>1. cmd[c] # Idle
    BY <1>1, IdleFacts
  <2>2. Busy(c) /\ d \in Dirs /\ cmd[c].op \in Ops
    BY <1>0, <1>d, <2>1 DEF Shape, Busy, TypeOK
  <2> QED
    BY <1>0, <1>1, <1>d, <2>2, SourceFacts DEF Shape, Ops
<1>3. /\ disk' \in [Dirs -> [Files -> Content]]
      /\ \A e \in Dirs : e # d => disk'[e] = disk[e]
      /\ disk'[d]["manifest"] = disk[d]["manifest"]
      /\ disk'[d]["evidence"] = disk[d]["evidence"]
      /\ disk'[d]["report"] = disk[d]["report"]
      /\ disk'[d]["results"] = cmd[c].res
      /\ disk'[d]["record"] = disk[d]["record"]
  <2>1. cmd[c].res \in Content
    BY <1>0, <1>1, <1>2, <1>d DEF TypeOK, Content, Torn, Blank, Absent, Loaded, Finished, Shown, Files, CmdType
  <2>2. Writes(d, "results", cmd[c].res)
    BY <1>d DEF SaveResults
  <2>3. "results" \in Files
    BY DEF Files
  <2>4. /\ disk' \in [Dirs -> [Files -> Content]] /\ disk'[d]["results"] = cmd[c].res
        /\ \A g \in Files : g # "results" => disk'[d][g] = disk[d][g]
        /\ \A e \in Dirs : e # d => disk'[e] = disk[e]
    BY <1>0, <1>2, <2>1, <2>2, <2>3, WritesFacts
  <2> QED
    BY <2>4 DEF Files
<1>4. /\ cmd' \in [Cmds -> CmdType]
      /\ cmd'[c].op = cmd[c].op /\ cmd'[c].at = "record" /\ cmd'[c].dir = d
      /\ cmd'[c].left = cmd[c].left /\ cmd'[c].res = cmd[c].res
      /\ \A b \in Cmds : b # c => cmd'[b] = cmd[b]
  <2>1. (Goto(c, "record") /\ cmd[c].left = cmd[c].left) \/ GotoWith(c, "record", cmd[c].left)
    BY <1>1, <1>2, <1>d DEF SaveResults
  <2>2. "record" \in Places /\ cmd[c].left \in SUBSET Files
    BY <1>0 DEF Places, TypeOK, Present
  <2> QED
    BY <1>0, <1>d, <2>1, <2>2, GotoFacts
<1>5. TypeOK'
  BY <1>0, <1>1, <1>2, <1>3, <1>4, <1>d DEF TypeOK, CmdType
<1>6. Local(c, d)
  BY <1>0, <1>1, <1>2, <1>3, <1>4, <1>d DEF Local
<1>7. Shape(c)'
  BY <1>0, <1>1, <1>2, <1>3, <1>4, <1>d, IdleFacts DEF Shape, Busy
<1>8. Evident'
  BY <1>0, <1>1, <1>2, <1>3, <1>4, <1>d DEF Evident, TypeOK, Absent, Torn, Blank, Shown, Loaded, Finished
<1>9. Progress(c)'
  <2> SUFFICES ASSUME Busy(c)', d[2] \notin tangled PROVE Written(c)'
    BY <1>1, <1>4, IdleFacts DEF Progress, Busy
  <2>1. Written(c)
    BY <1>0, <1>2, <1>d DEF Progress
  <2>2. Folder(d)
    BY <1>0, <1>2
  <2> QED
    BY <1>0, <1>1, <1>2, <1>3, <1>4, <1>d, <2>1, <2>2, IdleFacts DEF Written, Folder, Source, Busy, Files, Absent, Torn, Blank, Loaded, Finished, Shown
<1>10. Folder(d)'
  <2> SUFFICES ASSUME d[2] \notin tangled
               PROVE  /\ d \notin exists' => \A g \in Files : disk'[d][g] = Absent
                      /\ d \notin cut' /\ Quiet(d)' => Holds(d)'
                      /\ d \notin behind' /\ Quiet(d)' => Reported(d)'
    BY <1>1 DEF Folder
  <2>1. Written(c)
    BY <1>0, <1>1, <1>2, <1>d DEF Progress
  <2>2. /\ d \notin exists => \A g \in Files : disk[d][g] = Absent
        /\ d \notin cut /\ Quiet(d) => Holds(d)
        /\ d \notin behind /\ Quiet(d) => Reported(d)
    BY <1>0, <1>2 DEF Folder
  <2>3. \A b \in Cmds : b # c /\ Busy(b) => cmd[b].dir # d
    BY <1>0, <1>2, <1>d DEF Apart
  <2>4. \A b \in Cmds : b # c => cmd[b].dir # d
    BY <2>3, <1>2, IdleFacts DEF IInv, Shape
  <2>5. d \notin exists' => \A g \in Files : disk'[d][g] = Absent
    BY <1>0, <1>1, <1>2, <1>3, <1>4, <1>d, <2>1, <2>2 DEF Written, Files, Absent, Loaded, Finished, Torn, Present
  <2>6. ASSUME d \notin cut', Quiet(d)' PROVE Holds(d)'
    BY <1>0, <1>1, <1>2, <1>3, <1>4, <1>d, <2>1, <2>2, <2>4, <2>6, IdleFacts DEF Written, Holds, Quiet, OwesReport, is_run, Absent, Loaded, Finished, Torn, Blank, Shown, Files
  <2>7. ASSUME d \notin behind', Quiet(d)' PROVE Reported(d)'
    BY <1>0, <1>1, <1>2, <1>3, <1>4, <1>d, <2>1, <2>2, <2>4, <2>7, IdleFacts DEF Written, Reported, Quiet, OwesReport, is_run, Absent, Loaded, Finished, Torn, Blank, Shown, Files
  <2> QED
    BY <2>5, <2>6, <2>7
<1> QED
  BY <1>2, <1>5, <1>6, <1>7, <1>8, <1>9, <1>10, <1>d, StepFrame

LEMMA SaveRecordsPreserves ==
  ASSUME IInv, NEW c \in Cmds, SaveRecords(c)
  PROVE  IInv' /\ Busy(c) /\ cmd[c].dir \in Dirs /\ Local(c, cmd[c].dir)
<1>d. PICK d : d = cmd[c].dir
  OBVIOUS
<1>0. /\ TypeOK /\ Apart /\ Evident /\ Shape(c) /\ Progress(c)
      /\ \A e \in Dirs : Folder(e)
  BY DEF IInv
<1>1. /\ cmd[c].at = "record" /\ d \in exists
      /\ exists' = exists /\ cut' = cut /\ behind' = behind /\ made' = made
      /\ starts' = starts /\ tangled' = tangled
  BY <1>0, <1>d DEF SaveRecords, history
<1>2. /\ Busy(c) /\ d \in Dirs /\ cmd[c].op \in {"save"}
      /\ d[1] \in {"work", "saved"}
      /\ cmd[c].op \in {"pipeline", "amend"} => d[1] = "work"
      /\ cmd[c].op = "save" => d[1] = "saved" /\ Source(d) \in Dirs /\ Source(d) # d
  <2>1. cmd[c] # Idle
    BY <1>1, IdleFacts
  <2>2. Busy(c) /\ d \in Dirs /\ cmd[c].op \in Ops
    BY <1>0, <1>d, <2>1 DEF Shape, Busy, TypeOK
  <2> QED
    BY <1>0, <1>1, <1>d, <2>2, SourceFacts DEF Shape, Ops
<1>3. /\ disk' \in [Dirs -> [Files -> Content]]
      /\ \A e \in Dirs : e # d => disk'[e] = disk[e]
      /\ disk'[d]["manifest"] = disk[d]["manifest"]
      /\ disk'[d]["evidence"] = disk[d]["evidence"]
      /\ disk'[d]["report"] = disk[d]["report"]
      /\ disk'[d]["results"] = disk[d]["results"]
      /\ disk'[d]["record"] = 1
  <2>1. 1 \in Content
    BY <1>0, <1>1, <1>2, <1>d DEF TypeOK, Content, Torn, Blank, Absent, Loaded, Finished, Shown, Files, CmdType
  <2>2. Writes(d, "record", 1)
    BY <1>d DEF SaveRecords
  <2>3. "record" \in Files
    BY DEF Files
  <2>4. /\ disk' \in [Dirs -> [Files -> Content]] /\ disk'[d]["record"] = 1
        /\ \A g \in Files : g # "record" => disk'[d][g] = disk[d][g]
        /\ \A e \in Dirs : e # d => disk'[e] = disk[e]
    BY <1>0, <1>2, <2>1, <2>2, <2>3, WritesFacts
  <2> QED
    BY <2>4 DEF Files
<1>4. /\ cmd' \in [Cmds -> CmdType] /\ cmd'[c] = Idle
      /\ \A b \in Cmds : b # c => cmd'[b] = cmd[b]
  BY <1>0, DoneFacts DEF SaveRecords
<1>5. TypeOK'
  BY <1>0, <1>1, <1>2, <1>3, <1>4, <1>d DEF TypeOK, CmdType
<1>6. Local(c, d)
  BY <1>0, <1>1, <1>2, <1>3, <1>4, <1>d DEF Local
<1>7. Shape(c)'
  BY <1>0, <1>1, <1>2, <1>3, <1>4, <1>d, IdleFacts DEF Shape, Busy
<1>8. Evident'
  BY <1>0, <1>1, <1>2, <1>3, <1>4, <1>d DEF Evident, TypeOK, Absent, Torn, Blank, Shown, Loaded, Finished
<1>9. Progress(c)'
  <2> SUFFICES ASSUME Busy(c)', d[2] \notin tangled PROVE Written(c)'
    BY <1>1, <1>4, IdleFacts DEF Progress, Busy
  <2>1. Written(c)
    BY <1>0, <1>2, <1>d DEF Progress
  <2>2. Folder(d)
    BY <1>0, <1>2
  <2> QED
    BY <1>0, <1>1, <1>2, <1>3, <1>4, <1>d, <2>1, <2>2, IdleFacts DEF Written, Folder, Source, Busy, Files, Absent, Torn, Blank, Loaded, Finished, Shown
<1>10. Folder(d)'
  <2> SUFFICES ASSUME d[2] \notin tangled
               PROVE  /\ d \notin exists' => \A g \in Files : disk'[d][g] = Absent
                      /\ d \notin cut' /\ Quiet(d)' => Holds(d)'
                      /\ d \notin behind' /\ Quiet(d)' => Reported(d)'
    BY <1>1 DEF Folder
  <2>1. Written(c)
    BY <1>0, <1>1, <1>2, <1>d DEF Progress
  <2>2. /\ d \notin exists => \A g \in Files : disk[d][g] = Absent
        /\ d \notin cut /\ Quiet(d) => Holds(d)
        /\ d \notin behind /\ Quiet(d) => Reported(d)
    BY <1>0, <1>2 DEF Folder
  <2>3. \A b \in Cmds : b # c /\ Busy(b) => cmd[b].dir # d
    BY <1>0, <1>2, <1>d DEF Apart
  <2>4. \A b \in Cmds : b # c => cmd[b].dir # d
    BY <2>3, <1>2, IdleFacts DEF IInv, Shape
  <2>5. d \notin exists' => \A g \in Files : disk'[d][g] = Absent
    BY <1>0, <1>1, <1>2, <1>3, <1>4, <1>d, <2>1, <2>2 DEF Written, Files, Absent, Loaded, Finished, Torn, Present
  <2>6. ASSUME d \notin cut', Quiet(d)' PROVE Holds(d)'
    BY <1>0, <1>1, <1>2, <1>3, <1>4, <1>d, <2>1, <2>2, <2>4, <2>6, IdleFacts DEF Written, Holds, Quiet, OwesReport, is_run, Absent, Loaded, Finished, Torn, Blank, Shown, Files
  <2>7. ASSUME d \notin behind', Quiet(d)' PROVE Reported(d)'
    BY <1>0, <1>1, <1>2, <1>3, <1>4, <1>d, <2>1, <2>2, <2>4, <2>7, IdleFacts DEF Written, Reported, Quiet, OwesReport, is_run, Absent, Loaded, Finished, Torn, Blank, Shown, Files
  <2> QED
    BY <2>5, <2>6, <2>7
<1> QED
  BY <1>2, <1>5, <1>6, <1>7, <1>8, <1>9, <1>10, <1>d, StepFrame

LEMMA SaveCopiesPreserves ==
  ASSUME IInv, NEW c \in Cmds, SaveCopies(c)
  PROVE  IInv' /\ Busy(c) /\ cmd[c].dir \in Dirs /\ Local(c, cmd[c].dir)
<1>d. PICK d : d = cmd[c].dir
  OBVIOUS
<1>0. /\ TypeOK /\ Apart /\ Evident /\ Shape(c) /\ Progress(c)
      /\ \A e \in Dirs : Folder(e)
  BY DEF IInv
<1>1. /\ cmd[c].at = "make" /\ d \notin exists
      /\ exists' = exists \cup {d} /\ cut' = cut \ {d} /\ behind' = behind /\ made' = made
      /\ starts' = starts /\ tangled' = tangled
  BY <1>0, <1>d DEF SaveCopies, history
<1>2. /\ Busy(c) /\ d \in Dirs /\ cmd[c].op \in {"save"}
      /\ d[1] \in {"work", "saved"}
      /\ cmd[c].op \in {"pipeline", "amend"} => d[1] = "work"
      /\ cmd[c].op = "save" => d[1] = "saved" /\ Source(d) \in Dirs /\ Source(d) # d
  <2>1. cmd[c] # Idle
    BY <1>1, IdleFacts
  <2>2. Busy(c) /\ d \in Dirs /\ cmd[c].op \in Ops
    BY <1>0, <1>d, <2>1 DEF Shape, Busy, TypeOK
  <2> QED
    BY <1>0, <1>1, <1>d, <2>2, SourceFacts DEF Shape, Ops
<1>3. disk' = disk /\ disk' \in [Dirs -> [Files -> Content]]
  BY <1>0 DEF TypeOK, SaveCopies, history
<1>4. /\ cmd' \in [Cmds -> CmdType]
      /\ cmd'[c].op = cmd[c].op /\ cmd'[c].at = "copy" /\ cmd'[c].dir = d
      /\ cmd'[c].left = Present(Source(d)) /\ cmd'[c].res = cmd[c].res
      /\ \A b \in Cmds : b # c => cmd'[b] = cmd[b]
  <2>1. (Goto(c, "copy") /\ Present(Source(d)) = cmd[c].left) \/ GotoWith(c, "copy", Present(Source(d)))
    BY <1>1, <1>2, <1>d DEF SaveCopies
  <2>2. "copy" \in Places /\ Present(Source(d)) \in SUBSET Files
    BY <1>0 DEF Places, TypeOK, Present
  <2> QED
    BY <1>0, <1>d, <2>1, <2>2, GotoFacts
<1>5. TypeOK'
  BY <1>0, <1>1, <1>2, <1>3, <1>4, <1>d DEF TypeOK, CmdType
<1>6. Local(c, d)
  BY <1>0, <1>1, <1>2, <1>3, <1>4, <1>d DEF Local
<1>7. Shape(c)'
  BY <1>0, <1>1, <1>2, <1>3, <1>4, <1>d, IdleFacts DEF Shape, Busy
<1>8. Evident'
  BY <1>0, <1>1, <1>2, <1>3, <1>4, <1>d DEF Evident, TypeOK, Absent, Torn, Blank, Shown, Loaded, Finished
<1>9. Progress(c)'
  <2> SUFFICES ASSUME Busy(c)', d[2] \notin tangled PROVE Written(c)'
    BY <1>1, <1>4, IdleFacts DEF Progress, Busy
  <2>1. Written(c)
    BY <1>0, <1>2, <1>d DEF Progress
  <2>2. disk[d]["record"] = Absent /\ disk[d]["evidence"] = Absent
    BY <1>0, <1>1, <1>2 DEF Folder, Files
  <2>3. "record" \notin Present(Source(d))
    BY <1>0, <1>2, SourceFacts DEF Evident, Present
  <2>4. "evidence" \in Present(Source(d)) \/ disk[Source(d)]["evidence"] = Absent
    BY DEF Present, Files
  <2>5. cmd[c].res = Shown(disk[Source(d)]["evidence"])
    BY <1>1, <1>2, <1>d, <2>1 DEF Written
  <2> QED
    BY <1>1, <1>2, <1>3, <1>4, <1>d, <2>2, <2>3, <2>4, <2>5 DEF Written
<1>10. Folder(d)'
  <2> SUFFICES ASSUME d[2] \notin tangled
               PROVE  /\ d \notin exists' => \A g \in Files : disk'[d][g] = Absent
                      /\ d \notin cut' /\ Quiet(d)' => Holds(d)'
                      /\ d \notin behind' /\ Quiet(d)' => Reported(d)'
    BY <1>1 DEF Folder
  <2>1. Written(c)
    BY <1>0, <1>1, <1>2, <1>d DEF Progress
  <2>2. /\ d \notin exists => \A g \in Files : disk[d][g] = Absent
        /\ d \notin cut /\ Quiet(d) => Holds(d)
        /\ d \notin behind /\ Quiet(d) => Reported(d)
    BY <1>0, <1>2 DEF Folder
  <2>3. \A b \in Cmds : b # c /\ Busy(b) => cmd[b].dir # d
    BY <1>0, <1>2, <1>d DEF Apart
  <2>4. \A b \in Cmds : b # c => cmd[b].dir # d
    BY <2>3, <1>2, IdleFacts DEF IInv, Shape
  <2>5. d \notin exists' => \A g \in Files : disk'[d][g] = Absent
    BY <1>0, <1>1, <1>2, <1>3, <1>4, <1>d, <2>1, <2>2 DEF Written, Files, Absent, Loaded, Finished, Torn, Present
  <2>6. ASSUME d \notin cut', Quiet(d)' PROVE Holds(d)'
    BY <1>0, <1>1, <1>2, <1>3, <1>4, <1>d, <2>1, <2>2, <2>4, <2>6, IdleFacts DEF Written, Holds, Quiet, OwesReport, is_run, Absent, Loaded, Finished, Torn, Blank, Shown, Files
  <2>7. ASSUME d \notin behind', Quiet(d)' PROVE Reported(d)'
    BY <1>0, <1>1, <1>2, <1>3, <1>4, <1>d, <2>1, <2>2, <2>4, <2>7, IdleFacts DEF Written, Reported, Quiet, OwesReport, is_run, Absent, Loaded, Finished, Torn, Blank, Shown, Files
  <2> QED
    BY <2>5, <2>6, <2>7
<1> QED
  BY <1>2, <1>5, <1>6, <1>7, <1>8, <1>9, <1>10, <1>d, StepFrame

LEMMA RemoveListsPreserves ==
  ASSUME IInv, NEW c \in Cmds, cmd[c].dir \in exists, RemoveLists(c)
  PROVE  IInv' /\ Busy(c) /\ cmd[c].dir \in Dirs /\ Local(c, cmd[c].dir)
<1>d. PICK d : d = cmd[c].dir
  OBVIOUS
<1>0. /\ TypeOK /\ Apart /\ Evident /\ Shape(c) /\ Progress(c)
      /\ \A e \in Dirs : Folder(e)
  BY DEF IInv
<1>1. /\ cmd[c].at = "replace" /\ d \in exists
      /\ exists' = exists /\ cut' = cut /\ behind' = behind /\ made' = made
      /\ starts' = starts /\ tangled' = tangled
  BY <1>0, <1>d DEF RemoveLists, history
<1>2. /\ Busy(c) /\ d \in Dirs /\ cmd[c].op \in {"remove", "save"}
      /\ d[1] \in {"work", "saved"}
      /\ cmd[c].op \in {"pipeline", "amend"} => d[1] = "work"
      /\ cmd[c].op = "save" => d[1] = "saved" /\ Source(d) \in Dirs /\ Source(d) # d
  <2>1. cmd[c] # Idle
    BY <1>1, IdleFacts
  <2>2. Busy(c) /\ d \in Dirs /\ cmd[c].op \in Ops
    BY <1>0, <1>d, <2>1 DEF Shape, Busy, TypeOK
  <2> QED
    BY <1>0, <1>1, <1>d, <2>2, SourceFacts DEF Shape, Ops
<1>3. disk' = disk /\ disk' \in [Dirs -> [Files -> Content]]
  BY <1>0 DEF TypeOK, RemoveLists, history
<1>4. /\ cmd' \in [Cmds -> CmdType]
      /\ cmd'[c].op = cmd[c].op /\ cmd'[c].at = "remove" /\ cmd'[c].dir = d
      /\ cmd'[c].left = Present(d) /\ cmd'[c].res = cmd[c].res
      /\ \A b \in Cmds : b # c => cmd'[b] = cmd[b]
  <2>1. (Goto(c, "remove") /\ Present(d) = cmd[c].left) \/ GotoWith(c, "remove", Present(d))
    BY <1>1, <1>2, <1>d DEF RemoveLists
  <2>2. "remove" \in Places /\ Present(d) \in SUBSET Files
    BY <1>0 DEF Places, TypeOK, Present
  <2> QED
    BY <1>0, <1>d, <2>1, <2>2, GotoFacts
<1>5. TypeOK'
  BY <1>0, <1>1, <1>2, <1>3, <1>4, <1>d DEF TypeOK, CmdType
<1>6. Local(c, d)
  BY <1>0, <1>1, <1>2, <1>3, <1>4, <1>d DEF Local
<1>7. Shape(c)'
  BY <1>0, <1>1, <1>2, <1>3, <1>4, <1>d, IdleFacts DEF Shape, Busy
<1>8. Evident'
  BY <1>0, <1>1, <1>2, <1>3, <1>4, <1>d DEF Evident, TypeOK, Absent, Torn, Blank, Shown, Loaded, Finished
<1>9. Progress(c)'
  <2> SUFFICES ASSUME Busy(c)', d[2] \notin tangled PROVE Written(c)'
    BY <1>1, <1>4, IdleFacts DEF Progress, Busy
  <2>1. Written(c)
    BY <1>0, <1>2, <1>d DEF Progress
  <2>2. Folder(d)
    BY <1>0, <1>2
  <2> QED
    BY <1>0, <1>1, <1>2, <1>3, <1>4, <1>d, <2>1, <2>2, IdleFacts DEF Written, Folder, Source, Busy, Files, Absent, Torn, Blank, Loaded, Finished, Shown
<1>10. Folder(d)'
  <2> SUFFICES ASSUME d[2] \notin tangled
               PROVE  /\ d \notin exists' => \A g \in Files : disk'[d][g] = Absent
                      /\ d \notin cut' /\ Quiet(d)' => Holds(d)'
                      /\ d \notin behind' /\ Quiet(d)' => Reported(d)'
    BY <1>1 DEF Folder
  <2>1. Written(c)
    BY <1>0, <1>1, <1>2, <1>d DEF Progress
  <2>2. /\ d \notin exists => \A g \in Files : disk[d][g] = Absent
        /\ d \notin cut /\ Quiet(d) => Holds(d)
        /\ d \notin behind /\ Quiet(d) => Reported(d)
    BY <1>0, <1>2 DEF Folder
  <2>3. \A b \in Cmds : b # c /\ Busy(b) => cmd[b].dir # d
    BY <1>0, <1>2, <1>d DEF Apart
  <2>4. \A b \in Cmds : b # c => cmd[b].dir # d
    BY <2>3, <1>2, IdleFacts DEF IInv, Shape
  <2>5. d \notin exists' => \A g \in Files : disk'[d][g] = Absent
    BY <1>0, <1>1, <1>2, <1>3, <1>4, <1>d, <2>1, <2>2 DEF Written, Files, Absent, Loaded, Finished, Torn, Present
  <2>6. ASSUME d \notin cut', Quiet(d)' PROVE Holds(d)'
    BY <1>0, <1>1, <1>2, <1>3, <1>4, <1>d, <2>1, <2>2, <2>4, <2>6, IdleFacts DEF Written, Holds, Quiet, OwesReport, is_run, Absent, Loaded, Finished, Torn, Blank, Shown, Files
  <2>7. ASSUME d \notin behind', Quiet(d)' PROVE Reported(d)'
    BY <1>0, <1>1, <1>2, <1>3, <1>4, <1>d, <2>1, <2>2, <2>4, <2>7, IdleFacts DEF Written, Reported, Quiet, OwesReport, is_run, Absent, Loaded, Finished, Torn, Blank, Shown, Files
  <2> QED
    BY <2>5, <2>6, <2>7
<1> QED
  BY <1>2, <1>5, <1>6, <1>7, <1>8, <1>9, <1>10, <1>d, StepFrame

LEMMA NothingToRemovePreserves ==
  ASSUME IInv, NEW c \in Cmds, cmd[c].dir \notin exists, RemoveLists(c)
  PROVE  IInv' /\ Busy(c) /\ cmd[c].dir \in Dirs /\ Local(c, cmd[c].dir)
<1>d. PICK d : d = cmd[c].dir
  OBVIOUS
<1>0. /\ TypeOK /\ Apart /\ Evident /\ Shape(c) /\ Progress(c)
      /\ \A e \in Dirs : Folder(e)
  BY DEF IInv
<1>1. /\ cmd[c].at = "replace" /\ cmd[c].op = "save" /\ d \notin exists
      /\ exists' = exists /\ cut' = cut /\ behind' = behind /\ made' = made
      /\ starts' = starts /\ tangled' = tangled
  BY <1>0, <1>d DEF RemoveLists, history
<1>2. /\ Busy(c) /\ d \in Dirs /\ cmd[c].op \in {"save"}
      /\ d[1] \in {"work", "saved"}
      /\ cmd[c].op \in {"pipeline", "amend"} => d[1] = "work"
      /\ cmd[c].op = "save" => d[1] = "saved" /\ Source(d) \in Dirs /\ Source(d) # d
  <2>1. cmd[c] # Idle
    BY <1>1, IdleFacts
  <2>2. Busy(c) /\ d \in Dirs /\ cmd[c].op \in Ops
    BY <1>0, <1>d, <2>1 DEF Shape, Busy, TypeOK
  <2> QED
    BY <1>0, <1>1, <1>d, <2>2, SourceFacts DEF Shape, Ops
<1>3. disk' = disk /\ disk' \in [Dirs -> [Files -> Content]]
  BY <1>0 DEF TypeOK, RemoveLists, history
<1>4. /\ cmd' \in [Cmds -> CmdType]
      /\ cmd'[c].op = cmd[c].op /\ cmd'[c].at = "make" /\ cmd'[c].dir = d
      /\ cmd'[c].left = cmd[c].left /\ cmd'[c].res = cmd[c].res
      /\ \A b \in Cmds : b # c => cmd'[b] = cmd[b]
  <2>1. (Goto(c, "make") /\ cmd[c].left = cmd[c].left) \/ GotoWith(c, "make", cmd[c].left)
    BY <1>1, <1>2, <1>d DEF RemoveLists
  <2>2. "make" \in Places /\ cmd[c].left \in SUBSET Files
    BY <1>0 DEF Places, TypeOK, Present
  <2> QED
    BY <1>0, <1>d, <2>1, <2>2, GotoFacts
<1>5. TypeOK'
  BY <1>0, <1>1, <1>2, <1>3, <1>4, <1>d DEF TypeOK, CmdType
<1>6. Local(c, d)
  BY <1>0, <1>1, <1>2, <1>3, <1>4, <1>d DEF Local
<1>7. Shape(c)'
  BY <1>0, <1>1, <1>2, <1>3, <1>4, <1>d, IdleFacts DEF Shape, Busy
<1>8. Evident'
  BY <1>0, <1>1, <1>2, <1>3, <1>4, <1>d DEF Evident, TypeOK, Absent, Torn, Blank, Shown, Loaded, Finished
<1>9. Progress(c)'
  <2> SUFFICES ASSUME Busy(c)', d[2] \notin tangled PROVE Written(c)'
    BY <1>1, <1>4, IdleFacts DEF Progress, Busy
  <2>1. Written(c)
    BY <1>0, <1>2, <1>d DEF Progress
  <2>2. Folder(d)
    BY <1>0, <1>2
  <2> QED
    BY <1>0, <1>1, <1>2, <1>3, <1>4, <1>d, <2>1, <2>2, IdleFacts DEF Written, Folder, Source, Busy, Files, Absent, Torn, Blank, Loaded, Finished, Shown
<1>10. Folder(d)'
  <2> SUFFICES ASSUME d[2] \notin tangled
               PROVE  /\ d \notin exists' => \A g \in Files : disk'[d][g] = Absent
                      /\ d \notin cut' /\ Quiet(d)' => Holds(d)'
                      /\ d \notin behind' /\ Quiet(d)' => Reported(d)'
    BY <1>1 DEF Folder
  <2>1. Written(c)
    BY <1>0, <1>1, <1>2, <1>d DEF Progress
  <2>2. /\ d \notin exists => \A g \in Files : disk[d][g] = Absent
        /\ d \notin cut /\ Quiet(d) => Holds(d)
        /\ d \notin behind /\ Quiet(d) => Reported(d)
    BY <1>0, <1>2 DEF Folder
  <2>3. \A b \in Cmds : b # c /\ Busy(b) => cmd[b].dir # d
    BY <1>0, <1>2, <1>d DEF Apart
  <2>4. \A b \in Cmds : b # c => cmd[b].dir # d
    BY <2>3, <1>2, IdleFacts DEF IInv, Shape
  <2>5. d \notin exists' => \A g \in Files : disk'[d][g] = Absent
    BY <1>0, <1>1, <1>2, <1>3, <1>4, <1>d, <2>1, <2>2 DEF Written, Files, Absent, Loaded, Finished, Torn, Present
  <2>6. ASSUME d \notin cut', Quiet(d)' PROVE Holds(d)'
    BY <1>0, <1>1, <1>2, <1>3, <1>4, <1>d, <2>1, <2>2, <2>4, <2>6, IdleFacts DEF Written, Holds, Quiet, OwesReport, is_run, Absent, Loaded, Finished, Torn, Blank, Shown, Files
  <2>7. ASSUME d \notin behind', Quiet(d)' PROVE Reported(d)'
    BY <1>0, <1>1, <1>2, <1>3, <1>4, <1>d, <2>1, <2>2, <2>4, <2>7, IdleFacts DEF Written, Reported, Quiet, OwesReport, is_run, Absent, Loaded, Finished, Torn, Blank, Shown, Files
  <2> QED
    BY <2>5, <2>6, <2>7
<1> QED
  BY <1>2, <1>5, <1>6, <1>7, <1>8, <1>9, <1>10, <1>d, StepFrame

LEMMA RemoveEndsPreserves ==
  ASSUME IInv, NEW c \in Cmds, RemoveEnds(c)
  PROVE  IInv' /\ Busy(c) /\ cmd[c].dir \in Dirs /\ Local(c, cmd[c].dir)
<1>d. PICK d : d = cmd[c].dir
  OBVIOUS
<1>0. /\ TypeOK /\ Apart /\ Evident /\ Shape(c) /\ Progress(c)
      /\ \A e \in Dirs : Folder(e)
  BY DEF IInv
<1>1. /\ cmd[c].at = "remove" /\ d \in exists /\ Present(d) = {}
      /\ exists' = exists \ {d} /\ cut' = cut /\ behind' = behind /\ made' = made
      /\ starts' = starts /\ tangled' = tangled
  BY <1>0, <1>d DEF RemoveEnds, history
<1>2. /\ Busy(c) /\ d \in Dirs /\ cmd[c].op \in {"remove", "save"}
      /\ d[1] \in {"work", "saved"}
      /\ cmd[c].op \in {"pipeline", "amend"} => d[1] = "work"
      /\ cmd[c].op = "save" => d[1] = "saved" /\ Source(d) \in Dirs /\ Source(d) # d
  <2>1. cmd[c] # Idle
    BY <1>1, IdleFacts
  <2>2. Busy(c) /\ d \in Dirs /\ cmd[c].op \in Ops
    BY <1>0, <1>d, <2>1 DEF Shape, Busy, TypeOK
  <2> QED
    BY <1>0, <1>1, <1>d, <2>2, SourceFacts DEF Shape, Ops
<1>3. disk' = disk /\ disk' \in [Dirs -> [Files -> Content]]
  BY <1>0 DEF TypeOK, RemoveEnds, history
<1>4. /\ cmd' \in [Cmds -> CmdType]
      /\ \A b \in Cmds : b # c => cmd'[b] = cmd[b]
      /\ \/ cmd[c].op # "save" /\ cmd'[c] = Idle
         \/ /\ cmd[c].op = "save"
            /\ cmd'[c].op = cmd[c].op /\ cmd'[c].at = "make" /\ cmd'[c].dir = d
            /\ cmd'[c].left = cmd[c].left /\ cmd'[c].res = cmd[c].res
  <2>1. CASE cmd[c].op # "save"
    <3>1. Done(c)
      BY <2>1 DEF RemoveEnds
    <3> QED
      BY <1>0, <2>1, <3>1, DoneFacts
  <2>2. CASE cmd[c].op = "save"
    <3>1. Goto(c, "make")
      BY <2>2 DEF RemoveEnds
    <3>2. "make" \in Places /\ cmd[c].left \in SUBSET Files
      BY <1>0 DEF Places, TypeOK
    <3> QED
      BY <1>0, <1>d, <2>2, <3>1, <3>2, GotoFacts
  <2> QED
    BY <2>1, <2>2
<1>5. TypeOK'
  BY <1>0, <1>1, <1>2, <1>3, <1>4, <1>d DEF TypeOK, CmdType
<1>6. Local(c, d)
  BY <1>0, <1>1, <1>2, <1>3, <1>4, <1>d DEF Local
<1>7. Shape(c)'
  BY <1>0, <1>1, <1>2, <1>3, <1>4, <1>d, IdleFacts DEF Shape, Busy
<1>8. Evident'
  BY <1>0, <1>1, <1>2, <1>3, <1>4, <1>d DEF Evident, TypeOK, Absent, Torn, Blank, Shown, Loaded, Finished
<1>9. Progress(c)'
  <2> SUFFICES ASSUME Busy(c)', d[2] \notin tangled PROVE Written(c)'
    BY <1>1, <1>4, IdleFacts DEF Progress, Busy
  <2>1. Written(c)
    BY <1>0, <1>2, <1>d DEF Progress
  <2>2. Folder(d)
    BY <1>0, <1>2
  <2> QED
    BY <1>0, <1>1, <1>2, <1>3, <1>4, <1>d, <2>1, <2>2, IdleFacts DEF Written, Folder, Source, Busy, Files, Absent, Torn, Blank, Loaded, Finished, Shown
<1>10. Folder(d)'
  <2>1. \A g \in Files : disk'[d][g] = Absent
    BY <1>1, <1>3 DEF Present
  <2>2. d \notin exists' /\ disk'[d]["manifest"] # Finished
    BY <1>1, <2>1 DEF Files, Absent, Finished
  <2>3. Holds(d)' /\ Reported(d)'
    BY <2>2 DEF Holds, Reported, is_run
  <2> QED
    BY <2>1, <2>3 DEF Folder
<1> QED
  BY <1>2, <1>5, <1>6, <1>7, <1>8, <1>9, <1>10, <1>d, StepFrame

LEMMA EndsEarlyPreserves ==
  ASSUME IInv, NEW c \in Cmds, EndsEarly(c)
  PROVE  IInv' /\ Busy(c) /\ cmd[c].dir \in Dirs /\ Local(c, cmd[c].dir)
<1>d. PICK d : d = cmd[c].dir
  OBVIOUS
<1>0. /\ TypeOK /\ Apart /\ Evident /\ Shape(c) /\ Progress(c)
      /\ \A e \in Dirs : Folder(e)
  BY DEF IInv
<1>1. /\ cmd[c] # Idle
      /\ exists' = exists /\ cut \subseteq cut' /\ cut' \subseteq cut \cup {d}
      /\ behind \subseteq behind' /\ behind' \subseteq behind \cup {d}
      /\ d \notin cut' =>
           /\ cmd[c].at # "remove"
           /\ cmd[c].op = "emit" => cmd[c].at \notin {"writing", "report"}
      /\ d \notin behind' => ~OwesReport(c)
      /\ made' = made
      /\ starts' = starts /\ tangled' = tangled
  BY <1>0, <1>d DEF EndsEarly, history
<1>2. /\ Busy(c) /\ d \in Dirs /\ cmd[c].op \in {"pipeline", "amend", "emit", "save", "remove"}
      /\ d[1] \in {"work", "saved"}
      /\ cmd[c].op \in {"pipeline", "amend"} => d[1] = "work"
      /\ cmd[c].op = "save" => d[1] = "saved" /\ Source(d) \in Dirs /\ Source(d) # d
  <2>1. cmd[c] # Idle
    BY <1>1, IdleFacts
  <2>2. Busy(c) /\ d \in Dirs /\ cmd[c].op \in Ops
    BY <1>0, <1>d, <2>1 DEF Shape, Busy, TypeOK
  <2> QED
    BY <1>0, <1>1, <1>d, <2>2, SourceFacts DEF Shape, Ops
<1>3. disk' = disk /\ disk' \in [Dirs -> [Files -> Content]]
  BY <1>0 DEF TypeOK, EndsEarly, history
<1>4. /\ cmd' \in [Cmds -> CmdType] /\ cmd'[c] = Idle
      /\ \A b \in Cmds : b # c => cmd'[b] = cmd[b]
  BY <1>0, DoneFacts DEF EndsEarly
<1>5. TypeOK'
  BY <1>0, <1>1, <1>2, <1>3, <1>4, <1>d DEF TypeOK, CmdType
<1>6. Local(c, d)
  BY <1>0, <1>1, <1>2, <1>3, <1>4, <1>d DEF Local
<1>7. Shape(c)'
  BY <1>0, <1>1, <1>2, <1>3, <1>4, <1>d, IdleFacts DEF Shape, Busy
<1>8. Evident'
  BY <1>0, <1>1, <1>2, <1>3, <1>4, <1>d DEF Evident, TypeOK, Absent, Torn, Blank, Shown, Loaded, Finished
<1>9. Progress(c)'
  <2> SUFFICES ASSUME Busy(c)', d[2] \notin tangled PROVE Written(c)'
    BY <1>1, <1>4, IdleFacts DEF Progress, Busy
  <2>1. Written(c)
    BY <1>0, <1>2, <1>d DEF Progress
  <2>2. Folder(d)
    BY <1>0, <1>2
  <2> QED
    BY <1>0, <1>1, <1>2, <1>3, <1>4, <1>d, <2>1, <2>2, IdleFacts DEF Written, Folder, Source, Busy, Files, Absent, Torn, Blank, Loaded, Finished, Shown
<1>10. Folder(d)'
  <2> SUFFICES ASSUME d[2] \notin tangled
               PROVE  (d \notin cut' => Holds(d)) /\ (d \notin behind' => Reported(d))
    BY <1>0, <1>1, <1>2, <1>3 DEF Folder, Holds, Reported, is_run
  <2>1. Written(c)
    BY <1>0, <1>1, <1>2, <1>d DEF Progress
  <2>2. \A b \in Cmds : b # c /\ Busy(b) => cmd[b].dir # d
    BY <1>0, <1>2, <1>d DEF Apart
  <2>3. \A b \in Cmds : b # c => cmd[b].dir # d
    BY <2>2, <1>2, IdleFacts DEF IInv, Shape
  <2>4. ASSUME d \notin cut' PROVE Holds(d)
    <3>1. /\ d \notin cut /\ cmd[c].at # "remove"
          /\ cmd[c].op = "emit" => cmd[c].at \notin {"writing", "report"}
      BY <1>1, <2>4
    <3>2. CASE d[1] = "work"
      BY <3>2 DEF Holds
    <3>3. CASE d[1] = "saved" /\ cmd[c].at \notin {"writing", "report"}
      <4>1. Quiet(d)
        BY <1>2, <1>d, <2>3, <3>1, <3>3 DEF Quiet, OwesReport
      <4> QED
        BY <1>0, <1>2, <3>1, <4>1 DEF Folder
    <3>4. CASE d[1] = "saved" /\ cmd[c].at \in {"writing", "report"}
      <4>1. cmd[c].op = "save"
        BY <1>0, <1>2, <3>1, <3>4 DEF Shape
      <4> QED
        BY <1>2, <1>d, <2>1, <3>4, <4>1 DEF Written, Holds
    <3> QED
      BY <1>2, <3>2, <3>3, <3>4
  <2>5. ASSUME d \notin behind' PROVE Reported(d)
    <3>1. d \notin behind /\ ~OwesReport(c)
      BY <1>1, <2>5
    <3>2. CASE cmd[c].at # "writing"
      <4>1. Quiet(d)
        BY <1>d, <2>3, <3>1, <3>2 DEF Quiet, OwesReport
      <4> QED
        BY <1>0, <1>2, <3>1, <4>1 DEF Folder
    <3>3. CASE cmd[c].at = "writing"
      BY <1>d, <2>1, <3>3 DEF Written, Reported, Torn, Finished
    <3> QED
      BY <3>2, <3>3
  <2> QED
    BY <2>4, <2>5
<1> QED
  BY <1>2, <1>5, <1>6, <1>7, <1>8, <1>9, <1>10, <1>d, StepFrame

-----------------------------------------------------------------------------
(* A command that begins changes no folder; what it meets there it may rely on.*)
LEMMA BeginPreserves ==
  ASSUME IInv, NEW c \in Cmds, NEW op \in Ops, NEW at \in Places, NEW d \in Dirs, NEW res \in Content,
         Begin(c, op, at, d, res),
         \/ op = "pipeline" /\ at = "load" /\ d[1] = "work"
         \/ op = "amend" /\ at = "measure" /\ d[1] = "work"
         \/ op = "emit" /\ at = "output"
         \/ op = "remove" /\ at = "replace"
         \/ op = "save" /\ at = "replace" /\ d[1] = "saved" /\ res = Shown(disk[Source(d)]["evidence"])
  PROVE  IInv'
<1>0. /\ TypeOK /\ Apart /\ Evident
      /\ \A b \in Cmds : Shape(b) /\ Progress(b)
      /\ \A e \in Dirs : Folder(e)
  BY DEF IInv
<1>1. /\ exists' = exists /\ disk' = disk /\ made' = made /\ starts' = starts + 1
      /\ cut' = cut /\ behind' = behind
      /\ cmd[c] = Idle
  BY DEF Begin
<1>2. /\ cmd' \in [Cmds -> CmdType]
      /\ cmd'[c].op = op /\ cmd'[c].at = at /\ cmd'[c].dir = d /\ cmd'[c].res = res
      /\ \A b \in Cmds : b # c => cmd'[b] = cmd[b]
  <2>1. /\ cmd \in [Cmds -> CmdType]
        /\ cmd' = [cmd EXCEPT ![c] = [op |-> op, at |-> at, dir |-> d, left |-> {}, res |-> res]]
    BY <1>0 DEF TypeOK, CmdType, Begin
  <2>2. [op |-> op, at |-> at, dir |-> d, left |-> {}, res |-> res] \in CmdType
    BY DEF CmdType
  <2> QED
    BY <2>1, <2>2
<1>3. /\ tangled \subseteq tangled' /\ tangled' \subseteq Names
      /\ \A b \in Cmds : Busy(b) /\ cmd[b].dir[2] = d[2] => d[2] \in tangled'
  <2>1. \A b \in Cmds : Busy(b) => cmd[b] # Idle
    BY IdleFacts DEF Busy
  <2>2. tangled \subseteq Names /\ d[2] \in Names
    BY <1>0, SourceFacts DEF TypeOK
  <2>3. CASE \E b \in Cmds : cmd[b] # Idle /\ cmd[b].dir[2] = d[2]
    BY <2>2, <2>3 DEF Begin
  <2>4. CASE ~\E b \in Cmds : cmd[b] # Idle /\ cmd[b].dir[2] = d[2]
    BY <2>1, <2>2, <2>4 DEF Begin
  <2> QED
    BY <2>3, <2>4
<1>4. TypeOK'
  BY <1>0, <1>1, <1>2, <1>3 DEF TypeOK, CmdType
<1>5. Apart'
  BY <1>0, <1>2, <1>3 DEF Apart, Busy
<1>6. Evident'
  BY <1>0, <1>1 DEF Evident
<1>7. ASSUME NEW b \in Cmds PROVE Shape(b)'
  <2>1. CASE b = c
    BY <1>2, <2>1 DEF Shape, Busy, Ops
  <2>2. CASE b # c
    BY <1>0, <1>2, <2>2 DEF Shape, Busy
  <2> QED
    BY <2>1, <2>2
<1>8. ASSUME NEW b \in Cmds PROVE Progress(b)'
  <2>1. CASE b = c
    <3>1. d \in Dirs /\ Source(d) = <<"work", d[2]>>
      BY DEF Source
    <3>2. Written(c)'
      BY <1>1, <1>2, <3>1 DEF Written, Source
    <3> QED
      BY <2>1, <3>2 DEF Progress
  <2>2. CASE b # c
    <3>1. cmd'[b] = cmd[b] /\ (cmd[b].dir[2] \notin tangled' => cmd[b].dir[2] \notin tangled)
      BY <1>2, <1>3, <2>2
    <3>2. Written(b) => Written(b)'
      BY <1>1, <3>1 DEF Written, Source
    <3> QED
      BY <1>0, <3>1, <3>2 DEF Progress, Busy
  <2> QED
    BY <2>1, <2>2
<1>9. ASSUME NEW e \in Dirs PROVE Folder(e)'
  <2>1. Quiet(e)' => Quiet(e)
    BY <1>1, <1>2, IdleFacts DEF Quiet, OwesReport
  <2>2. (Holds(e)' <=> Holds(e)) /\ (Reported(e)' <=> Reported(e))
    BY <1>1 DEF Holds, Reported, is_run
  <2> QED
    BY <1>0, <1>1, <1>3, <2>1, <2>2 DEF Folder
<1> QED
  BY <1>4, <1>5, <1>6, <1>7, <1>8, <1>9 DEF IInv

LEMMA BeginsPreserve ==
  ASSUME IInv, NEW c \in Cmds,
         \/ \E n \in Names : PipelineBegins(c, n) \/ AmendBegins(c, n) \/ EmitBegins(c, n) \/ SaveBegins(c, n)
         \/ \E d \in Dirs : RemoveBegins(c, d)
  PROVE  IInv'
<1>0. /\ {"pipeline", "amend", "emit", "save", "remove"} \subseteq Ops
      /\ {"load", "measure", "output", "replace"} \subseteq Places /\ Absent \in Content
  BY DEF Ops, Places, Content, Absent
<1>1. ASSUME NEW n \in Names, PipelineBegins(c, n) PROVE IInv'
  <2>1. <<"work", n>> \in Dirs /\ Begin(c, "pipeline", "load", <<"work", n>>, Absent)
    BY <1>1 DEF Dirs, PipelineBegins
  <2> QED
    BY <1>0, <2>1, BeginPreserves
<1>2. ASSUME NEW n \in Names, EmitBegins(c, n) PROVE IInv'
  <2>1. PICK d \in Dirs : Begin(c, "emit", "output", d, Absent)
    BY <1>2 DEF EmitBegins
  <2> QED
    BY <1>0, <2>1, BeginPreserves
<1>3. ASSUME NEW n \in Names, SaveBegins(c, n) PROVE IInv'
  <2> DEFINE d == <<"saved", n>>
             res == Shown(disk[<<"work", n>>]["evidence"])
  <2>1. d \in Dirs /\ d[1] = "saved" /\ Begin(c, "save", "replace", d, res)
    BY <1>3 DEF Dirs, SaveBegins
  <2>2. res = Shown(disk[Source(d)]["evidence"])
    BY DEF Source
  <2>3. disk[<<"work", n>>]["evidence"] \in Content
    BY DEF IInv, TypeOK, Dirs, Files
  <2>4. res \in Content
    BY <2>3 DEF Shown, Content, Blank
  <2> HIDE DEF d, res
  <2> QED
    BY <1>0, <2>1, <2>2, <2>4, BeginPreserves
<1>4. ASSUME NEW d \in Dirs, RemoveBegins(c, d) PROVE IInv'
  <2>1. Begin(c, "remove", "replace", d, Absent)
    BY <1>4 DEF RemoveBegins
  <2> QED
    BY <1>0, <2>1, BeginPreserves
<1>5. ASSUME NEW n \in Names, AmendBegins(c, n) PROVE IInv'
  <2>1. <<"work", n>> \in Dirs /\ Begin(c, "amend", "measure", <<"work", n>>, Absent)
    BY <1>5 DEF Dirs, AmendBegins
  <2> QED
    BY <1>0, <2>1, BeginPreserves
<1> QED
  BY <1>1, <1>2, <1>3, <1>4, <1>5

LEMMA StutterPreserves ==
  ASSUME IInv, UNCHANGED vars
  PROVE  IInv'
<1>1. UNCHANGED <<exists, disk, cmd, made, starts, cut, behind, tangled>>
  BY DEF vars
<1>2. TypeOK' /\ Apart' /\ Evident'
  BY <1>1 DEF IInv, TypeOK, Apart, Evident, Busy
<1>3. \A c \in Cmds : Shape(c)' /\ Progress(c)'
  BY <1>1 DEF IInv, Shape, Progress, Busy, Written, Source
<1>4. \A d \in Dirs : Folder(d)'
  BY <1>1 DEF IInv, Folder, Quiet, OwesReport, Holds, Reported, is_run
<1> QED
  BY <1>2, <1>3, <1>4 DEF IInv

LEMMA NextPreserves == IInv /\ [Next]_vars => IInv'
<1> SUFFICES ASSUME IInv, [Next]_vars PROVE IInv'
  OBVIOUS
<1>1. ASSUME NEW c \in Cmds, Command(c) PROVE IInv'
  <2>1. ASSUME RemoveLists(c) PROVE IInv'
    BY <2>1, RemoveListsPreserves, NothingToRemovePreserves
  <2> QED
    BY <1>1, <2>1, BeginsPreserve, LoadWritesPreserves, LoadEndsPreserves, MeasurePreserves,
       MeasureRefusedPreserves, StageUpdatesPreserves, StageUpdatedPreserves,
       OutputUpdatesPreserves, OutputUpdatedPreserves,
       OutputReportsPreserves, RemoveEndsPreserves, SaveCopiesPreserves, CopyEndsPreserves,
       RemoveFilePreserves, CopyFilePreserves, SaveResultsPreserves, SaveRecordsPreserves,
       EndsEarlyPreserves DEF Command
<1>2. CASE UNCHANGED vars
  BY <1>2, StutterPreserves
<1> QED
  BY <1>1, <1>2 DEF Next

LEMMA Inductive == Spec => []IInv
  BY InitEstablishes, NextPreserves, PTL DEF Spec

(* The folders and the commands stay in their types (screen.py, common.py).    *)
THEOREM FoldersTyped == Spec => []TypeOK
<1>1. IInv => TypeOK
  BY DEF IInv
<1> QED
  BY <1>1, Inductive, PTL

LEMMA SettledHolds ==
  ASSUME IInv, NEW d \in Dirs, Settled(d)
  PROVE  Holds(d)
<1>1. Quiet(d) /\ d \notin cut /\ d[2] \notin tangled
  BY DEF Settled, Quiet
<1> QED
  BY <1>1 DEF IInv, Folder

(* A run on the saved list holds the evidence, the report and the results it   *)
(* was saved with, whatever stopped this save or an earlier one (screen.py     *)
(* save, saved).                                                               *)
THEOREM SavedRunsAreWhole == Spec => []SaveIsWhole
<1>1. IInv => SaveIsWhole
  <2> SUFFICES ASSUME IInv, NEW n \in Names, Listed(n), Settled(<<"saved", n>>)
               PROVE  LET folder == disk[<<"saved", n>>] IN
                      /\ folder["manifest"] = Finished
                      /\ folder["results"] = Shown(folder["evidence"])
                      /\ folder["report"] = folder["results"]
    BY DEF SaveIsWhole
  <2>1. <<"saved", n>> \in Dirs
    BY DEF Dirs
  <2>2. Holds(<<"saved", n>>)
    BY <2>1, SettledHolds
  <2> QED
    BY <2>2 DEF Holds, Listed
<1> QED
  BY <1>1, Inductive, PTL

(* A manifest that lists the output stage stands beside a report of the        *)
(* evidence in its folder, unless what ended early there left the report       *)
(* behind in one of the three ways OwesReport names, or two commands were at   *)
(* work there at once (output.py output_run, common.py update_manifest).       *)
THEOREM FinishedRunsAreReported == Spec => []FinishedReportedOrBehind
<1>1. IInv => FinishedReportedOrBehind
  <2> SUFFICES ASSUME IInv, NEW d \in Dirs, disk[d]["manifest"] = Finished,
                      d[1] = "saved" => Listed(d[2]), \A c \in Cmds : cmd[c].dir # d,
                      d \notin behind, d[2] \notin tangled
               PROVE  disk[d]["report"] = Shown(disk[d]["evidence"])
    BY DEF FinishedReportedOrBehind
  <2>1. d = <<d[1], d[2]>>
    BY SourceFacts
  <2>2. Quiet(d)
    BY DEF Quiet
  <2>3. Reported(d)
    BY <2>2 DEF IInv, Folder
  <2> QED
    BY <2>1, <2>3 DEF Reported, Listed
<1> QED
  BY <1>1, Inductive, PTL

-----------------------------------------------------------------------------
(* Saving in one step: what a reader sees of a name, and which steps of it     *)
(* SavedRun allows.                                                            *)

Alien(n) == \E c \in Cmds : cmd[c].dir = <<"saved", n>> /\ cmd[c].op # "emit" /\ cmd[c].at # "replace"

Trusted(n) == Listed(n) /\ <<"saved", n>> \notin cut /\ n \notin tangled /\ ~Alien(n)

KeptAt(n) ==
  IF <<"saved", n>> \notin exists THEN -4
  ELSE IF Trusted(n) THEN disk[<<"saved", n>>]["results"] ELSE -5

LEMMA KeptIs == Kept = [n \in Names |-> KeptAt(n)]
  BY DEF Kept, KeptAt, Trusted, Alien

LEMMA KeptStays == (\A n \in Names : KeptAt(n)' = KeptAt(n)) => Kept' = Kept
<1>1. Kept' = [n \in Names |-> KeptAt(n)']
  BY DEF Kept, KeptAt, Trusted, Alien
<1> QED
  BY <1>1, KeptIs

Move(n) ==
  \/ KeptAt(n)' = KeptAt(n)
  \/ KeptAt(n)' = -5
  \/ KeptAt(n) = -5 /\ KeptAt(n)' = -4
  \/ KeptAt(n) = -5 /\ KeptAt(n)' \in (1 .. made) \cup {Blank}

(* A save is trusted after a step only if it was before, and is the same.      *)
LEMMA Distrusting ==
  ASSUME NEW n \in Names, NEW d, d = <<"saved", n>>, d \in exists => d \in exists',
         Trusted(n)' => Trusted(n) /\ disk'[d]["results"] = disk[d]["results"]
  PROVE  Move(n)
<1>1. Trusted(n)' => d \in exists'
  BY DEF Trusted, Listed, is_run
<1>2. Trusted(n) => d \in exists
  BY DEF Trusted, Listed, is_run
<1> QED
  BY <1>1, <1>2 DEF Move, KeptAt

LEMMA OneName ==
  ASSUME NEW n \in Names, Move(n), \A m \in Names : m # n => KeptAt(m)' = KeptAt(m), made' = made
  PROVE  [Saving!Next]_<<Kept, made>>
<1>1. Kept' = [Kept EXCEPT ![n] = KeptAt(n)']
  <2>1. Kept' = [m \in Names |-> KeptAt(m)']
    BY DEF Kept, KeptAt, Trusted, Alien
  <2> QED
    BY <2>1, KeptIs
<1>2. Kept[n] = KeptAt(n)
  BY KeptIs
<1>3. CASE KeptAt(n)' = KeptAt(n)
  <2>1. Kept' = Kept
    BY <1>1, <1>2, <1>3, KeptIs
  <2> QED
    BY <2>1
<1>4. CASE KeptAt(n)' = -5
  <2>1. Saving!Loosen(n)
    BY <1>1, <1>4 DEF Saving!Loosen, Saving!Loose
  <2> QED
    BY <2>1 DEF Saving!Next
<1>5. CASE KeptAt(n) = -5 /\ KeptAt(n)' = -4
  <2>1. Saving!Vanish(n)
    BY <1>1, <1>2, <1>5 DEF Saving!Vanish, Saving!Loose, Saving!NoSave
  <2> QED
    BY <2>1 DEF Saving!Next
<1>6. CASE KeptAt(n) = -5 /\ KeptAt(n)' \in (1 .. made) \cup {Blank}
  <2>1. KeptAt(n)' \in (1 .. made) \cup {Saving!Blank}
    BY <1>6 DEF Blank, Saving!Blank
  <2>2. Saving!Commit(n, KeptAt(n)')
    BY <1>1, <1>2, <1>6 DEF Saving!Commit, Saving!Loose
  <2> QED
    BY <2>1, <2>2 DEF Saving!Next
<1> QED
  BY <1>3, <1>4, <1>5, <1>6 DEF Move

(* A step of a command leaves the saves of other names as they are.            *)
LEMMA OtherNames ==
  ASSUME NEW c \in Cmds, NEW d \in Dirs, cmd[c].dir = d, Local(c, d),
         NEW m \in Names, <<"saved", m>> # d
  PROVE  KeptAt(m)' = KeptAt(m)
<1>1. /\ <<"saved", m>> \in Dirs
      /\ disk'[<<"saved", m>>] = disk[<<"saved", m>>] /\ tangled' = tangled
      /\ (<<"saved", m>> \in exists' <=> <<"saved", m>> \in exists)
      /\ (<<"saved", m>> \in cut' <=> <<"saved", m>> \in cut)
  BY DEF Local, Dirs
<1>2. Alien(m)' <=> Alien(m)
  BY <1>1, IdleFacts DEF Alien, Local
<1> QED
  BY <1>1, <1>2 DEF KeptAt, Trusted, Listed, is_run

LEMMA SaveStep ==
  ASSUME NEW c \in Cmds, NEW d \in Dirs, cmd[c].dir = d, Local(c, d), made' = made,
         d[1] = "saved" => Move(d[2])
  PROVE  [Saving!Next]_<<Kept, made>>
<1>1. d = <<d[1], d[2]>> /\ d[1] \in {"work", "saved"} /\ d[2] \in Names
  BY SourceFacts
<1>2. CASE d[1] = "saved"
  <2>1. \A m \in Names : m # d[2] => <<"saved", m>> # d
    BY <1>1
  <2>2. \A m \in Names : m # d[2] => KeptAt(m)' = KeptAt(m)
    BY <2>1, OtherNames
  <2> QED
    BY <1>1, <1>2, <2>2, OneName
<1>3. CASE d[1] = "work"
  <2>1. \A m \in Names : <<"saved", m>> # d
    BY <1>1, <1>3
  <2>2. \A m \in Names : KeptAt(m)' = KeptAt(m)
    BY <2>1, OtherNames
  <2>3. Kept' = Kept
    BY <2>2, KeptStays
  <2> QED
    BY <2>3
<1> QED
  BY <1>1, <1>2, <1>3

(* While a command other than an emit goes on, its save is not trusted.        *)
LEMMA GoesOn ==
  ASSUME NEW c \in Cmds, NEW d \in Dirs, d[1] = "saved",
         cmd'[c].dir = d, cmd'[c].op # "emit", cmd'[c].at # "replace"
  PROVE  ~Trusted(d[2])'
<1>1. d = <<"saved", d[2]>>
  BY SourceFacts
<1> QED
  BY <1>1 DEF Trusted, Alien

(* An emit, or a command at its first place, is not counted.                   *)
LEMMA Uncounted ==
  ASSUME NEW c \in Cmds, NEW d \in Dirs, Local(c, d), cmd[c].dir = d,
         cmd[c].op = "emit" \/ cmd[c].at = "replace", d[1] = "saved", Alien(d[2])
  PROVE  Alien(d[2])'
<1>1. PICK b \in Cmds : cmd[b].dir = <<"saved", d[2]>> /\ cmd[b].op # "emit" /\ cmd[b].at # "replace"
  BY DEF Alien
<1>2. cmd'[b] = cmd[b]
  BY <1>1 DEF Local
<1> QED
  BY <1>1, <1>2 DEF Alien

LEMMA LoadWritesRefines ==
  ASSUME IInv, NEW c \in Cmds, LoadWrites(c)
  PROVE  [Saving!Next]_<<Kept, made>>
<1>d. PICK d : d = cmd[c].dir
  OBVIOUS
<1>1. d \in Dirs /\ Local(c, d) /\ Busy(c) /\ made' = made
  BY <1>d, LoadWritesPreserves DEF LoadWrites, history
<1>2. d[1] = "work"
  BY <1>1, <1>d DEF IInv, Shape, Busy, TypeOK, Ops, LoadWrites
<1> QED
  BY <1>1, <1>2, <1>d, SaveStep

LEMMA LoadEndsRefines ==
  ASSUME IInv, NEW c \in Cmds, LoadEnds(c)
  PROVE  [Saving!Next]_<<Kept, made>>
<1>d. PICK d : d = cmd[c].dir
  OBVIOUS
<1>1. d \in Dirs /\ Local(c, d) /\ Busy(c) /\ made' = made
  BY <1>d, LoadEndsPreserves DEF LoadEnds, history
<1>2. d[1] = "work"
  BY <1>1, <1>d DEF IInv, Shape, Busy, TypeOK, Ops, LoadEnds
<1> QED
  BY <1>1, <1>2, <1>d, SaveStep

LEMMA StageUpdatesRefines ==
  ASSUME IInv, NEW c \in Cmds, StageUpdates(c)
  PROVE  [Saving!Next]_<<Kept, made>>
<1>d. PICK d : d = cmd[c].dir
  OBVIOUS
<1>1. d \in Dirs /\ Local(c, d) /\ Busy(c) /\ made' = made
  BY <1>d, StageUpdatesPreserves DEF StageUpdates, history
<1>2. d[1] = "work"
  BY <1>1, <1>d DEF IInv, Shape, Busy, TypeOK, Ops, StageUpdates
<1> QED
  BY <1>1, <1>2, <1>d, SaveStep

LEMMA StageUpdatedRefines ==
  ASSUME IInv, NEW c \in Cmds, StageUpdated(c)
  PROVE  [Saving!Next]_<<Kept, made>>
<1>d. PICK d : d = cmd[c].dir
  OBVIOUS
<1>1. d \in Dirs /\ Local(c, d) /\ Busy(c) /\ made' = made
  BY <1>d, StageUpdatedPreserves DEF StageUpdated, history
<1>2. d[1] = "work"
  BY <1>1, <1>d DEF IInv, Shape, Busy, TypeOK, Ops, StageUpdated
<1> QED
  BY <1>1, <1>2, <1>d, SaveStep

LEMMA RefusedRefines ==
  ASSUME IInv, NEW c \in Cmds, MeasureRefused(c)
  PROVE  [Saving!Next]_<<Kept, made>>
<1>d. PICK d : d = cmd[c].dir
  OBVIOUS
<1>1. d \in Dirs /\ Local(c, d) /\ Busy(c) /\ made' = made
  BY <1>d, MeasureRefusedPreserves DEF MeasureRefused, history
<1>2. d[1] = "work"
  BY <1>1, <1>d DEF IInv, Shape, Busy, TypeOK, Ops, MeasureRefused
<1> QED
  BY <1>1, <1>2, <1>d, SaveStep

LEMMA MeasureRefines ==
  ASSUME IInv, NEW c \in Cmds, Measure(c)
  PROVE  [Saving!Next]_<<Kept, made>>
<1>d. PICK d : d = cmd[c].dir
  OBVIOUS
<1>1. d \in Dirs /\ Local(c, d) /\ Busy(c) /\ made' = made + 1
  BY <1>d, MeasurePreserves DEF Measure
<1>2. d[1] = "work"
  BY <1>1, <1>d DEF IInv, Shape, Busy, TypeOK, Ops, Measure
<1>3. \A m \in Names : <<"saved", m>> # d
  BY <1>2
<1>4. \A m \in Names : KeptAt(m)' = KeptAt(m)
  BY <1>1, <1>3, <1>d, OtherNames
<1>5. Kept' = Kept
  BY <1>4, KeptStays
<1> QED
  BY <1>1, <1>5 DEF Saving!Next, Saving!Measure

LEMMA SaveCopiesRefines ==
  ASSUME IInv, NEW c \in Cmds, SaveCopies(c)
  PROVE  [Saving!Next]_<<Kept, made>>
<1>d. PICK d : d = cmd[c].dir
  OBVIOUS
<1>1. d \in Dirs /\ Local(c, d) /\ Busy(c) /\ made' = made
  BY <1>d, SaveCopiesPreserves DEF SaveCopies, history
<1>2. cmd'[c].op = cmd[c].op /\ cmd'[c].dir = d /\ cmd'[c].at = "copy"
  BY <1>d DEF SaveCopies, GotoWith, IInv, TypeOK
<1>3. cmd[c].op # "emit"
  BY <1>1 DEF IInv, Shape, Busy, SaveCopies
<1>4. d \in exists => d \in exists'
  BY <1>d DEF SaveCopies, history
<1>5. d[1] = "saved" => Move(d[2])
  <2> SUFFICES ASSUME d[1] = "saved" PROVE Move(d[2])
    OBVIOUS
  <2>1. ~Trusted(d[2])'
    BY <1>1, <1>2, <1>3, GoesOn
  <2> QED
    BY <1>1, <1>4, <2>1, SourceFacts, Distrusting
<1> QED
  BY <1>1, <1>5, <1>d, SaveStep

LEMMA CopyFileRefines ==
  ASSUME IInv, NEW c \in Cmds, NEW f \in Files, CopyFile(c, f)
  PROVE  [Saving!Next]_<<Kept, made>>
<1>d. PICK d : d = cmd[c].dir
  OBVIOUS
<1>1. d \in Dirs /\ Local(c, d) /\ Busy(c) /\ made' = made
  BY <1>d, CopyFilePreserves DEF CopyFile, history
<1>2. cmd'[c].op = cmd[c].op /\ cmd'[c].dir = d /\ cmd'[c].at = "copy"
  BY <1>d DEF CopyFile, GotoWith, IInv, TypeOK
<1>3. cmd[c].op # "emit"
  BY <1>1 DEF IInv, Shape, Busy, CopyFile
<1>4. d \in exists => d \in exists'
  BY <1>d DEF CopyFile, history
<1>5. d[1] = "saved" => Move(d[2])
  <2> SUFFICES ASSUME d[1] = "saved" PROVE Move(d[2])
    OBVIOUS
  <2>1. ~Trusted(d[2])'
    BY <1>1, <1>2, <1>3, GoesOn
  <2> QED
    BY <1>1, <1>4, <2>1, SourceFacts, Distrusting
<1> QED
  BY <1>1, <1>5, <1>d, SaveStep

LEMMA CopyEndsRefines ==
  ASSUME IInv, NEW c \in Cmds, CopyEnds(c)
  PROVE  [Saving!Next]_<<Kept, made>>
<1>d. PICK d : d = cmd[c].dir
  OBVIOUS
<1>1. d \in Dirs /\ Local(c, d) /\ Busy(c) /\ made' = made
  BY <1>d, CopyEndsPreserves DEF CopyEnds, history
<1>2. cmd'[c].op = cmd[c].op /\ cmd'[c].dir = d /\ cmd'[c].at = "output"
  BY <1>d DEF CopyEnds, Goto, IInv, TypeOK
<1>3. cmd[c].op # "emit"
  BY <1>1 DEF IInv, Shape, Busy, CopyEnds
<1>4. d \in exists => d \in exists'
  BY <1>d DEF CopyEnds, history
<1>5. d[1] = "saved" => Move(d[2])
  <2> SUFFICES ASSUME d[1] = "saved" PROVE Move(d[2])
    OBVIOUS
  <2>1. ~Trusted(d[2])'
    BY <1>1, <1>2, <1>3, GoesOn
  <2> QED
    BY <1>1, <1>4, <2>1, SourceFacts, Distrusting
<1> QED
  BY <1>1, <1>5, <1>d, SaveStep

LEMMA SaveResultsRefines ==
  ASSUME IInv, NEW c \in Cmds, SaveResults(c)
  PROVE  [Saving!Next]_<<Kept, made>>
<1>d. PICK d : d = cmd[c].dir
  OBVIOUS
<1>1. d \in Dirs /\ Local(c, d) /\ Busy(c) /\ made' = made
  BY <1>d, SaveResultsPreserves DEF SaveResults, history
<1>2. cmd'[c].op = cmd[c].op /\ cmd'[c].dir = d /\ cmd'[c].at = "record"
  BY <1>d DEF SaveResults, Goto, IInv, TypeOK
<1>3. cmd[c].op # "emit"
  BY <1>1 DEF IInv, Shape, Busy, SaveResults
<1>4. d \in exists => d \in exists'
  BY <1>d DEF SaveResults, history
<1>5. d[1] = "saved" => Move(d[2])
  <2> SUFFICES ASSUME d[1] = "saved" PROVE Move(d[2])
    OBVIOUS
  <2>1. ~Trusted(d[2])'
    BY <1>1, <1>2, <1>3, GoesOn
  <2> QED
    BY <1>1, <1>4, <2>1, SourceFacts, Distrusting
<1> QED
  BY <1>1, <1>5, <1>d, SaveStep

LEMMA RemoveFileRefines ==
  ASSUME IInv, NEW c \in Cmds, NEW f \in Files, RemoveFile(c, f)
  PROVE  [Saving!Next]_<<Kept, made>>
<1>d. PICK d : d = cmd[c].dir
  OBVIOUS
<1>1. d \in Dirs /\ Local(c, d) /\ Busy(c) /\ made' = made
  BY <1>d, RemoveFilePreserves DEF RemoveFile, history
<1>2. cmd'[c].op = cmd[c].op /\ cmd'[c].dir = d /\ cmd'[c].at = "remove"
  BY <1>d DEF RemoveFile, GotoWith, IInv, TypeOK
<1>3. cmd[c].op # "emit"
  BY <1>1 DEF IInv, Shape, Busy, RemoveFile
<1>4. d \in exists => d \in exists'
  BY <1>d DEF RemoveFile, history
<1>5. d[1] = "saved" => Move(d[2])
  <2> SUFFICES ASSUME d[1] = "saved" PROVE Move(d[2])
    OBVIOUS
  <2>1. ~Trusted(d[2])'
    BY <1>1, <1>2, <1>3, GoesOn
  <2> QED
    BY <1>1, <1>4, <2>1, SourceFacts, Distrusting
<1> QED
  BY <1>1, <1>5, <1>d, SaveStep

LEMMA RemoveListsRefines ==
  ASSUME IInv, NEW c \in Cmds, RemoveLists(c)
  PROVE  [Saving!Next]_<<Kept, made>>
<1>d. PICK d : d = cmd[c].dir
  OBVIOUS
<1>1. d \in Dirs /\ Local(c, d) /\ Busy(c) /\ made' = made
  BY <1>d, RemoveListsPreserves, NothingToRemovePreserves DEF RemoveLists, history
<1>2. cmd'[c].op = cmd[c].op /\ cmd'[c].dir = d /\ cmd'[c].at \in {"remove", "make"}
  BY <1>d DEF RemoveLists, GotoWith, Goto, IInv, TypeOK
<1>3. cmd[c].op # "emit"
  BY <1>1 DEF IInv, Shape, Busy, RemoveLists
<1>4. d \in exists => d \in exists'
  BY <1>d DEF RemoveLists
<1>5. d[1] = "saved" => Move(d[2])
  <2> SUFFICES ASSUME d[1] = "saved" PROVE Move(d[2])
    OBVIOUS
  <2>1. ~Trusted(d[2])'
    BY <1>1, <1>2, <1>3, GoesOn
  <2> QED
    BY <1>1, <1>4, <2>1, SourceFacts, Distrusting
<1> QED
  BY <1>1, <1>5, <1>d, SaveStep

LEMMA OutputUpdatesRefines ==
  ASSUME IInv, NEW c \in Cmds, OutputUpdates(c)
  PROVE  [Saving!Next]_<<Kept, made>>
<1>d. PICK d : d = cmd[c].dir
  OBVIOUS
<1>1. d \in Dirs /\ Local(c, d) /\ Busy(c) /\ made' = made
  BY <1>d, OutputUpdatesPreserves DEF OutputUpdates, history
<1>4. d \in exists => d \in exists'
  BY <1>d DEF OutputUpdates, history
<1>5. d[1] = "saved" => Move(d[2])
  <2> SUFFICES ASSUME d[1] = "saved", Trusted(d[2])' PROVE Trusted(d[2]) /\ disk'[d]["results"] = disk[d]["results"]
    BY <1>1, <1>4, SourceFacts, Distrusting
  <2>d. d = <<"saved", d[2]>> /\ d[2] \notin tangled /\ tangled' = tangled
    BY <1>1, SourceFacts DEF Trusted, Local
  <2>1. cmd[c].op = "emit"
    <3> SUFFICES ASSUME cmd[c].op # "emit" PROVE FALSE
      OBVIOUS
    <3>1. cmd[c].op = "save"
      BY <1>1, <1>d DEF IInv, Shape, Busy, TypeOK, Ops, OutputUpdates
    <3>2. cmd'[c].op = cmd[c].op /\ cmd'[c].dir = d /\ cmd'[c].at = "writing"
      BY <1>d, <3>1 DEF OutputUpdates, Goto, IInv, TypeOK
    <3> QED
      BY <1>1, <3>1, <3>2, GoesOn
  <2>2. ~Alien(d[2])
    BY <1>1, <1>d, <2>1, Uncounted DEF Trusted
  <2>3. /\ \A g \in Files : g # "manifest" => disk'[d][g] = disk[d][g]
        /\ exists' = exists /\ cut' = cut /\ disk[d]["manifest"] # Absent
    <3>1. Writes(d, "manifest", Torn) /\ "manifest" \in Files /\ Torn \in Content
      BY <1>d DEF OutputUpdates, Files, Content
    <3> QED
      BY <1>1, <1>d, <3>1, WritesFacts DEF IInv, OutputUpdates, history, Absent, Loaded, Finished
  <2>5. is_run(d) /\ disk[d]["record"] # Absent /\ d \notin cut /\ disk'[d]["results"] = disk[d]["results"]
    BY <2>d, <2>3 DEF Trusted, Listed, is_run, Files
  <2> QED
    BY <2>d, <2>2, <2>5, <1>1 DEF Trusted, Listed
<1> QED
  BY <1>1, <1>5, <1>d, SaveStep

LEMMA OutputUpdatedRefines ==
  ASSUME IInv, NEW c \in Cmds, OutputUpdated(c)
  PROVE  [Saving!Next]_<<Kept, made>>
<1>d. PICK d : d = cmd[c].dir
  OBVIOUS
<1>1. d \in Dirs /\ Local(c, d) /\ Busy(c) /\ made' = made
  BY <1>d, OutputUpdatedPreserves DEF OutputUpdated, history
<1>4. d \in exists => d \in exists'
  BY <1>d DEF OutputUpdated, history
<1>5. d[1] = "saved" => Move(d[2])
  <2> SUFFICES ASSUME d[1] = "saved", Trusted(d[2])' PROVE Trusted(d[2]) /\ disk'[d]["results"] = disk[d]["results"]
    BY <1>1, <1>4, SourceFacts, Distrusting
  <2>d. d = <<"saved", d[2]>> /\ d[2] \notin tangled /\ tangled' = tangled
    BY <1>1, SourceFacts DEF Trusted, Local
  <2>1. cmd[c].op = "emit"
    <3> SUFFICES ASSUME cmd[c].op # "emit" PROVE FALSE
      OBVIOUS
    <3>1. cmd[c].op = "save"
      BY <1>1, <1>d DEF IInv, Shape, Busy, TypeOK, Ops, OutputUpdated
    <3>2. cmd'[c].op = cmd[c].op /\ cmd'[c].dir = d /\ cmd'[c].at = "report"
      BY <1>d, <3>1 DEF OutputUpdated, Goto, IInv, TypeOK
    <3> QED
      BY <1>1, <3>1, <3>2, GoesOn
  <2>2. ~Alien(d[2])
    BY <1>1, <1>d, <2>1, Uncounted DEF Trusted
  <2>3. /\ \A g \in Files : g # "manifest" => disk'[d][g] = disk[d][g]
        /\ cut' = cut
    <3>1. Writes(d, "manifest", Finished) /\ "manifest" \in Files /\ Finished \in Content
      BY <1>d DEF OutputUpdated, Files, Content, Finished
    <3> QED
      BY <1>1, <1>d, <3>1, WritesFacts DEF IInv, OutputUpdated, history
  <2>4. disk[d]["manifest"] = Torn /\ d \in exists
    <3>1. Written(c) /\ Folder(d)
      BY <1>1, <1>d, <2>d DEF IInv, Progress
    <3> QED
      BY <1>d, <2>d, <3>1 DEF Written, Folder, OutputUpdated, Files, Torn, Absent
  <2>5. is_run(d) /\ disk[d]["record"] # Absent /\ d \notin cut /\ disk'[d]["results"] = disk[d]["results"]
    BY <2>d, <2>3, <2>4 DEF Trusted, Listed, is_run, Files, Torn, Absent
  <2> QED
    BY <2>d, <2>2, <2>5, <1>1 DEF Trusted, Listed
<1> QED
  BY <1>1, <1>5, <1>d, SaveStep

LEMMA OutputReportsRefines ==
  ASSUME IInv, NEW c \in Cmds, OutputReports(c)
  PROVE  [Saving!Next]_<<Kept, made>>
<1>d. PICK d : d = cmd[c].dir
  OBVIOUS
<1>1. d \in Dirs /\ Local(c, d) /\ Busy(c) /\ made' = made
  BY <1>d, OutputReportsPreserves DEF OutputReports, history
<1>4. d \in exists => d \in exists'
  BY <1>d DEF OutputReports, history
<1>5. d[1] = "saved" => Move(d[2])
  <2> SUFFICES ASSUME d[1] = "saved", Trusted(d[2])' PROVE Trusted(d[2]) /\ disk'[d]["results"] = disk[d]["results"]
    BY <1>1, <1>4, SourceFacts, Distrusting
  <2>d. d = <<"saved", d[2]>> /\ d[2] \notin tangled /\ tangled' = tangled
    BY <1>1, SourceFacts DEF Trusted, Local
  <2>1. cmd[c].op = "emit"
    <3> SUFFICES ASSUME cmd[c].op # "emit" PROVE FALSE
      OBVIOUS
    <3>1. cmd[c].op = "save"
      BY <1>1, <1>d DEF IInv, Shape, Busy, TypeOK, Ops, OutputReports
    <3>2. cmd'[c].op = cmd[c].op /\ cmd'[c].dir = d /\ cmd'[c].at = "results"
      BY <1>d, <3>1 DEF OutputReports, Goto, IInv, TypeOK
    <3> QED
      BY <1>1, <3>1, <3>2, GoesOn
  <2>2. ~Alien(d[2])
    BY <1>1, <1>d, <2>1, Uncounted DEF Trusted
  <2>3. /\ \A g \in Files : g # "report" => disk'[d][g] = disk[d][g]
        /\ exists' = exists /\ cut' = cut
    <3>1. /\ Writes(d, "report", Shown(disk[d]["evidence"])) /\ {"report", "evidence"} \subseteq Files
          /\ Shown(disk[d]["evidence"]) \in Content
      BY <1>1, <1>d DEF OutputReports, Files, IInv, TypeOK, Shown, Content, Blank
    <3> QED
      BY <1>1, <1>d, <3>1, WritesFacts DEF IInv, OutputReports, history
  <2>5. is_run(d) /\ disk[d]["record"] # Absent /\ d \notin cut /\ disk'[d]["results"] = disk[d]["results"]
    BY <2>d, <2>3 DEF Trusted, Listed, is_run, Files
  <2> QED
    BY <2>d, <2>2, <2>5, <1>1 DEF Trusted, Listed
<1> QED
  BY <1>1, <1>5, <1>d, SaveStep

LEMMA SaveRecordsRefines ==
  ASSUME IInv, NEW c \in Cmds, SaveRecords(c)
  PROVE  [Saving!Next]_<<Kept, made>>
<1>d. PICK d : d = cmd[c].dir
  OBVIOUS
<1>1. d \in Dirs /\ Local(c, d) /\ Busy(c) /\ made' = made /\ exists' = exists /\ d \in exists
  BY <1>d, SaveRecordsPreserves DEF SaveRecords, history
<1>2. cmd[c].op = "save" /\ cmd[c].at = "record" /\ d[1] = "saved" /\ d = <<"saved", d[2]>> /\ d[2] \in Names
  BY <1>1, <1>d, SourceFacts DEF IInv, Shape, Busy, TypeOK, Ops, SaveRecords
<1>3. ~Trusted(d[2])
  BY <1>1, <1>2, <1>d DEF Trusted, Alien
<1>4. KeptAt(d[2]) = -5
  BY <1>1, <1>2, <1>3 DEF KeptAt
<1>5. ASSUME ~Trusted(d[2])' PROVE Move(d[2])
  <2>1. KeptAt(d[2])' = -5
    BY <1>1, <1>2, <1>5 DEF KeptAt
  <2> QED
    BY <2>1 DEF Move
<1>6. ASSUME Trusted(d[2])' PROVE Move(d[2])
  <2>1. d[2] \notin tangled
    BY <1>1, <1>6 DEF Trusted, Local
  <2>2. Written(c)
    BY <1>1, <1>d, <2>1 DEF IInv, Progress
  <2>3. /\ \A g \in Files : g # "record" => disk'[d][g] = disk[d][g]
    <3>1. Writes(d, "record", 1) /\ "record" \in Files /\ 1 \in Content
      BY <1>d DEF SaveRecords, Files, Content
    <3> QED
      BY <1>1, <3>1, WritesFacts DEF IInv
  <2>4. disk'[d]["results"] = Shown(disk[Source(d)]["evidence"])
    BY <1>2, <1>d, <2>2, <2>3 DEF Written, Files
  <2>5. Source(d) \in Dirs /\ disk[Source(d)]["evidence"] \in 0 .. made /\ made \in Nat
    BY <1>1, SourceFacts DEF IInv, Evident, TypeOK
  <2>6. Shown(disk[Source(d)]["evidence"]) \in (1 .. made) \cup {Blank}
    BY <2>5 DEF Shown, Absent
  <2>7. KeptAt(d[2])' = disk'[d]["results"]
    BY <1>1, <1>2, <1>6 DEF KeptAt
  <2> QED
    BY <1>1, <1>4, <2>4, <2>6, <2>7 DEF Move
<1> QED
  BY <1>1, <1>5, <1>6, <1>d, SaveStep

LEMMA RemoveEndsRefines ==
  ASSUME IInv, NEW c \in Cmds, RemoveEnds(c)
  PROVE  [Saving!Next]_<<Kept, made>>
<1>d. PICK d : d = cmd[c].dir
  OBVIOUS
<1>1. d \in Dirs /\ Local(c, d) /\ Busy(c) /\ made' = made /\ exists' = exists \ {d} /\ d \in exists
  BY <1>d, RemoveEndsPreserves DEF RemoveEnds, history
<1>2. cmd[c].op # "emit" /\ cmd[c].at = "remove"
  BY <1>1, <1>d DEF IInv, Shape, Busy, RemoveEnds
<1>3. d[1] = "saved" => Move(d[2])
  <2> SUFFICES ASSUME d[1] = "saved" PROVE Move(d[2])
    OBVIOUS
  <2>1. d = <<"saved", d[2]>>
    BY <1>1, SourceFacts
  <2>2. ~Trusted(d[2])
    BY <1>2, <1>d, <2>1 DEF Trusted, Alien
  <2> QED
    BY <1>1, <2>1, <2>2 DEF Move, KeptAt
<1> QED
  BY <1>1, <1>3, <1>d, SaveStep

LEMMA EndsEarlyRefines ==
  ASSUME IInv, NEW c \in Cmds, EndsEarly(c)
  PROVE  [Saving!Next]_<<Kept, made>>
<1>d. PICK d : d = cmd[c].dir
  OBVIOUS
<1>1. /\ d \in Dirs /\ Local(c, d) /\ Busy(c) /\ made' = made /\ exists' = exists /\ disk' = disk
      /\ tangled' = tangled
  BY <1>d, EndsEarlyPreserves DEF EndsEarly
<1>2. d[1] = "saved" => Move(d[2])
  <2> SUFFICES ASSUME d[1] = "saved", Trusted(d[2])' PROVE Trusted(d[2])
    BY <1>1, SourceFacts, Distrusting
  <2>d. d = <<"saved", d[2]>> /\ d[2] \notin tangled
    BY <1>1, SourceFacts DEF Trusted
  <2>1. /\ d \notin cut' /\ is_run(d) /\ disk[d]["record"] # Absent
    BY <1>1, <2>d DEF Trusted, Listed, is_run
  <2>2. d \notin cut /\ cmd[c].at # "remove"
    BY <1>d, <2>1 DEF EndsEarly
  <2>3. Written(c)
    BY <1>1, <1>d, <2>d DEF IInv, Progress
  <2>4. cmd[c].op = "emit" \/ cmd[c].at = "replace"
    BY <1>1, <1>d, <2>1, <2>2, <2>3 DEF IInv, Shape, Busy, Written, TypeOK, Ops, is_run
  <2>5. ~Alien(d[2])
    BY <1>1, <1>d, <2>4, Uncounted DEF Trusted
  <2> QED
    BY <2>d, <2>1, <2>2, <2>5 DEF Trusted, Listed
<1> QED
  BY <1>1, <1>2, <1>d, SaveStep

LEMMA BeginRefines ==
  ASSUME IInv, NEW c \in Cmds, NEW op, NEW at, NEW d \in Dirs, NEW res,
         Begin(c, op, at, d, res), op = "emit" \/ at = "replace" \/ d[1] = "work"
  PROVE  [Saving!Next]_<<Kept, made>>
<1>1. /\ exists' = exists /\ disk' = disk /\ made' = made /\ cut' = cut
      /\ tangled \subseteq tangled' /\ tangled' \subseteq tangled \cup {d[2]}
  BY DEF Begin
<1>2. /\ cmd'[c].op = op /\ cmd'[c].at = at /\ cmd'[c].dir = d /\ cmd[c] = Idle
      /\ \A b \in Cmds : b # c => cmd'[b] = cmd[b]
  BY DEF Begin, IInv, TypeOK
<1>3. ASSUME NEW m \in Names PROVE Alien(m)' <=> Alien(m)
  <2>1. \A b \in Cmds : cmd'[b].dir = <<"saved", m>> /\ cmd'[b].op # "emit" /\ cmd'[b].at # "replace" => b # c
    BY <1>2
  <2>2. \A b \in Cmds : cmd[b].dir = <<"saved", m>> => b # c
    <3>1. <<"saved", m>> \in Dirs
      BY DEF Dirs
    <3> QED
      BY <1>2, <3>1, IdleFacts
  <2> QED
    BY <1>2, <2>1, <2>2 DEF Alien
<1>4. d[2] \in Names
  BY SourceFacts
<1>5. \A m \in Names : m # d[2] => KeptAt(m)' = KeptAt(m)
  BY <1>1, <1>3 DEF KeptAt, Trusted, Listed, is_run
<1>6. Trusted(d[2])' => Trusted(d[2])
  BY <1>1, <1>3, <1>4 DEF Trusted, Listed, is_run
<1>7. Move(d[2])
  BY <1>1, <1>4, <1>6, Distrusting
<1> QED
  BY <1>1, <1>4, <1>5, <1>7, OneName

LEMMA NextRefines == IInv /\ [Next]_vars => [Saving!Next]_<<Kept, made>>
<1> SUFFICES ASSUME IInv, [Next]_vars PROVE [Saving!Next]_<<Kept, made>>
  OBVIOUS
<1>1. ASSUME NEW c \in Cmds, Command(c) PROVE [Saving!Next]_<<Kept, made>>
  <2>1. ASSUME NEW n \in Names,
               PipelineBegins(c, n) \/ AmendBegins(c, n) \/ EmitBegins(c, n) \/ SaveBegins(c, n)
        PROVE  [Saving!Next]_<<Kept, made>>
    <3>1. CASE PipelineBegins(c, n)
      <4>1. Begin(c, "pipeline", "load", <<"work", n>>, Absent) /\ <<"work", n>> \in Dirs
        BY <3>1 DEF PipelineBegins, Dirs
      <4> QED
        BY <4>1, BeginRefines
    <3>4. CASE AmendBegins(c, n)
      <4>1. Begin(c, "amend", "measure", <<"work", n>>, Absent) /\ <<"work", n>> \in Dirs
        BY <3>4 DEF AmendBegins, Dirs
      <4> QED
        BY <4>1, BeginRefines
    <3>2. CASE EmitBegins(c, n)
      <4>1. PICK d \in Dirs : Begin(c, "emit", "output", d, Absent)
        BY <3>2 DEF EmitBegins
      <4> QED
        BY <4>1, BeginRefines
    <3>3. CASE SaveBegins(c, n)
      <4>1. /\ <<"saved", n>> \in Dirs
            /\ Begin(c, "save", "replace", <<"saved", n>>, Shown(disk[<<"work", n>>]["evidence"]))
        BY <3>3 DEF SaveBegins, Dirs
      <4> QED
        BY <4>1, BeginRefines
    <3> QED
      BY <2>1, <3>1, <3>2, <3>3, <3>4
  <2>2. ASSUME NEW d \in Dirs, RemoveBegins(c, d) PROVE [Saving!Next]_<<Kept, made>>
    <3>1. Begin(c, "remove", "replace", d, Absent)
      BY <2>2 DEF RemoveBegins
    <3> QED
      BY <3>1, BeginRefines
  <2> QED
    BY <1>1, <2>1, <2>2, LoadWritesRefines, LoadEndsRefines, MeasureRefines, RefusedRefines,
       StageUpdatesRefines, StageUpdatedRefines, OutputUpdatesRefines, OutputUpdatedRefines, OutputReportsRefines, RemoveListsRefines,
       RemoveEndsRefines, SaveCopiesRefines, CopyEndsRefines, RemoveFileRefines, CopyFileRefines,
       SaveResultsRefines, SaveRecordsRefines, EndsEarlyRefines DEF Command
<1>2. CASE UNCHANGED vars
  <2>1. \A n \in Names : KeptAt(n)' = KeptAt(n)
    BY <1>2 DEF KeptAt, Trusted, Listed, is_run, Alien, vars
  <2> QED
    BY <1>2, <2>1, KeptStays DEF vars
<1> QED
  BY <1>1, <1>2 DEF Next

(* Saving, emitting and removing, each stopped anywhere, implement a save that *)
(* appears in one step and is never altered (screen.py save, delete; output.py)*)
THEOREM SavingImplementsSavedRun == Spec => Implements
<1>1. Init => Saving!Init
  <2> SUFFICES ASSUME Init PROVE Saving!Init
    OBVIOUS
  <2>1. \A n \in Names : KeptAt(n) = -4
    BY DEF Init, KeptAt
  <2> QED
    BY <2>1, KeptIs DEF Init, Saving!Init, Saving!NoSave
<1> QED
  BY <1>1, NextRefines, Inductive, PTL DEF Spec, Implements, Saving!Spec
=============================================================================
