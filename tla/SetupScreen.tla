---------------------------- MODULE SetupScreen ----------------------------
(* The Setup screen of the terminal program: tui/internal/ui/model.go.         *)
(*                                                                             *)
(* Setup shows a model, a chip, the engines that can measure the chip and the  *)
(* model's speed limit on it. Each of these is read by a Python command on a   *)
(* goroutine of its own; the program's model is touched by one goroutine,      *)
(* which handles the answers one at a time, in any order. Most answers do not  *)
(* say what they were asked about: what keeps the screen consistent is which   *)
(* handler clears what, and which asks again.                                  *)
(*                                                                             *)
(* A command under way is a record in "under". What a model file or the chip   *)
(* catalog holds does not change in a session, so a profile and a limit are    *)
(* known by what was asked; the chip list, the detected chip and the engines   *)
(* do change, so those commands read in a step of their own (Reads) and hold   *)
(* what they saw. The engine picked among those found, the workload, the       *)
(* measurement and the batch are left out.                                     *)
EXTENDS Naturals, Sequences, FiniteSets, Functions

CONSTANTS
  Models,     \* model files
  Readable,   \* those that can be inspected
  Here,       \* this machine's chip
  Before,     \* the chip list while this machine's chip has no profile
  After,      \* the chip list once it has one
  Ceilinged,  \* the chips with a memory speed, so with a speed limit
  None,       \* no model, no chip, nothing read: nil in the code
  Opened,     \* the models the session may begin with (None: no model)
  Given,      \* the chips the command line may give (None: no chip given)
  Figures,    \* the measured runs that come on screen, each with its memory speed
  MaxKeys,    \* bound: keys pressed in the session
  MaxFlying,  \* bound: commands under way when a key is pressed
  MaxFails    \* bound: reads of the world that fail

Chips == Range(Before) \union Range(After)

Paths == Models \union {None}
Targets == Chips \union {None}
Lists == {Before, After, <<>>}

\* what a limit is asked for; a limit on no chip is an error line
Limits == [path : Paths, chip : Targets, here : BOOLEAN]

\* the engines of a chip: those found before the first scan's end or after
EngineRows == [chip : Chips, got : {"old", "new"}]

ASSUME SetupScreenAssumption ==
  /\ Readable \subseteq Models
  /\ Before \in Seq(Chips) /\ After \in Seq(Chips)
  /\ Here \in Range(After)
  /\ None \notin Models \union Chips
  /\ None \notin Lists /\ None \notin Limits /\ None \notin EngineRows /\ None \notin Figures
  /\ Opened \subseteq Paths /\ Given \subseteq Targets
  /\ MaxKeys \in Nat /\ MaxFlying \in Nat /\ MaxFails \in Nat

VARIABLES
  profiled,   \* the world: this machine's chip has a profile
  found,      \* the world: a scan has written the engines it found
  remembered, \* the world: the model file of model-selection.json
  byFlag,     \* the chip was given on the command line
  path,       \* the model file on screen
  reading,    \* "reading the model"
  profile,    \* the model file the profile on screen was read from
  list,       \* the chip list: None, or a sequence of chips (empty: it failed)
  target,     \* index into the list of the chip on screen
  wantChip,   \* the chip the next list picks
  chipSet,    \* the chip was given or picked by hand
  thisChip,   \* the detected chip of this machine
  limit,      \* what the speed limit on screen, or the error line in its place, answers
  ceilBusy,   \* "computing the limit"
  ceilAsked,  \* the measured run the limit was asked again for last
  providers,  \* the engines on screen: their chip, and whether after a scan
  engineScan, \* an engine scan is on
  scanning,   \* an autoscan is on
  under,      \* commands asked whose answer is not handled yet
  late,       \* history: per kind, the answer handled last was not asked last
  missed,     \* history: the engines of the chip on screen were read last, and that failed
  keys,       \* keys pressed
  fails       \* reads that failed

world == <<profiled, found, remembered>>
chip == <<list, target, wantChip, chipSet, thisChip>>
model == <<path, reading, profile>>
ceiling == <<limit, ceilBusy, ceilAsked>>
history == <<late, missed>>
vars == <<world, byFlag, chip, model, ceiling, providers, engineScan, scanning,
          under, history, keys, fails>>

\* the answers an older question can spoil
Kinds == {"profile", "ceiling", "providers"}

Unread == "asked"

Commands ==
       [do : {"profile"}, path : Paths, last : BOOLEAN]
  \union [do : {"ceiling"}, of : Limits, last : BOOLEAN]
  \union [do : {"providers"}, chip : Chips, got : {Unread, "failed", "old", "new"}, last : BOOLEAN]
  \union [do : {"targets"}, read : BOOLEAN, list : Lists, last : BOOLEAN]
  \union [do : {"detect"}, read : BOOLEAN, id : {None, Here}, last : BOOLEAN]
  \union [do : {"engines", "autoscan"}, got : {Unread, "failed", "done"}, last : BOOLEAN]

TypeOK ==
  /\ profiled \in BOOLEAN /\ found \in BOOLEAN /\ remembered \in Paths
  /\ byFlag \in BOOLEAN
  /\ path \in Paths /\ reading \in BOOLEAN /\ profile \in Paths
  /\ list \in Lists \union {None} /\ target \in Nat /\ wantChip \in Targets
  /\ chipSet \in BOOLEAN /\ thisChip \in {None, Here}
  /\ limit \in Limits \union {None} /\ ceilBusy \in BOOLEAN /\ ceilAsked \in Figures \union {None}
  /\ providers \in EngineRows \union {None}
  /\ engineScan \in BOOLEAN /\ scanning \in BOOLEAN
  /\ under \subseteq Commands /\ late \in [Kinds -> BOOLEAN] /\ missed \in BOOLEAN
  /\ keys \in 0 .. MaxKeys /\ fails \in 0 .. MaxFails

-----------------------------------------------------------------------------
(* Asking and answering. *)

\* c is asked: it is the last of its kind, those under way are not any more
Ask(S, c) == {IF x.do = c.do THEN [x EXCEPT !.last = FALSE] ELSE x : x \in S} \union {c}

Inspect(p) == [do |-> "profile", path |-> p, last |-> TRUE]
LoadCeiling(p, c, here) ==
  [do |-> "ceiling", of |-> [path |-> p, chip |-> c, here |-> here], last |-> TRUE]
LoadProviders(c) == [do |-> "providers", chip |-> c, got |-> Unread, last |-> TRUE]
LoadTargets == [do |-> "targets", read |-> FALSE, list |-> <<>>, last |-> TRUE]
Detect == [do |-> "detect", read |-> FALSE, id |-> None, last |-> TRUE]
ScanEngines == [do |-> "engines", got |-> Unread, last |-> TRUE]
Autoscan == [do |-> "autoscan", got |-> Unread, last |-> TRUE]

Asked(kind) == \E x \in under : x.do = kind

-----------------------------------------------------------------------------
(* The chip on screen. *)

Target(l, i) ==
  IF l = None \/ l = <<>> THEN None ELSE IF i \in DOMAIN l THEN l[i] ELSE l[1]

shownChip == Target(list, target)

Handled(x) ==
  /\ late' = [k \in Kinds |-> IF k = x.do THEN ~x.last ELSE late[k]]
  /\ missed' = IF x.do = "providers" /\ x.chip = shownChip THEN x.got = "failed" ELSE missed

\* pickChip: the chip by name, else the first that has a limit, else as it was
PickChip(l, id, i) ==
  LET Named == {k \in DOMAIN l : l[k] = id}
      Limited == {k \in DOMAIN l : l[k] \in Ceilinged}
      First(K) == CHOOSE k \in K : \A j \in K : k <= j
  IN  IF Named # {} THEN First(Named) ELSE IF Limited # {} THEN First(Limited) ELSE i

(* Mutant: the limit on screen is kept when the chip changes and none is asked. *)
ChipChangedKept(S, p, prof, t, here) ==
  /\ limit' = limit /\ providers' = None
  /\ ceilBusy' = ceilBusy
  /\ under' = IF t # None /\ ~engineScan THEN Ask(S, LoadProviders(t)) ELSE S

(* Mutant: the engines are asked for only while a scan is on. *)
ChipChangedUnlisted(S, p, prof, t, here) ==
  /\ limit' = None /\ providers' = None
  /\ ceilBusy' = IF prof # None THEN TRUE ELSE ceilBusy
  /\ under' = IF prof # None THEN Ask(S, LoadCeiling(p, t, here)) ELSE S

\* chipChanged: what depends on the chip is cleared and asked for again; while
\* an engine scan is on, its end asks for the engines
ChipChanged(S, p, prof, t, here) ==
  /\ limit' = None /\ providers' = None
  /\ ceilBusy' = IF prof # None THEN TRUE ELSE ceilBusy
  /\ under' = LET A == IF t # None /\ ~engineScan THEN Ask(S, LoadProviders(t)) ELSE S
              IN  IF prof # None THEN Ask(A, LoadCeiling(p, t, here)) ELSE A

Keep == UNCHANGED <<limit, ceilBusy, providers>>

Init ==
  /\ profiled \in BOOLEAN /\ found = FALSE
  /\ path \in Opened /\ remembered = path
  /\ reading = (path # None) /\ profile = None
  /\ list = None /\ target = 0 /\ thisChip = None
  /\ wantChip \in Given /\ byFlag = (wantChip # None) /\ chipSet = byFlag
  /\ limit = None /\ ceilBusy = FALSE /\ ceilAsked = None /\ providers = None
  /\ engineScan = TRUE /\ scanning = FALSE
  /\ under = {LoadTargets, Detect, ScanEngines} \union (IF path = None THEN {} ELSE {Inspect(path)})
  /\ late = [k \in Kinds |-> FALSE] /\ missed = FALSE /\ keys = 0 /\ fails = 0

-----------------------------------------------------------------------------
(* Commands that read or write the world: a read may fail, and what is read    *)
(* then waits to be handled.                                                   *)

Replace(x, y) == under' = (under \ {x}) \union {y}

Sees(x, y) == Replace(x, y) /\ fails' = fails

Fails(x, y) == fails < MaxFails /\ fails' = fails + 1 /\ Replace(x, y)

ReadsTargets(x) ==
  /\ x.do = "targets" /\ ~x.read
  /\ \/ Sees(x, [x EXCEPT !.read = TRUE, !.list = IF profiled THEN After ELSE Before])
     \/ Fails(x, [x EXCEPT !.read = TRUE])
  /\ UNCHANGED <<profiled, found>>

ReadsChip(x) ==
  /\ x.do = "detect" /\ ~x.read
  /\ \/ Sees(x, [x EXCEPT !.read = TRUE, !.id = IF profiled THEN Here ELSE None])
     \/ Fails(x, [x EXCEPT !.read = TRUE])
  /\ UNCHANGED <<profiled, found>>

ReadsProviders(x) ==
  /\ x.do = "providers" /\ x.got = Unread
  /\ \/ Sees(x, [x EXCEPT !.got = IF found THEN "new" ELSE "old"])
     \/ Fails(x, [x EXCEPT !.got = "failed"])
  /\ UNCHANGED <<profiled, found>>

Scans(x) ==
  /\ x.do \in {"engines", "autoscan"} /\ x.got = Unread
  /\ \/ /\ Fails(x, [x EXCEPT !.got = "failed"]) /\ UNCHANGED <<profiled, found>>
     \/ /\ Sees(x, [x EXCEPT !.got = "done"])
        /\ found' = (found \/ x.do = "engines") /\ profiled' = (profiled \/ x.do = "autoscan")

Reads ==
  /\ \E x \in under : ReadsTargets(x) \/ ReadsChip(x) \/ ReadsProviders(x) \/ Scans(x)
  /\ UNCHANGED <<remembered, byFlag, chip, model, ceiling, providers, engineScan, scanning,
                 history, keys>>

-----------------------------------------------------------------------------
(* Answers. *)

TargetsMsg(x) ==
  /\ x.do = "targets" /\ x.read /\ Handled(x)
  /\ list' = x.list
  /\ IF x.list = <<>>
     THEN target' = target /\ Keep /\ under' = under \ {x}
     ELSE /\ target' = PickChip(x.list, wantChip, target)
          /\ LET t == Target(list', target')
             IN  ChipChanged(under \ {x}, path, profile, t, t = thisChip)
  /\ UNCHANGED <<world, byFlag, wantChip, chipSet, thisChip, model, ceilAsked, engineScan,
                 scanning, keys, fails>>

(* Mutant: a chip detected before the list is read is not remembered. *)
DetectMsgDropped(x) ==
  /\ x.do = "detect" /\ x.read /\ Handled(x)
  /\ thisChip' = x.id
  /\ IF ~chipSet /\ x.id # None /\ list # None
     THEN /\ wantChip' = x.id
          /\ target' = PickChip(list, x.id, target)
          /\ LET t == Target(list, target')
             IN  ChipChanged(under \ {x}, path, profile, t, t = x.id)
     ELSE wantChip' = wantChip /\ target' = target /\ Keep /\ under' = under \ {x}
  /\ UNCHANGED <<world, byFlag, list, chipSet, model, ceilAsked, engineScan, scanning, keys, fails>>

DetectMsg(x) ==
  /\ x.do = "detect" /\ x.read /\ Handled(x)
  /\ thisChip' = x.id
  /\ LET picks == ~chipSet /\ x.id # None IN
     /\ wantChip' = IF picks THEN x.id ELSE wantChip
     /\ IF picks /\ list # None
        THEN /\ target' = PickChip(list, x.id, target)
             /\ LET t == Target(list, target')
                IN  ChipChanged(under \ {x}, path, profile, t, t = x.id)
        ELSE target' = target /\ Keep /\ under' = under \ {x}
  /\ UNCHANGED <<world, byFlag, list, chipSet, model, ceilAsked, engineScan, scanning, keys, fails>>

(* Mutant: a profile that cannot be read leaves the one before on screen. *)
ProfileMsgKept(x) ==
  /\ x.do = "profile" /\ Handled(x)
  /\ reading' = FALSE
  /\ IF x.path \in Readable
     THEN /\ profile' = x.path /\ remembered' = path
          /\ ChipChanged(under \ {x}, path, x.path, shownChip, shownChip # None /\ shownChip = thisChip)
     ELSE profile' = path /\ remembered' = remembered /\ Keep /\ under' = under \ {x}
  /\ UNCHANGED <<profiled, found, byFlag, path, chip, ceilAsked, engineScan, scanning, keys, fails>>

\* the answer does not say which model it is about: the path on screen is the one
\* remembered, and the one the limit is asked for
ProfileMsg(x) ==
  /\ x.do = "profile" /\ Handled(x)
  /\ reading' = FALSE
  /\ IF x.path \in Readable
     THEN /\ profile' = x.path /\ remembered' = path
          /\ ChipChanged(under \ {x}, path, x.path, shownChip, shownChip # None /\ shownChip = thisChip)
     ELSE profile' = None /\ remembered' = remembered /\ Keep /\ under' = under \ {x}
  /\ UNCHANGED <<profiled, found, byFlag, path, chip, ceilAsked, engineScan, scanning, keys, fails>>

CeilingMsg(x) ==
  /\ x.do = "ceiling" /\ Handled(x)
  /\ limit' = x.of /\ ceilBusy' = FALSE /\ under' = under \ {x}
  /\ UNCHANGED <<world, byFlag, chip, model, ceilAsked, providers, engineScan, scanning, keys, fails>>

\* the engines of a chip that is not on screen any more are dropped; a read that failed leaves none
ProvidersMsg(x) ==
  /\ x.do = "providers" /\ x.got # Unread /\ Handled(x)
  /\ providers' = IF x.chip # shownChip THEN providers
                  ELSE IF x.got = "failed" THEN None ELSE [chip |-> x.chip, got |-> x.got]
  /\ under' = under \ {x}
  /\ UNCHANGED <<world, byFlag, chip, model, ceiling, engineScan, scanning, keys, fails>>

(* Mutant: the engines are asked for although no chip is on screen yet. *)
EnginesMsgNoChip(x) ==
  /\ x.do = "engines" /\ x.got # Unread /\ Handled(x)
  /\ engineScan' = FALSE
  /\ under' = Ask(under \ {x}, LoadProviders(shownChip))
  /\ UNCHANGED <<world, byFlag, chip, model, ceiling, providers, scanning, keys, fails>>

(* Mutant: a failed scan leaves the screen scanning. *)
EnginesMsgStuck(x) ==
  /\ x.do = "engines" /\ x.got # Unread /\ Handled(x)
  /\ engineScan' = (x.got = "failed")
  /\ under' = IF shownChip # None THEN Ask(under \ {x}, LoadProviders(shownChip)) ELSE under \ {x}
  /\ UNCHANGED <<world, byFlag, chip, model, ceiling, providers, scanning, keys, fails>>

EnginesMsg(x) ==
  /\ x.do = "engines" /\ x.got # Unread /\ Handled(x)
  /\ engineScan' = FALSE
  /\ under' = IF shownChip # None THEN Ask(under \ {x}, LoadProviders(shownChip)) ELSE under \ {x}
  /\ UNCHANGED <<world, byFlag, chip, model, ceiling, providers, scanning, keys, fails>>

ScanMsg(x) ==
  /\ x.do = "autoscan" /\ x.got # Unread /\ Handled(x)
  /\ scanning' = FALSE
  /\ chipSet' = (chipSet /\ (x.got = "failed" \/ byFlag))
  /\ under' = IF x.got = "failed" THEN under \ {x} ELSE Ask(Ask(under \ {x}, LoadTargets), Detect)
  /\ UNCHANGED <<world, byFlag, list, target, wantChip, thisChip, model, ceiling, providers,
                 engineScan, keys, fails>>

Answer ==
  \E x \in under :
    \/ TargetsMsg(x) \/ DetectMsg(x) \/ ProfileMsg(x) \/ CeilingMsg(x)
    \/ ProvidersMsg(x) \/ EnginesMsg(x) \/ ScanMsg(x)

\* followMeasured, when the run on screen measured this chip at a speed the limit does
\* not use: the limit is asked for once more, unless it was for this run and speed
RunMsg(f) ==
  /\ profile # None /\ shownChip # None /\ shownChip = thisChip
  /\ ceilAsked # f /\ ~ceilBusy
  /\ ceilAsked' = f /\ ceilBusy' = TRUE
  /\ under' = Ask(under, LoadCeiling(path, shownChip, TRUE))
  /\ UNCHANGED <<world, byFlag, chip, model, limit, providers, engineScan, scanning, history, keys, fails>>

-----------------------------------------------------------------------------
(* Keys. *)

Press ==
  /\ keys < MaxKeys /\ keys' = keys + 1
  /\ Cardinality(under) <= MaxFlying /\ fails' = fails

\* a file row, or a path typed in: readModel
PickModel(p) ==
  /\ Press
  /\ path' = p /\ reading' = TRUE /\ profile' = None /\ limit' = None
  /\ under' = Ask(under, Inspect(p))
  /\ UNCHANGED <<world, byFlag, chip, ceilBusy, ceilAsked, providers, engineScan, scanning, history>>

PickTarget(i) ==
  /\ Press /\ ~byFlag
  /\ list # None /\ i \in DOMAIN list
  /\ target' = i /\ chipSet' = TRUE
  /\ ChipChanged(under, path, profile, list[i], list[i] = thisChip)
  /\ UNCHANGED <<world, byFlag, list, wantChip, thisChip, model, ceilAsked, engineScan, scanning,
                 history>>

\* the row is below the engines: there is none while no engines are on screen
ScanAgain ==
  /\ Press /\ ~engineScan /\ providers # None
  /\ engineScan' = TRUE /\ providers' = None
  /\ under' = Ask(under, ScanEngines)
  /\ UNCHANGED <<world, byFlag, chip, model, ceiling, scanning, history>>

PressAutoscan ==
  /\ Press /\ ~scanning
  /\ scanning' = TRUE
  /\ under' = Ask(under, Autoscan)
  /\ UNCHANGED <<world, byFlag, chip, model, ceiling, providers, engineScan, history>>

Keys ==
  \/ \E p \in Models : PickModel(p)
  \/ \E i \in 1 .. Len(After) : PickTarget(i)
  \/ ScanAgain
  \/ PressAutoscan

Next == Reads \/ Answer \/ (\E f \in Figures : RunMsg(f)) \/ Keys

Spec == Init /\ [][Next]_vars

-----------------------------------------------------------------------------
(* What the screen promises. *)

\* what the engine line and the chip line show while nothing is known (steps.go:263, 946)
LookingForEngines == engineScan \/ (providers = None /\ shownChip # None)
ReadingChips == shownChip = None

\* A flag that shows a spinner, or that refuses a key while it is set, is set
\* only while an answer that clears it is under way, whichever answers fail or
\* arrive late (the flags of model.go:1167, 628-658, 1207-1217). "looking for
\* engines" and "reading the chip list" have no flag of their own: they are
\* shown only while a scan, or the list they wait for, is under way, or after
\* the read of it that was answered last failed. In that case the screen waits
\* for nothing: a failed read leaves nil engines or an empty list, and nothing
\* asks again by itself (model.go:193, 681, 779).
BusyIsUnderWay ==
  /\ reading => Asked("profile")
  /\ ceilBusy => Asked("ceiling")
  /\ engineScan => Asked("engines")
  /\ scanning => Asked("autoscan")
  /\ LookingForEngines => Asked("engines") \/ Asked("providers") \/ missed
  /\ ReadingChips => Asked("targets") \/ list = <<>>

\* Once no profile is under way, the profile on screen is that of the model on
\* screen, or none when that cannot be read, unless the answer to an earlier
\* question was handled last: model.go:717 takes any answer for the last model's.
ProfileOfThePath ==
  ~Asked("profile") /\ ~late["profile"] =>
    profile = IF path \in Readable THEN path ELSE None

\* Once no limit is under way, the limit beside a model and a chip was computed
\* for this model on this chip, unless an older question was answered last
\* (model.go:730). It also uses what this machine measured exactly when the chip
\* is this machine's, unless the chip was given or picked by hand (a detection that
\* is answered after that asks for no limit), the machine is not detected any more,
\* or the chip list is being read again.
LimitOfTheScreen ==
  /\ profile # None /\ shownChip # None
  /\ ~Asked("ceiling") /\ ~late["ceiling"]
  =>
  /\ limit # None /\ limit.path = path /\ limit.chip = shownChip
  /\ \/ limit.here = (shownChip = thisChip)
     \/ chipSet \/ thisChip = None \/ Asked("targets")

\* The engines on screen are the ones asked for the chip on screen; and once the
\* scans and the engines are answered, there are engines on screen exactly when
\* their last read did not fail, and they are those the last scan found, unless an
\* older question was answered last (model.go:650-658 leaves the question to
\* enginesMsg while a scan is on).
EnginesOfTheChip ==
  /\ providers # None /\ shownChip # None => providers.chip = shownChip
  /\ ~Asked("engines") /\ ~Asked("providers") /\ ~late["providers"] /\ shownChip # None =>
       /\ providers = None <=> missed
       /\ providers # None /\ providers.got = "old" => ~found

\* The detected chip and the chip list come in either order, again when an
\* autoscan adds the chip, and older answers may come last: once no detection is
\* under way, a screen whose list has this machine's chip is on it, unless the
\* user set another one (model.go:683-690, 704-713).
SettlesOnThisMachine ==
  /\ ~Asked("detect") /\ ~chipSet /\ thisChip # None /\ list # None /\ thisChip \in Range(list)
  =>
  shownChip = thisChip

=============================================================================
