------------------------- MODULE SetupScreenProofs -------------------------
(* Proofs about SetupScreen: its type, that it never waits for nothing, and    *)
(* that what it shows is about the model and the chip on screen, for any       *)
(* number of models, chips, keys and failures.                                 *)
EXTENDS SetupScreen, TLAPS, WellFoundedInduction

(* The last question about a model is about the model on screen; until it is   *)
(* answered, or when an older one was answered last, the profile may differ.   *)
ProfileInv ==
  /\ \A x \in under : x.do = "profile" /\ x.last => x.path = path
  /\ \/ \E x \in under : x.do = "profile" /\ x.last
     \/ late["profile"]
     \/ profile = IF path \in Readable THEN path ELSE None

(* A limit is of the model and the chip on screen.                             *)
OfScreen(of) ==
  /\ of.path = path /\ of.chip = shownChip
  /\ \/ of.here = (shownChip = thisChip)
     \/ chipSet \/ thisChip = None \/ Asked("targets")

(* While a profile is shown, the last question about the limit is about the    *)
(* screen as it is.                                                            *)
LimitInv ==
  profile # None /\ shownChip # None =>
    /\ \A x \in under : x.do = "ceiling" /\ x.last => OfScreen(x.of)
    /\ \/ \E x \in under : x.do = "ceiling" /\ x.last
       \/ late["ceiling"]
       \/ limit # None /\ OfScreen(limit)

(* Engines found before the last scan are not the last word on them.           *)
Fresh(got) == got = "old" => ~found

(* Unless a scan is on, whose end will ask, the last question about engines is *)
(* about the chip on screen; and with no question about that chip under way,   *)
(* there are engines on screen, or the last read of them failed.               *)
EnginesInv ==
  /\ providers # None /\ shownChip # None => providers.chip = shownChip
  /\ shownChip # None /\ ~Asked("engines") =>
       /\ \A x \in under : x.do = "providers" /\ x.last => x.chip = shownChip /\ Fresh(x.got)
       /\ \/ \E x \in under : x.do = "providers" /\ x.last
          \/ late["providers"]
          \/ providers # None => Fresh(providers.got)
       /\ \/ \E x \in under : x.do = "providers" /\ x.chip = shownChip
          \/ providers = None <=> missed

(* A detected chip is the one the next list picks, and the one on screen.      *)
ChipInv ==
  ~chipSet /\ thisChip # None /\ ~Asked("detect") =>
    /\ wantChip = thisChip
    /\ list # None /\ thisChip \in Range(list) => shownChip = thisChip

(* A flag is set only while an answer that clears it is under way, and so is   *)
(* the first chip list until it is read.                                       *)
BusyInv ==
  /\ reading => Asked("profile")
  /\ ceilBusy => Asked("ceiling")
  /\ engineScan => Asked("engines")
  /\ scanning => Asked("autoscan")
  /\ list = None => Asked("targets")

IInv == TypeOK /\ BusyInv /\ ProfileInv /\ LimitInv /\ EnginesInv /\ ChipInv

-----------------------------------------------------------------------------
(* Commands. *)

(* The commands of one kind.                                                   *)
Of(S, k) == {x \in S : x.do = k}

LEMMA CommandTyped ==
  ASSUME NEW x \in Commands
  PROVE  /\ x.last \in BOOLEAN
         /\ x.do \in {"profile", "ceiling", "providers", "targets", "detect", "engines", "autoscan"}
         /\ x.do = "profile" => x.path \in Paths
         /\ x.do = "ceiling" => x.of \in Limits
         /\ x.do = "providers" => x.chip \in Chips /\ x.got \in {Unread, "failed", "old", "new"}
         /\ x.do = "targets" => x.read \in BOOLEAN /\ x.list \in Lists
         /\ x.do = "detect" => x.read \in BOOLEAN /\ x.id \in {None, Here}
         /\ x.do \in {"engines", "autoscan"} => x.got \in {Unread, "failed", "done"}
  BY DEF Commands

LEMMA Outdated ==
  ASSUME NEW x \in Commands
  PROVE  LET y == [x EXCEPT !.last = FALSE] IN y \in Commands /\ y.do = x.do /\ y.last = FALSE
<1>1. CASE x \in [do : {"profile"}, path : Paths, last : BOOLEAN]
  BY <1>1 DEF Commands
<1>2. CASE x \in [do : {"ceiling"}, of : Limits, last : BOOLEAN]
  BY <1>2 DEF Commands
<1>3. CASE x \in [do : {"providers"}, chip : Chips, got : {Unread, "failed", "old", "new"}, last : BOOLEAN]
  BY <1>3 DEF Commands
<1>4. CASE x \in [do : {"targets"}, read : BOOLEAN, list : Lists, last : BOOLEAN]
  BY <1>4 DEF Commands
<1>5. CASE x \in [do : {"detect"}, read : BOOLEAN, id : {None, Here}, last : BOOLEAN]
  BY <1>5 DEF Commands
<1>6. CASE x \in [do : {"engines", "autoscan"}, got : {Unread, "failed", "done"}, last : BOOLEAN]
  BY <1>6 DEF Commands
<1> QED
  BY <1>1, <1>2, <1>3, <1>4, <1>5, <1>6 DEF Commands

(* Asking adds the command as the last of its kind and touches no other kind.  *)
LEMMA AskFacts ==
  ASSUME NEW S \in SUBSET Commands, NEW c \in Commands, c.last
  PROVE  /\ Ask(S, c) \in SUBSET Commands
         /\ c \in Ask(S, c)
         /\ \A y \in Ask(S, c) : y.do = c.do /\ y.last => y = c
         /\ \A k : k # c.do => Of(Ask(S, c), k) = Of(S, k)
         /\ \A y \in S : \E z \in Ask(S, c) : z.do = y.do
<1> DEFINE Old(x) == IF x.do = c.do THEN [x EXCEPT !.last = FALSE] ELSE x
<1>1. Ask(S, c) = {Old(x) : x \in S} \union {c}
  BY DEF Ask
<1>2. ASSUME NEW x \in S
      PROVE  /\ Old(x) \in Commands /\ Old(x).do = x.do
             /\ x.do = c.do => ~Old(x).last
             /\ x.do # c.do => Old(x) = x
  BY Outdated
<1> HIDE DEF Old
<1>3. \A k : k # c.do => Of(Ask(S, c), k) = Of(S, k)
  BY <1>1, <1>2 DEF Of
<1>4. \A y \in Ask(S, c) : y.do = c.do /\ y.last => y = c
  BY <1>1, <1>2
<1>5. Ask(S, c) \in SUBSET Commands /\ c \in Ask(S, c)
  BY <1>1, <1>2
<1>6. \A y \in S : \E z \in Ask(S, c) : z.do = y.do
  BY <1>1, <1>2
<1> QED
  BY <1>3, <1>4, <1>5, <1>6

LEMMA AskedTyped ==
  /\ \A p \in Paths : Inspect(p) \in Commands /\ Inspect(p).last /\ Inspect(p).do = "profile"
  /\ \A p \in Paths, c \in Targets, h \in BOOLEAN :
       /\ LoadCeiling(p, c, h) \in Commands /\ LoadCeiling(p, c, h).last
       /\ LoadCeiling(p, c, h).do = "ceiling"
  /\ \A c \in Chips :
       LoadProviders(c) \in Commands /\ LoadProviders(c).last /\ LoadProviders(c).do = "providers"
  /\ LoadTargets \in Commands /\ LoadTargets.last /\ LoadTargets.do = "targets"
  /\ Detect \in Commands /\ Detect.last /\ Detect.do = "detect"
  /\ ScanEngines \in Commands /\ ScanEngines.last /\ ScanEngines.do = "engines"
  /\ Autoscan \in Commands /\ Autoscan.last /\ Autoscan.do = "autoscan"
<1>1. \A p \in Paths : Inspect(p) \in Commands /\ Inspect(p).last /\ Inspect(p).do = "profile"
  BY DEF Inspect, Commands
<1>2. \A p \in Paths, c \in Targets, h \in BOOLEAN :
       /\ LoadCeiling(p, c, h) \in Commands /\ LoadCeiling(p, c, h).last
       /\ LoadCeiling(p, c, h).do = "ceiling"
  BY DEF LoadCeiling, Commands, Limits
<1>3. \A c \in Chips :
       LoadProviders(c) \in Commands /\ LoadProviders(c).last /\ LoadProviders(c).do = "providers"
  BY DEF LoadProviders, Commands, Unread
<1>4. LoadTargets \in Commands /\ LoadTargets.last /\ LoadTargets.do = "targets"
  BY DEF LoadTargets, Commands, Lists
<1>5. Detect \in Commands /\ Detect.last /\ Detect.do = "detect"
  BY DEF Detect, Commands
<1>6. /\ ScanEngines \in Commands /\ ScanEngines.last /\ ScanEngines.do = "engines"
      /\ Autoscan \in Commands /\ Autoscan.last /\ Autoscan.do = "autoscan"
  BY DEF ScanEngines, Autoscan, Commands, Unread
<1> QED
  BY <1>1, <1>2, <1>3, <1>4, <1>5, <1>6

-----------------------------------------------------------------------------
(* The chip on screen. *)

LEMMA LeastExists ==
  ASSUME NEW K \in SUBSET Nat, K # {}
  PROVE  \E k \in K : \A j \in K : k <= j
<1>1. PICK k \in K : \A j \in K : ~(<<j, k>> \in OpToRel(<, Nat))
  BY NatLessThanWellFounded, WFMin
<1>2. ASSUME NEW j \in K PROVE k <= j
  <2>1. <<j, k>> \in Nat \X Nat /\ <<j, k>>[1] = j /\ <<j, k>>[2] = k
    OBVIOUS
  <2>2. ~(j < k)
    BY <1>1, <2>1 DEF OpToRel
  <2> QED
    BY <2>2
<1> QED
  BY <1>2

LEMMA PickedChip ==
  ASSUME NEW l \in Lists, NEW id, NEW i \in Nat
  PROVE  /\ PickChip(l, id, i) \in Nat
         /\ id \in Range(l) => Target(l, PickChip(l, id, i)) = id
<1> DEFINE Named == {k \in DOMAIN l : l[k] = id}
           Limited == {k \in DOMAIN l : l[k] \in Ceilinged}
           First(K) == CHOOSE k \in K : \A j \in K : k <= j
<1>1. PickChip(l, id, i) =
        IF Named # {} THEN First(Named) ELSE IF Limited # {} THEN First(Limited) ELSE i
  BY DEF PickChip
<1>2. Named \in SUBSET Nat /\ Limited \in SUBSET Nat
  <2>1. CASE l = <<>>
    BY <2>1
  <2>2. CASE l \in Seq(Chips)
    BY <2>2
  <2> QED
    BY <2>1, <2>2, SetupScreenAssumption DEF Lists
<1>3. ASSUME NEW K \in SUBSET Nat, K # {} PROVE First(K) \in K
  BY <1>3, LeastExists
<1>4. PickChip(l, id, i) \in Nat
  <2> HIDE DEF First, Named, Limited
  <2> QED
    BY <1>1, <1>2, <1>3
<1>5. ASSUME id \in Range(l) PROVE Target(l, PickChip(l, id, i)) = id
  <2>1. Named # {}
    BY <1>5 DEF Range
  <2>2. PickChip(l, id, i) \in Named
    <3> HIDE DEF First, Named
    <3> QED
      BY <1>1, <1>2, <1>3, <2>1
  <2>3. l # None /\ l # <<>>
    BY <2>2, SetupScreenAssumption
  <2>4. PickChip(l, id, i) \in DOMAIN l /\ l[PickChip(l, id, i)] = id
    BY <2>2
  <2> QED
    BY <2>3, <2>4 DEF Target
<1> QED
  BY <1>4, <1>5

-----------------------------------------------------------------------------
(* What each part of the invariant depends on. *)

SameKind(k) == Of(under', k) = Of(under, k)
SameLate(k) == late'[k] = late[k]

LEMMA AskedOf == \A k : Asked(k) <=> Of(under, k) # {}
  BY DEF Asked, Of

LEMMA AskedOfNext == \A k : Asked(k)' <=> Of(under', k) # {}
  BY DEF Asked, Of

LEMMA ProfileFrame ==
  ASSUME ProfileInv, SameKind("profile"), SameLate("profile"), UNCHANGED <<path, profile>>
  PROVE  ProfileInv'
<1>1. \A x : x \in under /\ x.do = "profile" <=> x \in under' /\ x.do = "profile"
  BY DEF SameKind, Of
<1> QED
  BY <1>1 DEF ProfileInv, SameLate

LEMMA LimitFrame ==
  ASSUME LimitInv, SameKind("ceiling"), SameLate("ceiling"),
         UNCHANGED <<path, profile, limit, list, target, chipSet, thisChip>>,
         Asked("targets") => Asked("targets")'
  PROVE  LimitInv'
<1>1. \A x : x \in under /\ x.do = "ceiling" <=> x \in under' /\ x.do = "ceiling"
  BY DEF SameKind, Of
<1>2. shownChip' = shownChip
  BY DEF shownChip
<1>3. ASSUME NEW of, OfScreen(of) PROVE OfScreen(of)'
  BY <1>2, <1>3 DEF OfScreen
<1> QED
  BY <1>1, <1>2, <1>3 DEF LimitInv, SameLate

LEMMA EnginesFrame ==
  ASSUME EnginesInv, SameKind("providers"), SameLate("providers"),
         UNCHANGED <<providers, list, target, found, missed>>,
         Asked("engines") => Asked("engines")'
  PROVE  EnginesInv'
<1>1. \A x : x \in under /\ x.do = "providers" <=> x \in under' /\ x.do = "providers"
  BY DEF SameKind, Of
<1>2. shownChip' = shownChip
  BY DEF shownChip
<1> QED
  BY <1>1, <1>2 DEF EnginesInv, SameLate, Fresh

LEMMA ChipFrame ==
  ASSUME ChipInv, UNCHANGED <<chipSet, thisChip, wantChip, list, target>>,
         Asked("detect") => Asked("detect")'
  PROVE  ChipInv'
<1>1. shownChip' = shownChip
  BY DEF shownChip
<1> QED
  BY <1>1 DEF ChipInv

-----------------------------------------------------------------------------
LEMMA InitEstablishes == Init => IInv
<1> SUFFICES ASSUME Init PROVE IInv
  OBVIOUS
<1>0. under \subseteq Commands /\ \A x \in under : x.do \in {"targets", "detect", "engines", "profile"}
  BY AskedTyped, SetupScreenAssumption DEF Init
<1>1. TypeOK
  <2>1. path \in Paths /\ wantChip \in Targets
    BY SetupScreenAssumption DEF Init
  <2>2. keys \in 0 .. MaxKeys /\ fails \in 0 .. MaxFails /\ target \in Nat
    BY SetupScreenAssumption DEF Init
  <2>3. late \in [Kinds -> BOOLEAN]
    BY DEF Init
  <2>4. remembered \in Paths /\ profile \in Paths /\ list \in Lists \union {None}
        /\ thisChip \in {None, Here} /\ limit \in Limits \union {None}
        /\ providers \in EngineRows \union {None}
        /\ ceilAsked \in Figures \union {None}
    BY <2>1 DEF Init, Paths
  <2>5. /\ profiled \in BOOLEAN /\ found \in BOOLEAN /\ byFlag \in BOOLEAN /\ reading \in BOOLEAN
        /\ chipSet \in BOOLEAN /\ ceilBusy \in BOOLEAN /\ missed \in BOOLEAN
        /\ engineScan \in BOOLEAN /\ scanning \in BOOLEAN
    BY Zenon DEF Init
  <2> QED
    BY <1>0, <2>1, <2>2, <2>3, <2>4, <2>5 DEF TypeOK
<1>2. BusyInv
  BY AskedTyped, SetupScreenAssumption DEF Init, BusyInv, Asked
<1>3. ProfileInv
  <2>1. path \in Paths /\ late["profile"] = FALSE
    BY SetupScreenAssumption DEF Init, Kinds
  <2>2. CASE path = None
    <3>1. path \notin Readable /\ profile = None
      BY <2>2, SetupScreenAssumption DEF Init
    <3>2. \A x \in under : x.do # "profile"
      BY <2>2, AskedTyped DEF Init
    <3> QED
      BY <3>1, <3>2 DEF ProfileInv
  <2>3. CASE path # None
    <3>1. Inspect(path) \in under /\ Inspect(path).path = path
      BY <2>3 DEF Init, Inspect
    <3>2. \A x \in under : x.do = "profile" => x = Inspect(path)
      BY AskedTyped DEF Init
    <3> QED
      BY <2>1, <3>1, <3>2, AskedTyped DEF ProfileInv
  <2> QED
    BY <2>2, <2>3
<1>4. LimitInv
  BY DEF Init, LimitInv
<1>5. shownChip = None
  BY DEF Init, shownChip, Target
<1>6. EnginesInv /\ ChipInv
  BY <1>5 DEF Init, EnginesInv, ChipInv
<1> QED
  BY <1>1, <1>2, <1>3, <1>4, <1>6 DEF IInv

-----------------------------------------------------------------------------
(* Reading the world: the command stays under way, knowing what it saw.        *)

LEMMA ReplaceFacts ==
  ASSUME under \subseteq Commands, NEW x \in under, NEW y, Replace(x, y), y.do = x.do
  PROVE  /\ \A k : k # x.do => SameKind(k)
         /\ \A k : Asked(k) => Asked(k)'
         /\ y \in under' /\ \A z \in under' : z = y \/ z \in under
         /\ \A z \in under : z = x \/ z \in under'
<1>1. under' = (under \ {x}) \union {y}
  BY DEF Replace
<1>2. \A k : k # x.do => SameKind(k)
  BY <1>1 DEF SameKind, Of
<1>3. \A k : Asked(k) => Asked(k)'
  BY <1>1 DEF Asked
<1> QED
  BY <1>1, <1>2, <1>3

(* A read leaves the screen alone; only the end of an engine scan, which is    *)
(* still to be handled, makes what was found before it out of date.            *)
LEMMA ReadKeeps ==
  ASSUME IInv, NEW x \in under, NEW y \in Commands, Replace(x, y),
         y.do = x.do, y.last = x.last, x.do \notin {"profile", "ceiling"},
         x.do = "providers" => y.chip = x.chip /\ Fresh(y.got),
         found' = found \/ x.do = "engines",
         profiled' \in BOOLEAN, found' \in BOOLEAN, fails' \in 0 .. MaxFails,
         UNCHANGED <<remembered, byFlag, chip, model, ceiling, providers, engineScan, scanning,
                     history, keys>>
  PROVE  IInv'
<1>0. /\ TypeOK /\ BusyInv /\ ProfileInv /\ LimitInv /\ EnginesInv /\ ChipInv
      /\ under \subseteq Commands
  BY DEF IInv, TypeOK
<1>u. /\ UNCHANGED <<remembered, byFlag, list, target, wantChip, chipSet, thisChip, path, reading,
                      profile, limit, ceilBusy, ceilAsked, providers, engineScan, scanning, late, missed, keys>>
      /\ shownChip' = shownChip
  BY DEF chip, model, ceiling, history, shownChip
<1>f. /\ \A k : k # x.do => SameKind(k)
      /\ \A k : Asked(k) => Asked(k)'
      /\ y \in under' /\ \A z \in under' : z = y \/ z \in under
      /\ \A z \in under : z = x \/ z \in under'
  BY <1>0, ReplaceFacts
<1>1. TypeOK'
  <2>1. under' \subseteq Commands
    BY <1>0, <1>f
  <2>2. UNCHANGED <<byFlag, reading, chipSet, ceilBusy, ceilAsked, engineScan, scanning, missed>>
    BY <1>u
  <2> QED
    BY <1>0, <1>u, <2>1, <2>2 DEF TypeOK
<1>2. BusyInv'
  <2>1. UNCHANGED <<reading, ceilBusy, engineScan, scanning, list>>
    BY <1>u
  <2> QED
    BY <1>0, <1>f, <2>1 DEF BusyInv
<1>3. ProfileInv'
  BY <1>0, <1>u, <1>f, ProfileFrame DEF SameLate
<1>4. LimitInv'
  BY <1>0, <1>u, <1>f, LimitFrame DEF SameLate
<1>5. ChipInv'
  BY <1>0, <1>u, <1>f, ChipFrame
<1>6. EnginesInv'
  <2>1. CASE x.do = "engines"
    <3>1. Asked("engines")'
      BY <2>1, <1>f DEF Asked
    <3> QED
      BY <3>1, <1>0, <1>u DEF EnginesInv
  <2>2. CASE x.do = "providers"
    <3>1. found' = found /\ (Asked("engines") => Asked("engines")')
      BY <2>2, <1>f
    <3> QED
      BY <3>1, <2>2, <1>0, <1>u, <1>f DEF EnginesInv, Fresh
  <2>3. CASE x.do \notin {"engines", "providers"}
    <3>1. found' = found /\ SameKind("providers") /\ SameLate("providers")
      BY <2>3, <1>f, <1>u DEF SameLate
    <3> QED
      BY <3>1, <1>0, <1>u, <1>f, EnginesFrame
  <2> QED
    BY <2>1, <2>2, <2>3
<1> QED
  BY <1>1, <1>2, <1>3, <1>4, <1>5, <1>6 DEF IInv

LEMMA ReadsPreserves == IInv /\ Reads => IInv'
<1> SUFFICES ASSUME IInv, Reads PROVE IInv'
  OBVIOUS
<1>0. /\ UNCHANGED <<remembered, byFlag, chip, model, ceiling, providers, engineScan, scanning,
                      history, keys>>
  BY DEF Reads
<1>1. PICK x \in under : ReadsTargets(x) \/ ReadsChip(x) \/ ReadsProviders(x) \/ Scans(x)
  BY DEF Reads
<1>2. x \in Commands /\ fails \in 0 .. MaxFails /\ MaxFails \in Nat
      /\ found \in BOOLEAN /\ profiled \in BOOLEAN
  BY SetupScreenAssumption DEF IInv, TypeOK
<1>3. ASSUME NEW y, Sees(x, y) \/ Fails(x, y)
      PROVE  Replace(x, y) /\ fails' \in 0 .. MaxFails
  BY <1>2, <1>3 DEF Sees, Fails
<1>4. CASE ReadsTargets(x)
  <2>1. PICK l \in Lists : LET y == [x EXCEPT !.read = TRUE, !.list = l] IN Sees(x, y) \/ Fails(x, y)
    <3>1. CASE Sees(x, [x EXCEPT !.read = TRUE, !.list = IF profiled THEN After ELSE Before])
      BY <3>1 DEF Lists
    <3>2. CASE Fails(x, [x EXCEPT !.read = TRUE])
      <4>1. x.list \in Lists /\ [x EXCEPT !.read = TRUE] = [x EXCEPT !.read = TRUE, !.list = x.list]
        BY <1>2, <1>4 DEF ReadsTargets, Commands
      <4> QED
        BY <3>2, <4>1
    <3> QED
      BY <1>4, <3>1, <3>2 DEF ReadsTargets
  <2>2. LET y == [x EXCEPT !.read = TRUE, !.list = l]
        IN  y \in Commands /\ y.do = x.do /\ y.last = x.last
    BY <1>2, <1>4 DEF ReadsTargets, Commands
  <2>3. UNCHANGED <<profiled, found>> /\ x.do = "targets"
    BY <1>4 DEF ReadsTargets
  <2> QED
    BY <1>0, <1>2, <1>3, <2>1, <2>2, <2>3, ReadKeeps
<1>5. CASE ReadsChip(x)
  <2>1. PICK c \in {None, Here} : LET y == [x EXCEPT !.read = TRUE, !.id = c] IN Sees(x, y) \/ Fails(x, y)
    <3>1. CASE Sees(x, [x EXCEPT !.read = TRUE, !.id = IF profiled THEN Here ELSE None])
      BY <3>1
    <3>2. CASE Fails(x, [x EXCEPT !.read = TRUE])
      <4>1. x.id \in {None, Here} /\ [x EXCEPT !.read = TRUE] = [x EXCEPT !.read = TRUE, !.id = x.id]
        BY <1>2, <1>5 DEF ReadsChip, Commands
      <4> QED
        BY <3>2, <4>1
    <3> QED
      BY <1>5, <3>1, <3>2 DEF ReadsChip
  <2>2. LET y == [x EXCEPT !.read = TRUE, !.id = c]
        IN  y \in Commands /\ y.do = x.do /\ y.last = x.last
    BY <1>2, <1>5 DEF ReadsChip, Commands
  <2>3. UNCHANGED <<profiled, found>> /\ x.do = "detect"
    BY <1>5 DEF ReadsChip
  <2> QED
    BY <1>0, <1>2, <1>3, <2>1, <2>2, <2>3, ReadKeeps
<1>6. CASE ReadsProviders(x)
  <2>1. PICK g \in {"failed", "old", "new"} :
          /\ LET y == [x EXCEPT !.got = g] IN Sees(x, y) \/ Fails(x, y)
          /\ Fresh(g)
    BY <1>6, <1>2 DEF ReadsProviders, Fresh
  <2>2. LET y == [x EXCEPT !.got = g]
        IN  y \in Commands /\ y.do = x.do /\ y.last = x.last /\ y.chip = x.chip /\ y.got = g
    BY <1>2, <1>6 DEF ReadsProviders, Commands
  <2>3. UNCHANGED <<profiled, found>> /\ x.do = "providers"
    BY <1>6 DEF ReadsProviders
  <2> QED
    BY <1>0, <1>2, <1>3, <2>1, <2>2, <2>3, ReadKeeps
<1>7. CASE Scans(x)
  <2>1. PICK g \in {"failed", "done"} : LET y == [x EXCEPT !.got = g] IN Sees(x, y) \/ Fails(x, y)
    BY <1>7 DEF Scans
  <2>2. LET y == [x EXCEPT !.got = g]
        IN  y \in Commands /\ y.do = x.do /\ y.last = x.last
    BY <1>2, <1>7 DEF Scans, Commands
  <2>3. /\ found' = found \/ x.do = "engines"
        /\ found' \in BOOLEAN /\ profiled' \in BOOLEAN
        /\ x.do \in {"engines", "autoscan"}
    BY <1>7, <1>2 DEF Scans
  <2> QED
    BY <1>0, <1>2, <1>3, <2>1, <2>2, <2>3, ReadKeeps
<1> QED
  BY <1>1, <1>4, <1>5, <1>6, <1>7

-----------------------------------------------------------------------------
(* Answers: the command is not under way any more.                             *)

LEMMA HandledFacts ==
  ASSUME TypeOK, NEW x \in under, Handled(x)
  PROVE  /\ late' \in [Kinds -> BOOLEAN]
         /\ \A k \in Kinds : k # x.do => SameLate(k)
         /\ x.do \in Kinds => (late'[x.do] <=> ~x.last)
         /\ missed' \in BOOLEAN /\ (x.do # "providers" => UNCHANGED missed)
<1>1. x \in Commands /\ late \in [Kinds -> BOOLEAN] /\ missed \in BOOLEAN
  BY DEF TypeOK
<1>2. x.last \in BOOLEAN
  BY <1>1, CommandTyped
<1>3. late' = [k \in Kinds |-> IF k = x.do THEN ~x.last ELSE late[k]]
  BY DEF Handled
<1>4. late' \in [Kinds -> BOOLEAN]
  BY <1>1, <1>2, <1>3
<1>5. \A k \in Kinds : k # x.do => late'[k] = late[k]
  BY <1>3
<1>6. x.do \in Kinds => (late'[x.do] <=> ~x.last)
  BY <1>3
<1>7. missed' \in BOOLEAN /\ (x.do # "providers" => UNCHANGED missed)
  BY <1>1, Zenon DEF Handled
<1> QED
  BY <1>4, <1>5, <1>6, <1>7 DEF SameLate

LEMMA Removed ==
  ASSUME NEW x \in under, under \subseteq Commands
  PROVE  /\ under \ {x} \in SUBSET Commands
         /\ \A k : k # x.do => Of(under \ {x}, k) = Of(under, k)
  BY DEF Of

LEMMA SameAsked == \A k : SameKind(k) => (Asked(k)' <=> Asked(k))
  BY AskedOf, AskedOfNext DEF SameKind

(* When the chip changes, the limit and the engines are as the invariant says, *)
(* whatever they were before.                                                  *)
LEMMA ChipChangedKeeps ==
  ASSUME TypeOK, BusyInv, NEW S \in SUBSET Commands, NEW here \in BOOLEAN,
         NEW p \in Paths, NEW prof \in Paths, NEW t \in Targets,
         p = path', prof = profile', t = shownChip', ChipChanged(S, p, prof, t, here),
         t # None => here = (t = thisChip'),
         UNCHANGED engineScan,
         Of(S, "engines") = Of(under, "engines"), Of(S, "ceiling") = Of(under, "ceiling")
  PROVE  /\ under' \subseteq Commands /\ limit' \in Limits \union {None}
         /\ providers' \in EngineRows \union {None} /\ ceilBusy' \in BOOLEAN
         /\ \A k : k \notin {"ceiling", "providers"} => Of(under', k) = Of(S, k)
         /\ ceilBusy' => Asked("ceiling")'
         /\ engineScan' => Asked("engines")'
         /\ LimitInv' /\ EnginesInv'
<1>0. /\ under' \subseteq Commands /\ limit' = None /\ providers' = None
      /\ ceilBusy' = IF prof # None THEN TRUE ELSE ceilBusy
      /\ \A k : k \notin {"ceiling", "providers"} => Of(under', k) = Of(S, k)
      /\ prof = None => Of(under', "ceiling") = Of(S, "ceiling")
      /\ prof # None =>
           /\ LoadCeiling(p, t, here) \in under'
           /\ \A y \in under' : y.do = "ceiling" /\ y.last => y = LoadCeiling(p, t, here)
      /\ t # None /\ ~engineScan =>
           /\ LoadProviders(t) \in under'
           /\ \A y \in under' : y.do = "providers" /\ y.last => y = LoadProviders(t)
  <2> DEFINE A == IF t # None /\ ~engineScan THEN Ask(S, LoadProviders(t)) ELSE S
  <2>1. /\ limit' = None /\ providers' = None
        /\ ceilBusy' = IF prof # None THEN TRUE ELSE ceilBusy
        /\ under' = IF prof # None THEN Ask(A, LoadCeiling(p, t, here)) ELSE A
    BY DEF ChipChanged
  <2>2. t # None => LoadProviders(t) \in Commands /\ LoadProviders(t).last /\ LoadProviders(t).do = "providers"
    BY AskedTyped DEF Targets
  <2>3. /\ LoadCeiling(p, t, here) \in Commands /\ LoadCeiling(p, t, here).last
        /\ LoadCeiling(p, t, here).do = "ceiling"
    BY AskedTyped
  <2>4. /\ A \in SUBSET Commands
        /\ \A k : k # "providers" => Of(A, k) = Of(S, k)
        /\ t # None /\ ~engineScan =>
             /\ LoadProviders(t) \in A
             /\ \A y \in A : y.do = "providers" /\ y.last => y = LoadProviders(t)
    <3>1. CASE t # None /\ ~engineScan
      BY <2>2, <3>1, AskFacts
    <3>2. CASE ~(t # None /\ ~engineScan)
      BY <3>2
    <3> QED
      BY <3>1, <3>2
  <2> HIDE DEF A
  <2>5. CASE prof = None
    BY <2>1, <2>4, <2>5
  <2>6. CASE prof # None
    <3>1. under' = Ask(A, LoadCeiling(p, t, here))
      BY <2>1, <2>6
    <3>2. /\ under' \in SUBSET Commands
          /\ LoadCeiling(p, t, here) \in under'
          /\ \A y \in under' : y.do = "ceiling" /\ y.last => y = LoadCeiling(p, t, here)
          /\ \A k : k # "ceiling" => Of(under', k) = Of(A, k)
      <4> DEFINE c == LoadCeiling(p, t, here)
      <4>1. under' = Ask(A, c) /\ c \in Commands /\ c.last /\ c.do = "ceiling" /\ A \in SUBSET Commands
        BY <3>1, <2>3, <2>4
      <4> HIDE DEF c
      <4>2. /\ under' \in SUBSET Commands /\ c \in under'
            /\ \A y \in under' : y.do = "ceiling" /\ y.last => y = c
            /\ \A k : k # "ceiling" => Of(under', k) = Of(A, k)
        BY <4>1, AskFacts
      <4> QED
        BY <4>2 DEF c
    <3>3. ASSUME t # None, ~engineScan
          PROVE  /\ LoadProviders(t) \in under'
                 /\ \A y \in under' : y.do = "providers" /\ y.last => y = LoadProviders(t)
      <4>1. Of(under', "providers") = Of(A, "providers")
        BY <3>2
      <4> QED
        BY <4>1, <3>3, <2>2, <2>4 DEF Of
    <3>4. \A k : k \notin {"ceiling", "providers"} => Of(under', k) = Of(S, k)
      BY <3>2, <2>4
    <3> QED
      BY <2>1, <2>6, <3>2, <3>3, <3>4
  <2> QED
    BY <2>5, <2>6
<1>1. /\ under' \subseteq Commands /\ limit' = None /\ providers' = None
      /\ ceilBusy' = IF prof # None THEN TRUE ELSE ceilBusy
      /\ \A k : k \notin {"ceiling", "providers"} => Of(under', k) = Of(S, k)
      /\ prof = None => Of(under', "ceiling") = Of(S, "ceiling")
  BY <1>0
<1>2. prof # None =>
        /\ LoadCeiling(p, t, here) \in under' /\ LoadCeiling(p, t, here).do = "ceiling"
        /\ LoadCeiling(p, t, here).last
        /\ \A y \in under' : y.do = "ceiling" /\ y.last => y = LoadCeiling(p, t, here)
  BY <1>0, AskedTyped
<1>3. t # None /\ ~engineScan =>
        /\ LoadProviders(t) \in under' /\ LoadProviders(t).do = "providers"
        /\ LoadProviders(t).last
        /\ \A y \in under' : y.do = "providers" /\ y.last => y = LoadProviders(t)
  BY <1>0, AskedTyped DEF Targets
<1>4. ceilBusy \in BOOLEAN /\ engineScan \in BOOLEAN
  BY DEF TypeOK
<1>5. ceilBusy' => Asked("ceiling")'
  <2>1. CASE prof # None
    BY <2>1, <1>2 DEF Asked
  <2>2. CASE prof = None
    <3>1. SameKind("ceiling") /\ ceilBusy' = ceilBusy
      BY <2>2, <1>1 DEF SameKind
    <3> QED
      BY <3>1, SameAsked DEF BusyInv
  <2> QED
    BY <2>1, <2>2
<1>6. SameKind("engines")
  BY <1>1 DEF SameKind
<1>7. engineScan' => Asked("engines")'
  BY <1>6, SameAsked DEF BusyInv
<1>8. LimitInv'
  <2> SUFFICES ASSUME profile' # None, shownChip' # None
               PROVE  /\ \A x \in under' : x.do = "ceiling" /\ x.last => OfScreen(x.of)'
                      /\ \E x \in under' : x.do = "ceiling" /\ x.last
    BY DEF LimitInv
  <2>1. OfScreen(LoadCeiling(p, t, here).of)'
    BY DEF OfScreen, LoadCeiling
  <2> QED
    BY <1>2, <2>1
<1>9. EnginesInv'
  <2> SUFFICES ASSUME shownChip' # None, ~Asked("engines")'
               PROVE  /\ \A x \in under' : x.do = "providers" /\ x.last =>
                            x.chip = shownChip' /\ Fresh(x.got)'
                      /\ \E x \in under' : x.do = "providers" /\ x.last /\ x.chip = shownChip'
    BY <1>1 DEF EnginesInv
  <2>1. ~engineScan
    BY <1>7
  <2>2. LoadProviders(t).chip = shownChip' /\ Fresh(LoadProviders(t).got)'
    BY DEF LoadProviders, Fresh, Unread
  <2> QED
    BY <1>3, <2>1, <2>2
<1>10. limit' \in Limits \union {None} /\ providers' \in EngineRows \union {None}
       /\ ceilBusy' \in BOOLEAN
  BY <1>1, <1>4
<1> QED
  BY <1>1, <1>5, <1>7, <1>8, <1>9, <1>10

LEMMA ShownTyped ==
  ASSUME NEW l \in Lists \union {None}, NEW i \in Nat
  PROVE  Target(l, i) \in Targets
<1>1. CASE l = None \/ l = <<>>
  BY <1>1 DEF Target, Targets
<1>2. CASE ~(l = None \/ l = <<>>)
  <2>1. l \in Seq(Chips) /\ l # <<>>
    BY <1>2, SetupScreenAssumption DEF Lists
  <2>2. 1 \in DOMAIN l /\ \A k \in DOMAIN l : l[k] \in Chips
    BY <2>1
  <2> QED
    BY <1>2, <2>2 DEF Target, Targets
<1> QED
  BY <1>1, <1>2

(* A list that holds a chip puts a chip on screen.                             *)
LEMMA NoChipShown ==
  ASSUME NEW l \in Lists \union {None}, NEW i, Target(l, i) = None
  PROVE  l = None \/ l = <<>>
<1> SUFFICES ASSUME l # None, l # <<>> PROVE FALSE
  OBVIOUS
<1>1. l \in Seq(Chips)
  BY SetupScreenAssumption DEF Lists
<1>2. 1 \in DOMAIN l /\ \A k \in DOMAIN l : l[k] \in Chips
  BY <1>1
<1> QED
  BY <1>2, SetupScreenAssumption DEF Target

LEMMA TargetsPreserves ==
  ASSUME IInv, NEW x \in under, TargetsMsg(x)
  PROVE  IInv'
<1>0. /\ TypeOK /\ BusyInv /\ ProfileInv /\ LimitInv /\ EnginesInv /\ ChipInv
      /\ under \subseteq Commands /\ x \in Commands
  BY DEF IInv, TypeOK
<1>x. x.do = "targets" /\ x.list \in Lists /\ Handled(x)
  BY <1>0, CommandTyped DEF TargetsMsg
<1>u. /\ UNCHANGED <<profiled, found, remembered, byFlag, wantChip, chipSet, thisChip, path, reading,
                      profile, ceilAsked, engineScan, scanning, keys, fails>>
      /\ list' = x.list
  BY DEF TargetsMsg, world, model
<1>h. late' \in [Kinds -> BOOLEAN] /\ UNCHANGED missed /\ SameLate("profile")
  BY <1>0, <1>x, HandledFacts DEF Kinds
<1>r. /\ under \ {x} \in SUBSET Commands
      /\ \A k : k # "targets" => Of(under \ {x}, k) = Of(under, k)
  BY <1>0, <1>x, Removed
<1>1. /\ target' \in Nat /\ under' \subseteq Commands /\ limit' \in Limits \union {None}
      /\ providers' \in EngineRows \union {None} /\ ceilBusy' \in BOOLEAN
      /\ \A k : k \notin {"targets", "ceiling", "providers"} => SameKind(k)
      /\ ceilBusy' => Asked("ceiling")'
      /\ engineScan' => Asked("engines")'
      /\ LimitInv' /\ EnginesInv'
      /\ ~chipSet' /\ thisChip' # None /\ ~Asked("detect")' /\ thisChip' \in Range(list') =>
           shownChip' = thisChip'
  <2>1. CASE x.list = <<>>
    <3>1. target' = target /\ Keep /\ under' = under \ {x}
      BY <2>1 DEF TargetsMsg
    <3>2. shownChip' = None
      BY <2>1, <1>u DEF shownChip, Target
    <3>3. \A k : k # "targets" => SameKind(k)
      BY <1>r, <3>1 DEF SameKind
    <3>4. LimitInv' /\ EnginesInv'
      BY <3>2 DEF LimitInv, EnginesInv
    <3>5. Range(list') = {}
      BY <2>1, <1>u DEF Range
    <3>6. (ceilBusy' => Asked("ceiling")') /\ (engineScan' => Asked("engines")')
      BY <3>1, <3>3, <1>u, <1>0, SameAsked DEF Keep, BusyInv
    <3>7. /\ target' \in Nat /\ under' \subseteq Commands /\ limit' \in Limits \union {None}
          /\ providers' \in EngineRows \union {None}
      BY <1>0, <1>r, <3>1 DEF Keep, TypeOK
    <3>8. ceilBusy' \in BOOLEAN
      BY <1>0, <3>1 DEF Keep, TypeOK
    <3> QED
      BY <3>3, <3>4, <3>5, <3>6, <3>7, <3>8
  <2>2. CASE x.list # <<>>
    <3>1. /\ target' = PickChip(list', wantChip, target)
          /\ ChipChanged(under \ {x}, path, profile, shownChip', shownChip' = thisChip)
      BY <2>2, <1>u DEF TargetsMsg, shownChip
    <3>2. target \in Nat /\ path \in Paths /\ profile \in Paths
      BY <1>0 DEF TypeOK
    <3>3. /\ target' \in Nat
          /\ wantChip \in Range(list') => shownChip' = wantChip
      BY <1>x, <1>u, <3>1, <3>2, PickedChip DEF shownChip
    <3>4. shownChip' \in Targets
      BY <1>x, <1>u, <3>3, ShownTyped DEF shownChip
    <3>5. /\ under' \subseteq Commands /\ limit' \in Limits \union {None}
          /\ providers' \in EngineRows \union {None} /\ ceilBusy' \in BOOLEAN
          /\ \A k : k \notin {"ceiling", "providers"} => Of(under', k) = Of(under \ {x}, k)
          /\ ceilBusy' => Asked("ceiling")'
          /\ engineScan' => Asked("engines")'
          /\ LimitInv' /\ EnginesInv'
      <4> DEFINE t == shownChip'
                 here == (shownChip' = thisChip)
                 p == path
                 prof == profile
                 S == under \ {x}
      <4>1. /\ S \in SUBSET Commands /\ here \in BOOLEAN /\ p \in Paths /\ prof \in Paths /\ t \in Targets
            /\ p = path' /\ prof = profile' /\ t = shownChip' /\ ChipChanged(S, p, prof, t, here)
            /\ (t # None => here = (t = thisChip'))
            /\ UNCHANGED engineScan
            /\ Of(S, "engines") = Of(under, "engines") /\ Of(S, "ceiling") = Of(under, "ceiling")
        BY <1>r, <1>u, <3>1, <3>2, <3>4
      <4> HIDE DEF t, here, p, prof
      <4> QED
        BY <1>0, <4>1, ChipChangedKeeps
    <3>6. \A k : k \notin {"targets", "ceiling", "providers"} => SameKind(k)
      BY <1>r, <3>5 DEF SameKind
    <3>7. ~chipSet' /\ thisChip' # None /\ ~Asked("detect")' => wantChip = thisChip'
      BY <1>0, <1>u, <3>6, SameAsked DEF ChipInv
    <3> QED
      BY <3>3, <3>5, <3>6, <3>7
  <2> QED
    BY <2>1, <2>2
<1>2. TypeOK'
  <2>1. UNCHANGED <<profiled, found, byFlag, reading, chipSet, ceilAsked, engineScan, scanning>>
    BY <1>u
  <2> QED
    BY <1>0, <1>x, <1>u, <1>h, <1>1, <2>1 DEF TypeOK
<1>3. BusyInv'
  <2>1. /\ (reading' => Asked("profile")') /\ (scanning' => Asked("autoscan")')
        /\ list' # None
    BY <1>0, <1>x, <1>u, <1>1, SameAsked, SetupScreenAssumption DEF BusyInv
  <2> QED
    BY <1>1, <2>1 DEF BusyInv
<1>4. ProfileInv'
  BY <1>0, <1>u, <1>h, <1>1, ProfileFrame
<1>5. ChipInv'
  <2>1. Asked("detect")' <=> Asked("detect")
    BY <1>1, SameAsked
  <2> QED
    BY <1>0, <1>u, <1>1, <2>1 DEF ChipInv
<1> QED
  BY <1>1, <1>2, <1>3, <1>4, <1>5 DEF IInv

LEMMA DetectPreserves ==
  ASSUME IInv, NEW x \in under, DetectMsg(x)
  PROVE  IInv'
<1>0. /\ TypeOK /\ BusyInv /\ ProfileInv /\ LimitInv /\ EnginesInv /\ ChipInv
      /\ under \subseteq Commands /\ x \in Commands
  BY DEF IInv, TypeOK
<1>x. x.do = "detect" /\ x.id \in {None, Here} /\ Handled(x)
  BY <1>0, CommandTyped DEF DetectMsg
<1>u. /\ UNCHANGED <<profiled, found, remembered, byFlag, list, chipSet, path, reading,
                      profile, ceilAsked, engineScan, scanning, keys, fails>>
      /\ thisChip' = x.id
  BY DEF DetectMsg, world, model
<1>h. /\ late' \in [Kinds -> BOOLEAN] /\ UNCHANGED missed /\ SameLate("profile")
      /\ SameLate("ceiling") /\ SameLate("providers")
  BY <1>0, <1>x, HandledFacts DEF Kinds
<1>r. /\ under \ {x} \in SUBSET Commands
      /\ \A k : k # "detect" => Of(under \ {x}, k) = Of(under, k)
  BY <1>0, <1>x, Removed
<1>t. target \in Nat /\ path \in Paths /\ profile \in Paths /\ list \in Lists \union {None}
      /\ wantChip \in Targets
  BY <1>0 DEF TypeOK
<1> DEFINE picks == ~chipSet /\ x.id # None
<1>w. wantChip' = IF picks THEN x.id ELSE wantChip
  BY DEF DetectMsg
<1>1. /\ target' \in Nat /\ under' \subseteq Commands /\ limit' \in Limits \union {None}
      /\ providers' \in EngineRows \union {None} /\ ceilBusy' \in BOOLEAN
      /\ \A k : k \notin {"detect", "ceiling", "providers"} => SameKind(k)
      /\ ceilBusy' => Asked("ceiling")'
      /\ engineScan' => Asked("engines")'
      /\ LimitInv' /\ EnginesInv'
      /\ picks /\ list # None /\ x.id \in Range(list) => shownChip' = x.id
  <2>1. CASE ~(picks /\ list # None)
    <3>1. target' = target /\ Keep /\ under' = under \ {x}
      BY <2>1 DEF DetectMsg
    <3>2. shownChip' = shownChip
      BY <1>u, <3>1 DEF shownChip
    <3>3. \A k : k # "detect" => SameKind(k)
      BY <1>r, <3>1 DEF SameKind
    <3>4. (ceilBusy' => Asked("ceiling")') /\ (engineScan' => Asked("engines")')
      BY <3>1, <3>3, <1>u, <1>0, SameAsked DEF Keep, BusyInv
    <3>5. /\ target' \in Nat /\ under' \subseteq Commands /\ limit' \in Limits \union {None}
          /\ providers' \in EngineRows \union {None}
      BY <1>0, <1>r, <3>1 DEF Keep, TypeOK
    <3>6. ceilBusy' \in BOOLEAN
      BY <1>0, <3>1 DEF Keep, TypeOK
    <3>7. EnginesInv'
      <4>1. Asked("engines") => Asked("engines")'
        BY <3>3, SameAsked
      <4> QED
        BY <4>1, <1>0, <1>u, <1>h, <3>1, <3>3, EnginesFrame DEF Keep
    <3>8. LimitInv'
      <4> SUFFICES ASSUME profile # None, shownChip # None PROVE LimitInv'
        BY <1>u, <3>2 DEF LimitInv
      <4>1. list # None
        BY DEF shownChip, Target
      <4>2. chipSet' \/ thisChip' = None
        BY <4>1, <2>1, <1>u
      <4>3. ASSUME NEW of, OfScreen(of) PROVE OfScreen(of)'
        BY <4>2, <4>3, <3>2, <1>u DEF OfScreen
      <4>4. \A y : y \in under' /\ y.do = "ceiling" <=> y \in under /\ y.do = "ceiling"
        BY <3>3 DEF SameKind, Of
      <4> QED
        BY <4>3, <4>4, <1>0, <1>u, <1>h, <3>1, <3>2 DEF LimitInv, SameLate, Keep
    <3> QED
      BY <2>1, <3>3, <3>4, <3>5, <3>6, <3>7, <3>8
  <2>2. CASE picks /\ list # None
    <3>1. /\ target' = PickChip(list, x.id, target)
          /\ ChipChanged(under \ {x}, path, profile, shownChip', shownChip' = x.id)
      BY <2>2, <1>u DEF DetectMsg, shownChip
    <3>3. /\ target' \in Nat
          /\ x.id \in Range(list) => shownChip' = x.id
      BY <2>2, <1>t, <1>u, <3>1, PickedChip DEF shownChip
    <3>4. shownChip' \in Targets
      BY <1>t, <1>u, <3>3, ShownTyped DEF shownChip
    <3>5. /\ under' \subseteq Commands /\ limit' \in Limits \union {None}
          /\ providers' \in EngineRows \union {None} /\ ceilBusy' \in BOOLEAN
          /\ \A k : k \notin {"ceiling", "providers"} => Of(under', k) = Of(under \ {x}, k)
          /\ ceilBusy' => Asked("ceiling")'
          /\ engineScan' => Asked("engines")'
          /\ LimitInv' /\ EnginesInv'
      <4> DEFINE t == shownChip'
                 here == (shownChip' = x.id)
                 p == path
                 prof == profile
                 S == under \ {x}
      <4>1. /\ S \in SUBSET Commands /\ here \in BOOLEAN /\ p \in Paths /\ prof \in Paths /\ t \in Targets
            /\ p = path' /\ prof = profile' /\ t = shownChip' /\ ChipChanged(S, p, prof, t, here)
            /\ (t # None => here = (t = thisChip'))
            /\ UNCHANGED engineScan
            /\ Of(S, "engines") = Of(under, "engines") /\ Of(S, "ceiling") = Of(under, "ceiling")
        BY <1>r, <1>t, <1>u, <3>1, <3>4
      <4> HIDE DEF t, here, p, prof
      <4> QED
        BY <1>0, <4>1, ChipChangedKeeps
    <3>6. \A k : k \notin {"detect", "ceiling", "providers"} => SameKind(k)
      BY <1>r, <3>5 DEF SameKind
    <3> QED
      BY <3>3, <3>5, <3>6
  <2> QED
    BY <2>1, <2>2
<1>2. TypeOK'
  <2>1. UNCHANGED <<profiled, found, byFlag, reading, chipSet, ceilAsked, engineScan, scanning>>
    BY <1>u
  <2>2. wantChip' \in Targets
    BY <1>w, <1>x, <1>t, SetupScreenAssumption DEF Targets, Chips
  <2> QED
    BY <1>0, <1>x, <1>u, <1>h, <1>1, <2>1, <2>2 DEF TypeOK
<1>3. BusyInv'
  <2>1. /\ (reading' => Asked("profile")') /\ (scanning' => Asked("autoscan")')
        /\ (list' = None => Asked("targets")')
    BY <1>0, <1>u, <1>1, SameAsked, SetupScreenAssumption DEF BusyInv
  <2> QED
    BY <1>1, <2>1 DEF BusyInv
<1>4. ProfileInv'
  BY <1>0, <1>u, <1>h, <1>1, ProfileFrame
<1>5. ChipInv'
  BY <1>u, <1>w, <1>1 DEF ChipInv
<1> QED
  BY <1>1, <1>2, <1>3, <1>4, <1>5 DEF IInv

LEMMA ProfilePreserves ==
  ASSUME IInv, NEW x \in under, ProfileMsg(x)
  PROVE  IInv'
<1>0. /\ TypeOK /\ BusyInv /\ ProfileInv /\ LimitInv /\ EnginesInv /\ ChipInv
      /\ under \subseteq Commands /\ x \in Commands
  BY DEF IInv, TypeOK
<1>x. x.do = "profile" /\ x.path \in Paths /\ x.last \in BOOLEAN /\ Handled(x)
  BY <1>0, CommandTyped DEF ProfileMsg
<1>u. /\ UNCHANGED <<profiled, found, byFlag, path, list, target, wantChip, chipSet, thisChip,
                      ceilAsked, engineScan, scanning, keys, fails>>
      /\ reading' = FALSE /\ shownChip' = shownChip
      /\ profile' = IF x.path \in Readable THEN x.path ELSE None
      /\ remembered' = IF x.path \in Readable THEN path ELSE remembered
  BY DEF ProfileMsg, chip, shownChip
<1>h. /\ late' \in [Kinds -> BOOLEAN] /\ UNCHANGED missed /\ SameLate("ceiling") /\ SameLate("providers")
      /\ late'["profile"] <=> ~x.last
  BY <1>0, <1>x, HandledFacts DEF Kinds
<1>r. /\ under \ {x} \in SUBSET Commands
      /\ \A k : k # "profile" => Of(under \ {x}, k) = Of(under, k)
  BY <1>0, <1>x, Removed
<1>t. /\ target \in Nat /\ path \in Paths /\ profile \in Paths /\ list \in Lists \union {None}
      /\ profile' \in Paths /\ remembered' \in Paths /\ shownChip \in Targets
  <2>1. target \in Nat /\ path \in Paths /\ profile \in Paths /\ list \in Lists \union {None}
        /\ remembered \in Paths
    BY <1>0 DEF TypeOK
  <2> QED
    BY <2>1, <1>u, <1>x, ShownTyped DEF shownChip, Paths
<1>1. /\ under' \subseteq Commands /\ limit' \in Limits \union {None}
      /\ providers' \in EngineRows \union {None} /\ ceilBusy' \in BOOLEAN
      /\ \A k : k \notin {"profile", "ceiling", "providers"} => SameKind(k)
      /\ Of(under', "profile") = Of(under \ {x}, "profile")
      /\ ceilBusy' => Asked("ceiling")'
      /\ engineScan' => Asked("engines")'
      /\ LimitInv' /\ EnginesInv'
  <2>1. CASE x.path \notin Readable
    <3>1. Keep /\ under' = under \ {x}
      BY <2>1 DEF ProfileMsg
    <3>2. \A k : k # "profile" => SameKind(k)
      BY <1>r, <3>1 DEF SameKind
    <3>3. (ceilBusy' => Asked("ceiling")') /\ (engineScan' => Asked("engines")')
      BY <3>1, <3>2, <1>u, <1>0, SameAsked DEF Keep, BusyInv
    <3>4. /\ under' \subseteq Commands /\ limit' \in Limits \union {None}
          /\ providers' \in EngineRows \union {None}
      BY <1>0, <1>r, <3>1 DEF Keep, TypeOK
    <3>5. ceilBusy' \in BOOLEAN
      BY <1>0, <3>1 DEF Keep, TypeOK
    <3>6. EnginesInv'
      <4>1. Asked("engines") => Asked("engines")'
        BY <3>2, SameAsked
      <4> QED
        BY <4>1, <1>0, <1>u, <1>h, <3>1, <3>2, EnginesFrame DEF Keep
    <3>7. LimitInv'
      BY <2>1, <1>u DEF LimitInv
    <3> QED
      BY <3>1, <3>2, <3>3, <3>4, <3>5, <3>6, <3>7
  <2>2. CASE x.path \in Readable
    <3>1. ChipChanged(under \ {x}, path, x.path, shownChip, shownChip # None /\ shownChip = thisChip)
      BY <2>2 DEF ProfileMsg
    <3>5. /\ under' \subseteq Commands /\ limit' \in Limits \union {None}
          /\ providers' \in EngineRows \union {None} /\ ceilBusy' \in BOOLEAN
          /\ \A k : k \notin {"ceiling", "providers"} => Of(under', k) = Of(under \ {x}, k)
          /\ ceilBusy' => Asked("ceiling")'
          /\ engineScan' => Asked("engines")'
          /\ LimitInv' /\ EnginesInv'
      <4> DEFINE t == shownChip
                 here == (shownChip # None /\ shownChip = thisChip)
                 p == path
                 prof == x.path
                 S == under \ {x}
      <4>1. /\ S \in SUBSET Commands /\ here \in BOOLEAN /\ p \in Paths /\ prof \in Paths /\ t \in Targets
            /\ p = path' /\ prof = profile' /\ t = shownChip' /\ ChipChanged(S, p, prof, t, here)
            /\ (t # None => here = (t = thisChip'))
            /\ UNCHANGED engineScan
            /\ Of(S, "engines") = Of(under, "engines") /\ Of(S, "ceiling") = Of(under, "ceiling")
        BY <1>r, <1>t, <1>u, <1>x, <2>2, <3>1
      <4> HIDE DEF t, here, p, prof
      <4> QED
        BY <1>0, <4>1, ChipChangedKeeps
    <3>6. \A k : k \notin {"profile", "ceiling", "providers"} => SameKind(k)
      BY <1>r, <3>5 DEF SameKind
    <3> QED
      BY <3>5, <3>6
  <2> QED
    BY <2>1, <2>2
<1>2. TypeOK'
  <2>1. UNCHANGED <<profiled, found, byFlag, chipSet, ceilAsked, engineScan, scanning>> /\ reading' \in BOOLEAN
    BY <1>u
  <2> QED
    BY <1>0, <1>x, <1>u, <1>h, <1>t, <1>1, <2>1 DEF TypeOK
<1>3. BusyInv'
  <2>1. ~reading' /\ (scanning' => Asked("autoscan")') /\ (list' = None => Asked("targets")')
    BY <1>0, <1>u, <1>1, SameAsked DEF BusyInv
  <2> QED
    BY <1>1, <2>1 DEF BusyInv
<1>4. ProfileInv'
  <2>1. \A y \in under' : y.do = "profile" /\ y.last => y.path = path'
    BY <1>0, <1>u, <1>1 DEF ProfileInv, Of
  <2>2. x.last => profile' = IF path' \in Readable THEN path' ELSE None
    BY <1>0, <1>x, <1>u DEF ProfileInv
  <2> QED
    BY <2>1, <2>2, <1>h DEF ProfileInv
<1>5. ChipInv'
  BY <1>0, <1>u, <1>1, SameAsked, ChipFrame
<1> QED
  BY <1>1, <1>2, <1>3, <1>4, <1>5 DEF IInv

LEMMA CeilingPreserves ==
  ASSUME IInv, NEW x \in under, CeilingMsg(x)
  PROVE  IInv'
<1>0. /\ TypeOK /\ BusyInv /\ ProfileInv /\ LimitInv /\ EnginesInv /\ ChipInv
      /\ under \subseteq Commands /\ x \in Commands
  BY DEF IInv, TypeOK
<1>x. x.do = "ceiling" /\ x.of \in Limits /\ x.last \in BOOLEAN /\ Handled(x)
  BY <1>0, CommandTyped DEF CeilingMsg
<1>u. /\ UNCHANGED <<profiled, found, remembered, byFlag, list, target, wantChip, chipSet, thisChip,
                      path, reading, profile, ceilAsked, providers, engineScan, scanning, keys, fails>>
      /\ limit' = x.of /\ ceilBusy' = FALSE /\ under' = under \ {x} /\ shownChip' = shownChip
  BY DEF CeilingMsg, world, chip, model, shownChip
<1>h. /\ late' \in [Kinds -> BOOLEAN] /\ UNCHANGED missed /\ SameLate("profile") /\ SameLate("providers")
      /\ late'["ceiling"] <=> ~x.last
  BY <1>0, <1>x, HandledFacts DEF Kinds
<1>r. /\ under' \in SUBSET Commands /\ \A k : k # "ceiling" => SameKind(k)
  BY <1>0, <1>x, <1>u, Removed DEF SameKind
<1>2. TypeOK'
  <2>1. /\ UNCHANGED <<profiled, found, byFlag, reading, chipSet, ceilAsked, engineScan, scanning>>
        /\ ceilBusy' \in BOOLEAN
    BY <1>u
  <2> QED
    BY <1>0, <1>x, <1>u, <1>h, <1>r, <2>1 DEF TypeOK
<1>3. BusyInv'
  BY <1>0, <1>u, <1>r, SameAsked DEF BusyInv
<1>4. ProfileInv'
  BY <1>0, <1>u, <1>h, <1>r, ProfileFrame
<1>5. EnginesInv'
  <2>1. Asked("engines") => Asked("engines")'
    BY <1>r, SameAsked
  <2> QED
    BY <2>1, <1>0, <1>u, <1>h, <1>r, EnginesFrame
<1>6. ChipInv'
  BY <1>0, <1>u, <1>r, SameAsked, ChipFrame
<1>7. LimitInv'
  <2>1. Asked("targets")' <=> Asked("targets")
    BY <1>r, SameAsked
  <2>2. ASSUME NEW of, OfScreen(of) PROVE OfScreen(of)'
    BY <2>1, <2>2, <1>u DEF OfScreen
  <2>3. x.of # None
    BY <1>x, SetupScreenAssumption
  <2> QED
    BY <1>0, <1>x, <1>u, <1>h, <2>2, <2>3 DEF LimitInv
<1> QED
  BY <1>2, <1>3, <1>4, <1>5, <1>6, <1>7 DEF IInv

LEMMA ProvidersPreserves ==
  ASSUME IInv, NEW x \in under, ProvidersMsg(x)
  PROVE  IInv'
<1>0. /\ TypeOK /\ BusyInv /\ ProfileInv /\ LimitInv /\ EnginesInv /\ ChipInv
      /\ under \subseteq Commands /\ x \in Commands
  BY DEF IInv, TypeOK
<1>x. /\ x.do = "providers" /\ x.chip \in Chips /\ x.got \in {"failed", "old", "new"}
      /\ x.last \in BOOLEAN /\ Handled(x)
  BY <1>0, CommandTyped DEF ProvidersMsg
<1>u. /\ UNCHANGED <<profiled, found, remembered, byFlag, list, target, wantChip, chipSet, thisChip,
                      path, reading, profile, limit, ceilBusy, ceilAsked, engineScan, scanning, keys, fails>>
      /\ providers' = IF x.chip # shownChip THEN providers
                      ELSE IF x.got = "failed" THEN None ELSE [chip |-> x.chip, got |-> x.got]
      /\ under' = under \ {x} /\ shownChip' = shownChip
  BY DEF ProvidersMsg, world, chip, model, ceiling, shownChip
<1>h. /\ late' \in [Kinds -> BOOLEAN] /\ missed' \in BOOLEAN /\ SameLate("profile") /\ SameLate("ceiling")
      /\ late'["providers"] <=> ~x.last
  BY <1>0, <1>x, HandledFacts DEF Kinds
<1>m. missed' = IF x.chip = shownChip THEN x.got = "failed" ELSE missed
  BY <1>x, Zenon DEF Handled
<1>r. /\ under' \in SUBSET Commands /\ \A k : k # "providers" => SameKind(k)
  BY <1>0, <1>x, <1>u, Removed DEF SameKind
<1>2. TypeOK'
  <2>1. UNCHANGED <<profiled, found, byFlag, reading, chipSet, ceilBusy, ceilAsked, engineScan, scanning>>
    BY <1>u
  <2>2. providers' \in EngineRows \union {None}
    BY <1>0, <1>x, <1>u DEF TypeOK, EngineRows
  <2> QED
    BY <1>0, <1>x, <1>u, <1>h, <1>r, <2>1, <2>2 DEF TypeOK
<1>3. BusyInv'
  BY <1>0, <1>u, <1>r, SameAsked DEF BusyInv
<1>4. ProfileInv'
  BY <1>0, <1>u, <1>h, <1>r, ProfileFrame
<1>5. LimitInv'
  <2>1. Asked("targets") => Asked("targets")'
    BY <1>r, SameAsked
  <2> QED
    BY <2>1, <1>0, <1>u, <1>h, <1>r, LimitFrame
<1>6. ChipInv'
  BY <1>0, <1>u, <1>r, SameAsked, ChipFrame
<1>7. EnginesInv'
  <2>1. Asked("engines")' <=> Asked("engines")
    BY <1>r, SameAsked
  <2>2. providers' # None /\ shownChip # None => providers'.chip = shownChip
    BY <1>0, <1>u DEF EnginesInv
  <2>3. x.got # "failed" => [chip |-> x.chip, got |-> x.got] # None
    BY <1>x, SetupScreenAssumption DEF EngineRows
  <2>4. \A got : Fresh(got)' <=> Fresh(got)
    BY <1>u DEF Fresh
  <2>5. ASSUME shownChip # None, ~Asked("engines"), x.last
        PROVE  providers' # None => Fresh(providers'.got)
    <3>1. x.chip = shownChip /\ Fresh(x.got)
      BY <1>0, <1>x, <2>5 DEF EnginesInv
    <3> QED
      BY <3>1, <1>u
  <2>6. ASSUME shownChip # None, ~Asked("engines")
        PROVE  \/ \E y \in under' : y.do = "providers" /\ y.chip = shownChip
               \/ providers' = None <=> missed'
    <3>1. CASE x.chip = shownChip
      BY <3>1, <1>u, <1>m, <2>3
    <3>2. CASE x.chip # shownChip
      <4>1. providers' = providers /\ missed' = missed
        BY <3>2, <1>u, <1>m
      <4>2. \/ \E y \in under : y.do = "providers" /\ y.chip = shownChip
            \/ providers = None <=> missed
        BY <1>0, <2>6 DEF EnginesInv
      <4>3. ASSUME NEW y \in under, y.chip = shownChip PROVE y \in under'
        BY <3>2, <4>3, <1>u
      <4> QED
        BY <4>1, <4>2, <4>3
    <3> QED
      BY <3>1, <3>2
  <2>7. ASSUME shownChip # None, ~Asked("engines")
        PROVE  /\ \A y \in under' : y.do = "providers" /\ y.last => y.chip = shownChip /\ Fresh(y.got)
               /\ \/ \E y \in under' : y.do = "providers" /\ y.last
                  \/ late'["providers"]
                  \/ providers' # None => Fresh(providers'.got)
    <3>1. \A y \in under' : y \in under
      BY <1>u
    <3> QED
      BY <3>1, <2>5, <2>7, <1>0, <1>h DEF EnginesInv
  <2> QED
    BY <1>u, <2>1, <2>2, <2>4, <2>6, <2>7 DEF EnginesInv
<1> QED
  BY <1>2, <1>3, <1>4, <1>5, <1>6, <1>7 DEF IInv

LEMMA EnginesPreserves ==
  ASSUME IInv, NEW x \in under, EnginesMsg(x)
  PROVE  IInv'
<1>0. /\ TypeOK /\ BusyInv /\ ProfileInv /\ LimitInv /\ EnginesInv /\ ChipInv
      /\ under \subseteq Commands /\ x \in Commands
  BY DEF IInv, TypeOK
<1>x. x.do = "engines" /\ Handled(x)
  BY DEF EnginesMsg
<1>u. /\ UNCHANGED <<profiled, found, remembered, byFlag, list, target, wantChip, chipSet, thisChip,
                      path, reading, profile, limit, ceilBusy, ceilAsked, providers, scanning, keys, fails>>
      /\ engineScan' = FALSE /\ shownChip' = shownChip
      /\ under' = IF shownChip # None THEN Ask(under \ {x}, LoadProviders(shownChip)) ELSE under \ {x}
  BY DEF EnginesMsg, world, chip, model, ceiling, shownChip
<1>h. /\ late' \in [Kinds -> BOOLEAN] /\ UNCHANGED missed /\ SameLate("profile") /\ SameLate("ceiling")
  BY <1>0, <1>x, HandledFacts DEF Kinds
<1>r. /\ under \ {x} \in SUBSET Commands
      /\ \A k : k # "engines" => Of(under \ {x}, k) = Of(under, k)
  BY <1>0, <1>x, Removed
<1>1. /\ under' \in SUBSET Commands /\ \A k : k \notin {"engines", "providers"} => SameKind(k)
      /\ shownChip # None =>
           /\ LoadProviders(shownChip) \in under'
           /\ LoadProviders(shownChip).last /\ LoadProviders(shownChip).do = "providers"
           /\ \A y \in under' : y.do = "providers" /\ y.last => y = LoadProviders(shownChip)
  <2>1. CASE shownChip = None
    BY <2>1, <1>u, <1>r DEF SameKind
  <2>2. CASE shownChip # None
    <3> DEFINE c == LoadProviders(shownChip)
               S == under \ {x}
    <3>1. shownChip \in Chips
      BY <2>2, <1>0, ShownTyped DEF shownChip, TypeOK, Targets
    <3>2. c \in Commands /\ c.last /\ c.do = "providers" /\ under' = Ask(S, c) /\ S \in SUBSET Commands
      BY <2>2, <3>1, <1>u, <1>r, AskedTyped
    <3>3. \A k : k # "engines" => Of(S, k) = Of(under, k)
      BY <1>r
    <3> HIDE DEF c, S
    <3>4. /\ under' \in SUBSET Commands /\ c \in under'
          /\ \A y \in under' : y.do = "providers" /\ y.last => y = c
          /\ \A k : k # "providers" => Of(under', k) = Of(S, k)
      BY <3>2, AskFacts
    <3>5. \A k : k \notin {"engines", "providers"} => SameKind(k)
      BY <3>3, <3>4 DEF SameKind
    <3> QED
      BY <3>2, <3>4, <3>5 DEF c
  <2> QED
    BY <2>1, <2>2
<1>2. TypeOK'
  <2>1. /\ UNCHANGED <<profiled, found, byFlag, reading, chipSet, ceilBusy, ceilAsked, scanning>>
        /\ engineScan' \in BOOLEAN /\ missed' \in BOOLEAN
    BY <1>0, <1>x, <1>u, HandledFacts
  <2> QED
    BY <1>0, <1>x, <1>u, <1>h, <1>1, <2>1 DEF TypeOK
<1>3. BusyInv'
  BY <1>0, <1>u, <1>1, SameAsked DEF BusyInv
<1>4. ProfileInv'
  BY <1>0, <1>u, <1>h, <1>1, ProfileFrame
<1>5. LimitInv'
  <2>1. Asked("targets") => Asked("targets")'
    BY <1>1, SameAsked
  <2> QED
    BY <2>1, <1>0, <1>u, <1>h, <1>1, LimitFrame
<1>6. ChipInv'
  BY <1>0, <1>u, <1>1, SameAsked, ChipFrame
<1>7. EnginesInv'
  <2>1. providers' # None /\ shownChip' # None => providers'.chip = shownChip'
    BY <1>0, <1>u DEF EnginesInv
  <2>2. LoadProviders(shownChip).chip = shownChip' /\ Fresh(LoadProviders(shownChip).got)'
    BY <1>u DEF LoadProviders, Fresh, Unread
  <2> QED
    BY <1>u, <1>1, <2>1, <2>2 DEF EnginesInv
<1> QED
  BY <1>2, <1>3, <1>4, <1>5, <1>6, <1>7 DEF IInv

LEMMA ScanPreserves ==
  ASSUME IInv, NEW x \in under, ScanMsg(x)
  PROVE  IInv'
<1>0. /\ TypeOK /\ BusyInv /\ ProfileInv /\ LimitInv /\ EnginesInv /\ ChipInv
      /\ under \subseteq Commands /\ x \in Commands
  BY DEF IInv, TypeOK
<1>x. x.do = "autoscan" /\ Handled(x)
  BY DEF ScanMsg
<1>u. /\ UNCHANGED <<profiled, found, remembered, byFlag, list, target, wantChip, thisChip,
                      path, reading, profile, limit, ceilBusy, ceilAsked, providers, engineScan, keys, fails>>
      /\ scanning' = FALSE /\ shownChip' = shownChip
      /\ chipSet' = (chipSet /\ (x.got = "failed" \/ byFlag))
      /\ under' = IF x.got = "failed" THEN under \ {x} ELSE Ask(Ask(under \ {x}, LoadTargets), Detect)
  BY DEF ScanMsg, world, model, ceiling, shownChip
<1>h. /\ late' \in [Kinds -> BOOLEAN] /\ UNCHANGED missed
      /\ SameLate("profile") /\ SameLate("ceiling") /\ SameLate("providers")
  BY <1>0, <1>x, HandledFacts DEF Kinds
<1>r. /\ under \ {x} \in SUBSET Commands
      /\ \A k : k # "autoscan" => Of(under \ {x}, k) = Of(under, k)
  BY <1>0, <1>x, Removed
<1>1. /\ under' \in SUBSET Commands
      /\ \A k : k \notin {"autoscan", "targets", "detect"} => SameKind(k)
      /\ \/ x.got = "failed" /\ SameKind("targets") /\ SameKind("detect")
         \/ x.got # "failed" /\ Asked("targets")' /\ Asked("detect")'
  <2>1. CASE x.got = "failed"
    BY <2>1, <1>u, <1>r DEF SameKind
  <2>2. CASE x.got # "failed"
    <3> DEFINE S == under \ {x}
               A == Ask(S, LoadTargets)
    <3>1. /\ A \in SUBSET Commands /\ LoadTargets \in A
          /\ \A k : k # "targets" => Of(A, k) = Of(S, k)
      BY <1>r, AskedTyped, AskFacts
    <3>2. S \in SUBSET Commands /\ under' = Ask(A, Detect)
      BY <2>2, <1>u, <1>r
    <3>3. \A k : k # "autoscan" => Of(S, k) = Of(under, k)
      BY <1>r
    <3> HIDE DEF S, A
    <3>4. /\ under' \in SUBSET Commands /\ Detect \in under'
          /\ \A k : k # "detect" => Of(under', k) = Of(A, k)
      <4>1. Detect \in Commands /\ Detect.last /\ Detect.do = "detect" /\ A \in SUBSET Commands
        BY <3>1, AskedTyped
      <4>2. /\ Ask(A, Detect) \in SUBSET Commands /\ Detect \in Ask(A, Detect)
            /\ \A k : k # "detect" => Of(Ask(A, Detect), k) = Of(A, k)
        BY <4>1, AskFacts
      <4> QED
        BY <3>2, <4>2
    <3>5. \A k : k \notin {"autoscan", "targets", "detect"} => SameKind(k)
      BY <3>1, <3>3, <3>4 DEF SameKind
    <3>6. LoadTargets \in Of(under', "targets")
      BY <3>1, <3>4, AskedTyped DEF Of
    <3>7. Asked("targets")' /\ Asked("detect")'
      BY <3>4, <3>6, AskedTyped, AskedOfNext DEF Asked
    <3> QED
      BY <2>2, <3>4, <3>5, <3>7
  <2> QED
    BY <2>1, <2>2
<1>c. chipSet \in BOOLEAN /\ chipSet' \in BOOLEAN
  BY <1>0, <1>u DEF TypeOK
<1>2. TypeOK'
  <2>1. /\ UNCHANGED <<profiled, found, byFlag, reading, ceilBusy, ceilAsked, engineScan>>
        /\ scanning' \in BOOLEAN
    BY <1>u
  <2> QED
    BY <1>0, <1>x, <1>u, <1>h, <1>1, <1>c, <2>1 DEF TypeOK
<1>3. BusyInv'
  BY <1>0, <1>u, <1>1, SameAsked DEF BusyInv
<1>4. ProfileInv'
  BY <1>0, <1>u, <1>h, <1>1, ProfileFrame
<1>5. EnginesInv'
  <2>1. Asked("engines") => Asked("engines")'
    BY <1>1, SameAsked
  <2> QED
    BY <2>1, <1>0, <1>u, <1>h, <1>1, EnginesFrame
<1>6. CASE x.got = "failed"
  <2>1. chipSet' <=> chipSet
    BY <1>6, <1>u
  <2>2. chipSet' = chipSet
    BY <2>1, <1>c
  <2>3. (Asked("detect") => Asked("detect")') /\ (Asked("targets") => Asked("targets")')
    BY <1>6, <1>1, SameAsked
  <2>4. ChipInv'
    BY <2>2, <2>3, <1>0, <1>u, ChipFrame
  <2>5. LimitInv'
    BY <2>2, <2>3, <1>0, <1>u, <1>h, <1>1, LimitFrame
  <2> QED
    BY <1>2, <1>3, <1>4, <1>5, <2>4, <2>5 DEF IInv
<1>7. CASE x.got # "failed"
  <2>1. Asked("targets")' /\ Asked("detect")'
    BY <1>7, <1>1
  <2>2. ChipInv'
    BY <2>1 DEF ChipInv
  <2>3. ASSUME NEW of, OfScreen(of) PROVE OfScreen(of)'
    BY <2>1, <2>3, <1>u DEF OfScreen
  <2>4. \A y : y \in under' /\ y.do = "ceiling" <=> y \in under /\ y.do = "ceiling"
    BY <1>1 DEF SameKind, Of
  <2>5. LimitInv'
    BY <2>3, <2>4, <1>0, <1>u, <1>h DEF LimitInv, SameLate
  <2> QED
    BY <1>2, <1>3, <1>4, <1>5, <2>2, <2>5 DEF IInv
<1> QED
  BY <1>6, <1>7

-----------------------------------------------------------------------------
(* Keys, and the run that is looked at.                                        *)

LEMMA Pressed ==
  ASSUME TypeOK, Press
  PROVE  keys' \in 0 .. MaxKeys /\ fails' = fails
  BY SetupScreenAssumption DEF TypeOK, Press

LEMMA RunPreserves ==
  ASSUME IInv, NEW f \in Figures, RunMsg(f)
  PROVE  IInv'
<1>0. /\ TypeOK /\ BusyInv /\ ProfileInv /\ LimitInv /\ EnginesInv /\ ChipInv
      /\ under \subseteq Commands
  BY DEF IInv, TypeOK
<1>u. /\ UNCHANGED <<profiled, found, remembered, byFlag, list, target, wantChip, chipSet, thisChip,
                      path, reading, profile, limit, providers, engineScan, scanning, late, missed, keys, fails>>
      /\ shownChip' = shownChip
      /\ ceilBusy' = TRUE /\ ceilAsked' = f /\ shownChip = thisChip
      /\ under' = Ask(under, LoadCeiling(path, shownChip, TRUE))
  BY DEF RunMsg, world, history, chip, model, shownChip
<1>t. path \in Paths /\ shownChip \in Targets
  BY <1>0, ShownTyped DEF shownChip, TypeOK
<1>1. /\ under' \in SUBSET Commands /\ \A k : k # "ceiling" => SameKind(k)
      /\ LoadCeiling(path, shownChip, TRUE) \in under' /\ LoadCeiling(path, shownChip, TRUE).do = "ceiling" /\ LoadCeiling(path, shownChip, TRUE).last
      /\ \A y \in under' : y.do = "ceiling" /\ y.last => y = LoadCeiling(path, shownChip, TRUE)
      /\ Asked("ceiling")'
  <2> DEFINE c == LoadCeiling(path, shownChip, TRUE)
  <2>1. c \in Commands /\ c.last /\ c.do = "ceiling" /\ under' = Ask(under, c) /\ under \in SUBSET Commands
    BY <1>0, <1>u, AskedTyped, <1>t
  <2> HIDE DEF c
  <2>2. /\ under' \in SUBSET Commands /\ c \in under'
        /\ \A y \in under' : y.do = "ceiling" /\ y.last => y = c
        /\ \A k : k # "ceiling" => Of(under', k) = Of(under, k)
    BY <2>1, AskFacts
  <2>3. Asked("ceiling")'
    BY <2>1, <2>2 DEF Asked
  <2> QED
    BY <2>1, <2>2, <2>3 DEF c, SameKind
<1>2. TypeOK'
  <2>1. /\ UNCHANGED <<profiled, found, byFlag, reading, chipSet, engineScan, scanning, missed>>
        /\ ceilBusy' \in BOOLEAN
    BY <1>u
  <2>2. ceilAsked' \in Figures \union {None}
    BY <1>u
  <2>3. providers' \in EngineRows \union {None}
    BY <1>0, <1>u DEF TypeOK
  <2> QED
    BY <1>0, <1>u, <1>1, <2>1, <2>2, <2>3 DEF TypeOK
<1>3. BusyInv'
  BY <1>0, <1>u, <1>1, SameAsked DEF BusyInv
<1>4. ProfileInv'
  BY <1>0, <1>u, <1>1, ProfileFrame DEF SameLate
<1>5. EnginesInv'
  <2>1. Asked("engines") => Asked("engines")'
    BY <1>1, SameAsked
  <2> QED
    BY <2>1, <1>0, <1>u, <1>1, EnginesFrame DEF SameLate
<1>6. ChipInv'
  BY <1>0, <1>u, <1>1, SameAsked, ChipFrame
<1>7. LimitInv'
  <2> DEFINE of == [path |-> path, chip |-> shownChip, here |-> TRUE]
  <2>0. LoadCeiling(path, shownChip, TRUE).of = of
    BY DEF LoadCeiling
  <2>1. \A y \in under' : y.do = "ceiling" /\ y.last => y.of = of
    BY <1>1, <2>0
  <2>2. of.path = path' /\ of.chip = shownChip' /\ (of.here = (shownChip' = thisChip'))
    BY <1>u
  <2> HIDE DEF of
  <2>3. \A y \in under' : y.do = "ceiling" /\ y.last => OfScreen(y.of)'
    BY <2>1, <2>2 DEF OfScreen
  <2>4. \E y \in under' : y.do = "ceiling" /\ y.last
    BY <1>1
  <2> QED
    BY <2>3, <2>4 DEF LimitInv
<1> QED
  BY <1>2, <1>3, <1>4, <1>5, <1>6, <1>7 DEF IInv

LEMMA PickModelPreserves ==
  ASSUME IInv, NEW p \in Models, PickModel(p)
  PROVE  IInv'
<1>0. /\ TypeOK /\ BusyInv /\ ProfileInv /\ LimitInv /\ EnginesInv /\ ChipInv
      /\ under \subseteq Commands
  BY DEF IInv, TypeOK
<1>u. /\ UNCHANGED <<profiled, found, remembered, byFlag, list, target, wantChip, chipSet, thisChip,
                      ceilBusy, ceilAsked, providers, engineScan, scanning, late, missed>>
      /\ shownChip' = shownChip
      /\ path' = p /\ reading' = TRUE /\ profile' = None /\ limit' = None
      /\ under' = Ask(under, Inspect(p)) /\ Press
  BY DEF PickModel, world, history, chip, shownChip
<1>p. p \in Paths
  BY DEF Paths
<1>1. /\ under' \in SUBSET Commands /\ \A k : k # "profile" => SameKind(k)
      /\ Inspect(p) \in under' /\ Inspect(p).do = "profile" /\ Inspect(p).last
      /\ \A y \in under' : y.do = "profile" /\ y.last => y = Inspect(p)
      /\ Asked("profile")'
  <2> DEFINE c == Inspect(p)
  <2>1. c \in Commands /\ c.last /\ c.do = "profile" /\ under' = Ask(under, c) /\ under \in SUBSET Commands
    BY <1>0, <1>u, AskedTyped, <1>p
  <2> HIDE DEF c
  <2>2. /\ under' \in SUBSET Commands /\ c \in under'
        /\ \A y \in under' : y.do = "profile" /\ y.last => y = c
        /\ \A k : k # "profile" => Of(under', k) = Of(under, k)
    BY <2>1, AskFacts
  <2>3. Asked("profile")'
    BY <2>1, <2>2 DEF Asked
  <2> QED
    BY <2>1, <2>2, <2>3 DEF c, SameKind
<1>2. TypeOK'
  <2>1. /\ UNCHANGED <<profiled, found, byFlag, chipSet, ceilBusy, ceilAsked, engineScan, scanning>>
        /\ reading' \in BOOLEAN /\ profile' \in Paths
    BY <1>u DEF Paths
  <2> QED
    BY <1>0, <1>u, <1>1, <2>1, <1>p, Pressed DEF TypeOK
<1>3. BusyInv'
  BY <1>0, <1>u, <1>1, SameAsked DEF BusyInv
<1>4. ProfileInv'
  <2>1. Inspect(p).path = path'
    BY <1>u DEF Inspect
  <2> QED
    BY <1>1, <2>1 DEF ProfileInv
<1>5. EnginesInv'
  <2>1. Asked("engines") => Asked("engines")'
    BY <1>1, SameAsked
  <2> QED
    BY <2>1, <1>0, <1>u, <1>1, EnginesFrame DEF SameLate
<1>6. ChipInv'
  BY <1>0, <1>u, <1>1, SameAsked, ChipFrame
<1>7. LimitInv'
  BY <1>u DEF LimitInv
<1> QED
  BY <1>2, <1>3, <1>4, <1>5, <1>6, <1>7 DEF IInv

LEMMA PickTargetPreserves ==
  ASSUME IInv, NEW i \in Nat, PickTarget(i)
  PROVE  IInv'
<1>0. /\ TypeOK /\ BusyInv /\ ProfileInv /\ LimitInv /\ EnginesInv /\ ChipInv
      /\ under \subseteq Commands
  BY DEF IInv, TypeOK
<1>u. /\ UNCHANGED <<profiled, found, remembered, byFlag, list, wantChip, thisChip,
                      path, reading, profile, ceilAsked, engineScan, scanning, late, missed>>
      /\ target' = i /\ chipSet' = TRUE /\ Press
      /\ list # None /\ i \in DOMAIN list
      /\ ChipChanged(under, path, profile, list[i], list[i] = thisChip)
  BY DEF PickTarget, world, history, model
<1>t. /\ path \in Paths /\ profile \in Paths /\ shownChip' \in Targets /\ shownChip' = list[i]
  <2>1. path \in Paths /\ profile \in Paths /\ list \in Lists
    BY <1>0, <1>u DEF TypeOK
  <2>2. shownChip' \in Targets
    BY <2>1, <1>u, ShownTyped DEF shownChip
  <2>3. list # <<>>
    BY <1>u
  <2> QED
    BY <2>1, <2>2, <2>3, <1>u DEF shownChip, Target
<1>1. /\ under' \subseteq Commands /\ limit' \in Limits \union {None}
      /\ providers' \in EngineRows \union {None} /\ ceilBusy' \in BOOLEAN
      /\ \A k : k \notin {"ceiling", "providers"} => Of(under', k) = Of(under, k)
      /\ ceilBusy' => Asked("ceiling")'
      /\ engineScan' => Asked("engines")'
      /\ LimitInv' /\ EnginesInv'
  <2> DEFINE t == list[i]
             here == (list[i] = thisChip)
             p == path
             prof == profile
             S == under
  <2>1. /\ S \in SUBSET Commands /\ here \in BOOLEAN /\ p \in Paths /\ prof \in Paths /\ t \in Targets
        /\ p = path' /\ prof = profile' /\ t = shownChip' /\ ChipChanged(S, p, prof, t, here)
        /\ (t # None => here = (t = thisChip'))
        /\ UNCHANGED engineScan
        /\ Of(S, "engines") = Of(under, "engines") /\ Of(S, "ceiling") = Of(under, "ceiling")
    BY <1>0, <1>u, <1>t
  <2> HIDE DEF t, here, p, prof
  <2> QED
    BY <1>0, <2>1, ChipChangedKeeps
<1>s. \A k : k \notin {"ceiling", "providers"} => SameKind(k)
  BY <1>1 DEF SameKind
<1>2. TypeOK'
  <2>1. UNCHANGED <<profiled, found, byFlag, reading, ceilAsked, engineScan, scanning>> /\ chipSet' \in BOOLEAN
    BY <1>u
  <2> QED
    BY <1>0, <1>u, <1>1, <2>1, Pressed DEF TypeOK
<1>3. BusyInv'
  <2>1. (reading' => Asked("profile")') /\ (scanning' => Asked("autoscan")') /\ list' # None
    BY <1>0, <1>u, <1>s, SameAsked DEF BusyInv
  <2> QED
    BY <1>1, <2>1 DEF BusyInv
<1>4. ProfileInv'
  BY <1>0, <1>u, <1>s, ProfileFrame DEF SameLate
<1>5. ChipInv'
  BY <1>u DEF ChipInv
<1> QED
  BY <1>1, <1>2, <1>3, <1>4, <1>5 DEF IInv

LEMMA ScanAgainPreserves ==
  ASSUME IInv, ScanAgain
  PROVE  IInv'
<1>0. /\ TypeOK /\ BusyInv /\ ProfileInv /\ LimitInv /\ EnginesInv /\ ChipInv
      /\ under \subseteq Commands
  BY DEF IInv, TypeOK
<1>u. /\ UNCHANGED <<profiled, found, remembered, byFlag, list, target, wantChip, chipSet, thisChip,
                      path, reading, profile, limit, ceilBusy, ceilAsked, scanning, late, missed>>
      /\ shownChip' = shownChip
      /\ engineScan' = TRUE /\ providers' = None
      /\ under' = Ask(under, ScanEngines) /\ Press
  BY DEF ScanAgain, world, history, chip, model, ceiling, shownChip
<1>1. /\ under' \in SUBSET Commands /\ \A k : k # "engines" => SameKind(k)
      /\ ScanEngines \in under' /\ ScanEngines.do = "engines" /\ ScanEngines.last
      /\ \A y \in under' : y.do = "engines" /\ y.last => y = ScanEngines
      /\ Asked("engines")'
  <2> DEFINE c == ScanEngines
  <2>1. c \in Commands /\ c.last /\ c.do = "engines" /\ under' = Ask(under, c) /\ under \in SUBSET Commands
    BY <1>0, <1>u, AskedTyped
  <2> HIDE DEF c
  <2>2. /\ under' \in SUBSET Commands /\ c \in under'
        /\ \A y \in under' : y.do = "engines" /\ y.last => y = c
        /\ \A k : k # "engines" => Of(under', k) = Of(under, k)
    BY <2>1, AskFacts
  <2>3. Asked("engines")'
    BY <2>1, <2>2 DEF Asked
  <2> QED
    BY <2>1, <2>2, <2>3 DEF c, SameKind
<1>2. TypeOK'
  <2>1. /\ UNCHANGED <<profiled, found, byFlag, reading, chipSet, ceilBusy, ceilAsked, scanning>>
        /\ engineScan' \in BOOLEAN
    BY <1>u
  <2> QED
    BY <1>0, <1>u, <1>1, <2>1, Pressed DEF TypeOK
<1>3. BusyInv'
  BY <1>0, <1>u, <1>1, SameAsked DEF BusyInv
<1>4. ProfileInv'
  BY <1>0, <1>u, <1>1, ProfileFrame DEF SameLate
<1>5. EnginesInv'
  BY <1>u, <1>1 DEF EnginesInv
<1>6. ChipInv'
  BY <1>0, <1>u, <1>1, SameAsked, ChipFrame
<1>7. LimitInv'
  <2>1. Asked("targets") => Asked("targets")'
    BY <1>1, SameAsked
  <2> QED
    BY <2>1, <1>0, <1>u, <1>1, LimitFrame DEF SameLate
<1> QED
  BY <1>2, <1>3, <1>4, <1>5, <1>6, <1>7 DEF IInv

LEMMA AutoscanPreserves ==
  ASSUME IInv, PressAutoscan
  PROVE  IInv'
<1>0. /\ TypeOK /\ BusyInv /\ ProfileInv /\ LimitInv /\ EnginesInv /\ ChipInv
      /\ under \subseteq Commands
  BY DEF IInv, TypeOK
<1>u. /\ UNCHANGED <<profiled, found, remembered, byFlag, list, target, wantChip, chipSet, thisChip,
                      path, reading, profile, limit, ceilBusy, ceilAsked, providers, engineScan, late, missed>>
      /\ shownChip' = shownChip
      /\ scanning' = TRUE
      /\ under' = Ask(under, Autoscan) /\ Press
  BY DEF PressAutoscan, world, history, chip, model, ceiling, shownChip
<1>1. /\ under' \in SUBSET Commands /\ \A k : k # "autoscan" => SameKind(k)
      /\ Autoscan \in under' /\ Autoscan.do = "autoscan" /\ Autoscan.last
      /\ \A y \in under' : y.do = "autoscan" /\ y.last => y = Autoscan
      /\ Asked("autoscan")'
  <2> DEFINE c == Autoscan
  <2>1. c \in Commands /\ c.last /\ c.do = "autoscan" /\ under' = Ask(under, c) /\ under \in SUBSET Commands
    BY <1>0, <1>u, AskedTyped
  <2> HIDE DEF c
  <2>2. /\ under' \in SUBSET Commands /\ c \in under'
        /\ \A y \in under' : y.do = "autoscan" /\ y.last => y = c
        /\ \A k : k # "autoscan" => Of(under', k) = Of(under, k)
    BY <2>1, AskFacts
  <2>3. Asked("autoscan")'
    BY <2>1, <2>2 DEF Asked
  <2> QED
    BY <2>1, <2>2, <2>3 DEF c, SameKind
<1>2. TypeOK'
  <2>1. /\ UNCHANGED <<profiled, found, byFlag, reading, chipSet, ceilBusy, ceilAsked, engineScan>>
        /\ scanning' \in BOOLEAN
    BY <1>u
  <2> QED
    BY <1>0, <1>u, <1>1, <2>1, Pressed DEF TypeOK
<1>3. BusyInv'
  BY <1>0, <1>u, <1>1, SameAsked DEF BusyInv
<1>4. ProfileInv'
  BY <1>0, <1>u, <1>1, ProfileFrame DEF SameLate
<1>5. EnginesInv'
  <2>1. Asked("engines") => Asked("engines")'
    BY <1>1, SameAsked
  <2> QED
    BY <2>1, <1>0, <1>u, <1>1, EnginesFrame DEF SameLate
<1>6. ChipInv'
  BY <1>0, <1>u, <1>1, SameAsked, ChipFrame
<1>7. LimitInv'
  <2>1. Asked("targets") => Asked("targets")'
    BY <1>1, SameAsked
  <2> QED
    BY <2>1, <1>0, <1>u, <1>1, LimitFrame DEF SameLate
<1> QED
  BY <1>2, <1>3, <1>4, <1>5, <1>6, <1>7 DEF IInv

LEMMA StutterPreserves ==
  ASSUME IInv, UNCHANGED vars
  PROVE  IInv'
  BY DEF IInv, TypeOK, BusyInv, ProfileInv, LimitInv, EnginesInv, ChipInv, OfScreen, Fresh,
         Asked, shownChip, vars, world, chip, model, ceiling, history

-----------------------------------------------------------------------------
LEMMA NextPreserves == IInv /\ [Next]_vars => IInv'
<1> SUFFICES ASSUME IInv, [Next]_vars PROVE IInv'
  OBVIOUS
<1>1. CASE Reads
  BY <1>1, ReadsPreserves
<1>2. CASE Answer
  <2>1. PICK x \in under :
          \/ TargetsMsg(x) \/ DetectMsg(x) \/ ProfileMsg(x) \/ CeilingMsg(x)
          \/ ProvidersMsg(x) \/ EnginesMsg(x) \/ ScanMsg(x)
    BY <1>2 DEF Answer
  <2> QED
    BY <2>1, TargetsPreserves, DetectPreserves, ProfilePreserves, CeilingPreserves,
       ProvidersPreserves, EnginesPreserves, ScanPreserves
<1>3. ASSUME NEW f \in Figures, RunMsg(f) PROVE IInv'
  BY <1>3, RunPreserves
<1>4. CASE Keys
  <2>1. ASSUME NEW i \in 1 .. Len(After), PickTarget(i) PROVE IInv'
    <3>1. i \in Nat
      BY SetupScreenAssumption
    <3> QED
      BY <2>1, <3>1, PickTargetPreserves
  <2> QED
    BY <1>4, <2>1, PickModelPreserves, ScanAgainPreserves, AutoscanPreserves DEF Keys
<1>5. CASE UNCHANGED vars
  BY <1>5, StutterPreserves
<1> QED
  BY <1>1, <1>2, <1>3, <1>4, <1>5 DEF Next

LEMMA Inductive == Spec => []IInv
  BY InitEstablishes, NextPreserves, PTL DEF Spec

(* Every variable of the screen stays in its type (model.go:88-150).           *)
THEOREM SetupTyped == Spec => []TypeOK
<1>1. IInv => TypeOK
  BY DEF IInv
<1> QED
  BY <1>1, Inductive, PTL

(* The screen waits for an answer only while it is coming, or after the read   *)
(* it waits for has failed (model.go:628-658, 1161-1217; steps.go:258, 946):   *)
(* the flags are set only with a command under way, and no engines or no chips *)
(* are shown as being looked for only then, or when their last read failed.    *)
THEOREM NeverWaitsForNothing == Spec => []BusyIsUnderWay
<1>1. IInv => BusyIsUnderWay
  <2> SUFFICES ASSUME IInv PROVE BusyIsUnderWay
    OBVIOUS
  <2>1. /\ reading => Asked("profile")
        /\ ceilBusy => Asked("ceiling")
        /\ engineScan => Asked("engines")
        /\ scanning => Asked("autoscan")
        /\ list = None => Asked("targets")
    BY DEF IInv, BusyInv
  <2>2. LookingForEngines => Asked("engines") \/ Asked("providers") \/ missed
    <3>1. providers = None /\ shownChip # None => Asked("engines") \/ Asked("providers") \/ missed
      BY DEF IInv, EnginesInv, Asked
    <3> QED
      BY <2>1, <3>1 DEF LookingForEngines
  <2>3. ReadingChips => list = None \/ list = <<>>
    <3>1. list \in Lists \union {None}
      BY DEF IInv, TypeOK
    <3> QED
      BY <3>1, NoChipShown DEF ReadingChips, shownChip
  <2> QED
    BY <2>1, <2>2, <2>3 DEF BusyIsUnderWay
<1> QED
  BY <1>1, Inductive, PTL

(* With no profile under way the profile on screen is that of the model on     *)
(* screen, unless an overtaken answer came last (model.go:716-726).            *)
THEOREM ProfileIsOfThePath == Spec => []ProfileOfThePath
<1>1. IInv => ProfileOfThePath
  <2> SUFFICES ASSUME IInv, ~Asked("profile"), ~late["profile"]
               PROVE  profile = IF path \in Readable THEN path ELSE None
    BY DEF ProfileOfThePath
  <2> QED
    BY DEF IInv, ProfileInv, Asked
<1> QED
  BY <1>1, Inductive, PTL

(* With no limit under way the limit on screen is that of the model and the    *)
(* chip on screen, unless an overtaken answer came last (model.go:730-736).    *)
THEOREM LimitIsOfTheScreen == Spec => []LimitOfTheScreen
<1>1. IInv => LimitOfTheScreen
  <2> SUFFICES ASSUME IInv, profile # None, shownChip # None, ~Asked("ceiling"), ~late["ceiling"]
               PROVE  /\ limit # None /\ limit.path = path /\ limit.chip = shownChip
                      /\ \/ limit.here = (shownChip = thisChip)
                         \/ chipSet \/ thisChip = None \/ Asked("targets")
    BY DEF LimitOfTheScreen
  <2>1. ~\E x \in under : x.do = "ceiling" /\ x.last
    BY DEF Asked
  <2>2. limit # None /\ OfScreen(limit)
    BY <2>1 DEF IInv, LimitInv
  <2> QED
    BY <2>2 DEF OfScreen
<1> QED
  BY <1>1, Inductive, PTL

(* The engines on screen are those of the chip on screen; with no read of them *)
(* under way there are some exactly when the last read did not fail, and they  *)
(* are those the last scan found, unless an overtaken answer came last         *)
(* (model.go:190-199, 650-658, 771-794).                                       *)
THEOREM EnginesAreOfTheChip == Spec => []EnginesOfTheChip
<1>1. IInv => EnginesOfTheChip
  <2> SUFFICES ASSUME IInv PROVE EnginesOfTheChip
    OBVIOUS
  <2>1. providers # None /\ shownChip # None => providers.chip = shownChip
    BY DEF IInv, EnginesInv
  <2>2. ASSUME ~Asked("engines"), ~Asked("providers"), ~late["providers"], shownChip # None
        PROVE  /\ providers = None <=> missed
               /\ providers # None /\ providers.got = "old" => ~found
    BY <2>2 DEF IInv, EnginesInv, Asked, Fresh
  <2> QED
    BY <2>1, <2>2 DEF EnginesOfTheChip
<1> QED
  BY <1>1, Inductive, PTL

(* Once no detection is under way, a screen whose list has this machine's chip *)
(* is on it, unless the user set another one (model.go:683-713).               *)
THEOREM SettlesOnItsMachine == Spec => []SettlesOnThisMachine
<1>1. IInv => SettlesOnThisMachine
  BY DEF IInv, ChipInv, SettlesOnThisMachine
<1> QED
  BY <1>1, Inductive, PTL
=============================================================================
