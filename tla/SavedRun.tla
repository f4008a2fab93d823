------------------------------ MODULE SavedRun ------------------------------
(* What saving promises a reader of the saved list (screen.py save): a name  *)
(* holds no save, the save of one measurement, or something in between that  *)
(* is not to be trusted; a save appears in one step and is never altered.    *)
EXTENDS Integers

CONSTANT Names

VARIABLES kept, made

Blank == -2    \* a save of a run that measured nothing
NoSave == -4
Loose == -5    \* being copied or removed, or left so by a stop

Init == kept = [n \in Names |-> NoSave] /\ made = 0

Measure == made' = made + 1 /\ UNCHANGED kept

Loosen(n) == kept' = [kept EXCEPT ![n] = Loose] /\ UNCHANGED made

Vanish(n) ==
  /\ kept[n] = Loose
  /\ kept' = [kept EXCEPT ![n] = NoSave] /\ UNCHANGED made

Commit(n, v) ==
  /\ kept[n] = Loose
  /\ kept' = [kept EXCEPT ![n] = v] /\ UNCHANGED made

Next ==
  \/ Measure
  \/ \E n \in Names : Loosen(n) \/ Vanish(n) \/ \E v \in (1 .. made) \cup {Blank} : Commit(n, v)

Spec == Init /\ [][Next]_<<kept, made>>
=============================================================================
