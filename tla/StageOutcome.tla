---------------------------- MODULE StageOutcome ----------------------------
(* What run_isolated promises (docstring: "a hard deadline; never treat      *)
(* absent output as success"): the callback ends in one way at most, and the *)
(* caller gets one report, which is about that end.                          *)
VARIABLES ended,   \* how the callback ended: "no", "value", "raised" or "died"
          due,     \* the deadline has passed
          report   \* the StageResult's status, "none" before it

Init == ended = "no" /\ due = FALSE /\ report = "none"

End(how) ==
  /\ ended = "no" /\ ended' = how
  /\ UNCHANGED <<due, report>>

Deadline == ~due /\ due' = TRUE /\ UNCHANGED <<ended, report>>

(* A value or an error is reported only if it is the callback's; a timeout   *)
(* only after the deadline; no_result only for a callback that ended.        *)
Report(status) ==
  /\ report = "none" /\ report' = status
  /\ CASE status = "success"        -> ended = "value"
       [] status = "callback_error" -> ended \in {"value", "raised"}
       [] status = "timeout"        -> due
       [] OTHER                     -> ended # "no"
  /\ UNCHANGED <<ended, due>>

Next ==
  \/ \E how \in {"value", "raised", "died"} : End(how)
  \/ Deadline
  \/ \E status \in {"success", "callback_error", "timeout", "no_result"} : Report(status)

Spec == Init /\ [][Next]_<<ended, due, report>>
=============================================================================
