---------------------------- MODULE MCRunProgress ----------------------------
(* RunProgress on small instances. *)
EXTENDS RunProgress

ShortSteps == <<1, 2>>
TwoSteps == <<4, 2>>
=============================================================================
