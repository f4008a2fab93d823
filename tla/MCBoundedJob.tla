---------------------------- MODULE MCBoundedJob ---------------------------
(* BoundedJob on a small instance: two samples under pressure stop the job,    *)
(* and SIGTERM or Ctrl-C comes up to twice, so that the second one meets the   *)
(* handling of the first.                                                      *)
EXTENDS BoundedJob
=============================================================================
