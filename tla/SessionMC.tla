------------------------------ MODULE SessionMC ------------------------------
(* Model values for TLC runs of Session. *)
EXTENDS Session

(* A position, and the first value out of range, a negative number as an i32. *)
EdgeBounds == {1, Top + 1}

(* What a context shift does once the start is removed.                        *)
Back == {-1}

(* No action reads `result`: states that differ in it alone are one state to   *)
(* TLC, which still checks the action properties on every step.              *)
NoResult == <<kvVars, kept>>
=============================================================================
