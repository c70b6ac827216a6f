----------------------------- MODULE MtpDriverMC -----------------------------
(* Model values for TLC runs of MtpDriver. *)
EXTENDS MtpDriver

Prompts == {1, 3}

=============================================================================
