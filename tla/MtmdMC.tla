------------------------------- MODULE MtmdMC --------------------------------
(* Model values for TLC runs of Mtmd. *)
EXTENDS Mtmd

SomeInputs == {<<"text", "image", "text">>, <<"image">>, <<"text">>}

=============================================================================
