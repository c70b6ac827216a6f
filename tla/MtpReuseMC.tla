------------------------------ MODULE MtpReuseMC ------------------------------
(* Values for TLC: two tokens, prompts that share prefixes or do not.         *)
EXTENDS MtpReuse

PromptsMC == {<<"x", "y", "x">>, <<"x", "y", "y", "x">>, <<"y">>}

===============================================================================
