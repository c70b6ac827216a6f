------------------------------ MODULE Decoding ------------------------------
(***************************************************************************)
(* What a generation promises, however it is computed: the tokens the      *)
(* target model itself would draw, in order, each once.  Plain             *)
(* one-token-at-a-time decoding and MTP speculation are both meant to      *)
(* implement this; speculation only emits several tokens in one burst.     *)
(*                                                                         *)
(* <<g, p>> is the token that belongs at position p of generation g.       *)
(***************************************************************************)
EXTENDS Integers, Sequences

CONSTANTS
    Lengths,    \* prompt lengths
    Burst       \* most tokens one call may emit

VARIABLES
    generation, \* generations started
    length,     \* prompt length of the running one
    emitted,    \* what it has emitted
    phase       \* "idle", "running" or "over"

dvars == <<generation, length, emitted, phase>>

DInit ==
    /\ generation = 0 /\ length = 0 /\ emitted = <<>> /\ phase = "idle"

Start ==
    /\ phase = "idle" /\ phase' = "running"
    /\ generation' = generation + 1
    /\ length' \in Lengths
    /\ emitted' = <<>>

(* The next n tokens of the text. *)
Continuation(n) == [i \in 1 .. n |-> <<generation, length + Len(emitted) + i - 1>>]

Emit(n) ==
    /\ phase = "running" /\ phase' \in {"running", "over"}
    /\ emitted' = emitted \o Continuation(n)
    /\ UNCHANGED <<generation, length>>

End ==
    /\ phase = "running" /\ phase' = "over"
    /\ UNCHANGED <<generation, length, emitted>>

Reset ==
    /\ phase = "over" /\ phase' = "idle"
    /\ UNCHANGED <<generation, length, emitted>>

DNext == Start \/ (\E n \in 1 .. Burst : Emit(n)) \/ End \/ Reset

DSpec == DInit /\ [][DNext]_dvars /\ WF_dvars(End)

=============================================================================
