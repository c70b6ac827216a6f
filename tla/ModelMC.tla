------------------------------- MODULE ModelMC -------------------------------
(* Model values for TLC runs of Model. *)
EXTENDS Model

(* Pieces of every kind: none, a letter, both halves of a character, a split   *)
(* character with a letter, and one that is no text at all.                  *)
SmallVocab == << << >>, <<Letter>>, <<Lead>>, <<Continuation, Letter>>,
                <<Continuation, Continuation>> >>

SmallHeader ==
    [keys |-> << [name |-> "k", items |-> <<"x", "y">>], [name |-> "e", items |-> << >>] >>,
     tensors |-> <<"t0", "t1">>]
=============================================================================
