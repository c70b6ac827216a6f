------------------------------ MODULE SamplerMC ------------------------------
(* Model values for TLC runs of Sampler. *)
EXTENDS Sampler

Sentences == {<<0, 1, 2>>, <<1, 0, 2>>, <<1, 2>>}

Of(stages) == [stages |-> stages, outside |-> FALSE]
Beside(stages) == [stages |-> stages, outside |-> TRUE]

SomeChains == {
    Of(<<"grammar", "penalties", "truncate", "greedy">>),
    Of(<<"truncate", "grammar", "greedy">>),
    Of(<<"temp_ext", "grammar", "top_k">>),
    Of(<<"grammar", "tail_free", "temp", "greedy">>),
    Of(<<"penalties", "temp", "dist">>),
    Beside(<<"top_k", "temp", "greedy">>)}

DistChain == {Of(<<"grammar", "temp", "dist">>)}

=============================================================================
