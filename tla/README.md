# A verification project for ik-llama-cpp-2

TLA+ models of the Rust bindings `ik-llama-cpp-2` and of the C++ glue in
`ik-llama-cpp-sys` they stand on, the TLC configurations that check them, and
TLAPS proofs about them. The native library itself (ik_llama.cpp, a submodule)
is external: what the models assume of it is what the crate's code relies on.

## The system

| Component | Source | State it keeps | Operations |
|---|---|---|---|
| MTP speculative driver | `speculative.rs`, `wrapper_common.cpp` | `n_past`, `have_carry`, `carry`; the target context; through the library: the companion (NextN) cache, the captured hidden state, a rollback checkpoint, a sampler | `begin`, `step`, `draft`, `commit`, `warm`, `finalize_prompt`, `companion_state_*` |
| Log bridge | `log.rs` | one static `State`: `disabled`, and a mutex over (level, half line) | `send_logs_to_tracing`, the C callback |
| Backend singleton | `llama_backend.rs` | an atomic flag; the library up or down | `init`, `drop` |
| Model, contexts, LoRA adapters | `model.rs`, `context.rs`, `model/lora.rs` | models on the backend, contexts that borrow them, adapters the model owns and contexts apply | load, drop, `new_context`, `lora_adapter_*` |
| Tokenizer, metadata, templates, GGUF | `model.rs`, `model/*.rs`, `gguf.rs` | none that changes; the caller's incremental decoder | reads through buffers sized by an earlier call, reads by index |
| Batch, decode, embeddings | `llama_batch.rs`, `context.rs`, `context/embeddings.rs` | the tokens of a batch; the rows of the last decode; slices the caller has borrowed | `add`, `add_sequence`, `clear`, `decode`, `get_logits_ith`, `embeddings_*` |
| KV cache | `context/kv_cache.rs` | cells and running state per sequence, in the library | `seq_rm`, `seq_cp`, `seq_add`, `seq_div`, `keep`, `clear` |
| Session and sequence state | `context/session.rs` | states as values, byte buffers and files | save, load, get, set |
| Sampler chain, grammar, DRY | `sampling.rs`, `grammar.rs`, `token/data_array.rs` | accepted history, grammar and DRY state, the candidate array | `apply`, `sample`, `accept`, `reset`, `chain_simple`, `try_clone` |
| Multimodal | `mtmd.rs` | bitmaps, chunk collections, handles on chunks, one shared output buffer | `tokenize`, `get`, `copy`, `encode_chunk`, `eval_chunks` |
| Quantize, timing, build | `quantize.rs`, ... | none that changes | one-shot calls, plain records |

How they interact. The backend carries models, models carry contexts and
adapters; a batch goes into a context, rows come out of it and go into the
sampler, whose token goes into the next batch. `eval_chunks` and the MTP driver
decode into a context of their caller's; the session calls and the KV cache
operations change what the next decode attends to. The library calls back in
one place only, the log callback, from any of its threads.

Rust's `&mut self` rules out two calls on one context at a time, so the hard
behaviour is of five kinds.

* **A call that fails half way.** A driver step is a sequence of library calls
  over four pieces of state (target cache, companion cache, sampler, `n_past`);
  `eval_chunks` is one over the chunks of a prompt; `add_sequence` is one over
  tokens. Each may fail after an earlier one succeeded.
* **Process-wide state shared by threads**: the log callback's one buffer and the
  backend's flag.
* **State held twice.** The sampler's history, its grammar and its DRY state
  each remember what was accepted and are reset, cloned and chained by
  different calls; a snapshot has a target and a companion half.
* **Lifetimes the types do not carry**: the backend under its models, adapters
  freed with their model, borrowed chunks, slices of the last decode.
* **A buffer, a batch, a context, an integer at its limit**: the last positions
  before `n_ctx`, an output array sized for the longest step, `None` as -1
  beside `u32` bounds, a string of `bytes + 16` that does not grow, a candidate
  array that a stage has emptied.

What makes each component correct, and where this code is exposed, is listed
line by line under `hazards` in `PROJECT.json`.

## Modules

| Module | What it is |
|---|---|
| `MtpDriver` | the driver: two ways of driving it, every call that can fail, its inductive invariant |
| `Decoding` | what a generation promises: the target's own tokens in order, each once |
| `MtpReuse` | reuse of a prompt prefix across requests: prefill by the caller, snapshot, restore, fallback |
| `LogBridge` | the log callback and its installation, from several threads, with a subscriber that may panic |
| `Backend` | `LlamaBackend::init` / `drop` over one atomic flag |
| `Text` | pure operators: two-call buffers, pieces and the incremental decoder, entries of a GGUF header by index |
| `Model` | `Backend` and `Text` composed with models, contexts and adapters |
| `Sampler` | the chain, the candidate array, the grammar in or beside the chain, DRY |
| `KvCache` | the sequence operations, with their optional and width-checked bounds |
| `Session` | `KvCache` with every way of taking a state out and putting it back |
| `Context` | batch, decode, and reading rows by position or sequence |
| `Mtmd` | `Context` with bitmaps, chunks, handles and `eval_chunks` |
| `...MC` | values for TLC |
| `MtpDriverProofs` (driver and `Decoding`), `MtpReuseProofs`, `LogBridgeProofs`, `ModelProofs` (`Backend`, `Model` and `Text`), `SamplerProofs`, `SessionProofs`, `MtmdProofs` | the proofs |
| `Induction` | what they share: induction over numbers, functions and sequences, as lemmas without operator parameters |

`PROJECT.json` maps each definition to the lines it stands for.

### MtpDriver

The caller's loop and the glue take turns, so the state is one program counter
(`pc`) over the calls of a generation:

    new -> prefill <-> warming -> ready -> anchored -> drafted -> verified -> ready ...
                                            (step)
                                  ready ----------- > drafted
                                            (draft)

A failing call leads to `failed` (or `stepFailed` in `step`), an assertion of
`llama_decode` to `aborted`, the end of a generation to `done`. The caller begins a
round as long as its token budget is not spent (`WantsMore`); it does not look at
`n_ctx`, as neither the example nor the test does. `ClearContext`
(`context_mut().clear_kv_cache()`) goes back to `new` and leaves the driver,
its companion and its sampler as they are, as the code does: `begin` resets
neither.

| Action | Code |
|---|---|
| `Begin`, `DecodePrompt`, `WarmPrompt`, `FinalizePrompt` | `ik_llama_rs_mtp_begin`, or the caller's own chunks with `warm` and `finalize_prompt`; the caller may choose any chunk length |
| `SampleAnchor`, `ProposeInStep`, `Verify`, `CommitStep(k)` | the stages of `ik_llama_rs_mtp_step`, with `k` drafts accepted |
| `TakeFirst`, `ProposeForCaller`, `Verify`, `CommitForCaller(k, n)` | the loop of `tests/mtp_reuse.rs` over `draft` and `commit`; the caller commits `n` tokens, too many included |
| `Stop`, `ClearContext` | the caller between calls |

A token is identified by where it belongs. `Tok(p)` is the token of this
generation at position `p`; `Wrong` is any other, and tokens of an earlier
generation differ from both. A cache is the set of its cells (position,
token). The target predicts `Tok(p+1)` after position `p` exactly when what it
attends to at the positions up to `p` is the right text, so a cell left behind,
a missing one or a rejected draft that stays in a recurrent state shows in the
next token. Drafts are arbitrary: each is right or `Wrong`.

The library's part is external and modelled from how the glue uses it:
`llama_decode` adds cells and rows, or aborts on a batch over `n_batch` or
`n_ctx` (the glue's comments say so); `common_speculative_commit` cuts the
target back to the committed prefix, restores a recurrent state only through a
checkpoint, moves the companion along and captures the next hidden state; when
it reports failure nothing but the target's cut may have happened.

### Decoding

The abstract specification: a generation starts with a prompt length, emits
runs of its own continuation and ends. `MtpDriver!ImplementsDecoding` is the
refinement; the mapping sends `gen`, `prompt`, `out` to the abstract variables
and the program counter to `idle`, `running` or `over`.

### MtpReuse

Requests follow each other on one driver:

    idle -> restoring -> restoringCompanion -> prefill <-> warming -> ready -> idle
      \---------------------------------------^            (failed -> idle)

| Action | Code |
|---|---|
| `Ask` | the caller clears the target and either restores or prefills from 0 (`restore`, `parity_phase` in `tests/mtp_reuse.rs`) |
| `RestoreTarget`, `RestoreCompanion` | `state_seq_set_data_ext`, `companion_state_set`; each may fail, and the second is called whatever the first returned |
| `FallBack` | the full prefill after a failed restore, with or without a cleared target (`ClearsOnFallback`) |
| `DecodeChunk`, `WarmChunk`, `Finalize` | the loop of `prefill`, with its forced chunk boundary and its capture of both halves |
| `Generate` | a whole generation, seen only through what it leaves in the caches |

The target is the *sequence* of cells it absorbed, because a recurrent state
cannot be cut and a position absorbed twice is there twice; the companion is a
set of cells. `tip` is what the last output row was computed over; it outlives
a clear or a restore, as the library's row buffer does. A generation is
`MtpDriver`'s subject: it hands over a target that holds its prompt and answer,
and a companion that may lag behind if a call failed.

### LogBridge

Each thread walks through the callback: `Call`, `Acquire` (the mutex, poisoned
or not), `Flush`, `Push`, `EmitLine` once per newline, `Release`. `Unwind` is a
panic in the subscriber, caught by `catch_unwind`: the guard is dropped and the
buffer stays as it was at the panic. A text is a sequence of pieces, each with
its own identity, and newlines, so a piece that is lost, repeated, reordered or
sent at the wrong level is seen. `fed` and `returned` are history. `SetState`
and `Hook` are the two statements of `send_logs_to_tracing`.

### Backend and Model

`Swap`, `BackendInit` and `Drop`, `BackendFree`, `Clear` are the statements of
`init` and `drop`; `Send` moves the handle to another thread. The library's
init and free are regions between two steps, so that two threads inside them
at once can be seen. `Model` adds what lives on it: `LoadFromFile`, `DropModel`,
`NewContext`, `DropContext` and the `LoraAdapter*` calls. The borrow checker's
rules are guards (a context keeps its model); the rule only a comment states,
that the backend outlives its models, is the guard of `DropBackend`. An adapter
is a slot with an owner and a count of frees, so a second free, or one under a
context that still applies the adapter, is seen.

`Read` makes one of the calls of `Text` in a state with a model and keeps what
the library holds (`want`) beside what the crate returns (`got`). Reading tokens of
which one may have more replaced bytes than its string has room for is marked
`"overfull"`: there the crate may return less than the library holds.

### Text

Operators, not a state machine. The library's ways of answering a sized call are
three (`FillOrNeed` with a negative count, `Snprintf` with a NUL, `FillWhatFits`
with the full count), and each reader is the crate's own arithmetic around one
of them: `Tokenize`, `Piece`, `ReadFfiString`, `ApplyChatTemplate`. A text is a
sequence of distinct elements and a fresh buffer is zeros, so a buffer one
short, a NUL kept or a count off by one shows in the result. Bytes are letters,
leads and continuations, which is enough for `DecodeByte` to join characters
split over tokens and to count what a byte that is no text costs: `TokenToPiece`
decodes into a string of `bytes + Room` that does not grow, and ignores what was
left over, as the code does (`Room` stands for 16). GGUF tables answer in range,
abort on a bad key index and read `Wild` on any other bad index.

### Sampler

    new -> (building dry) -> idle -> outside -> applying -> drawn -> idle ...

| Action | Code |
|---|---|
| `BuildPlain`, `BuildGrammar`, `BuildGrammarLazy`, `BuildOutside`, `BuildDry` | the constructors; a grammar or DRY sampler may fail to build |
| `Candidates`, `PenaliseOutside`, `ApplyOutside` | `sample`'s candidates, none where a row has no logits, or a caller's own array, in order or not; repetition penalties, `LlamaGrammar::apply`, `LlamaDrySampler::apply` on the array |
| `ApplyStage` | one stage of the chain, and `modify_as_c_llama_token_data_array` taking size, flag and selection back; emptiness is looked at before the first stage only |
| `Draw`, `Accept` | the selected token or the fallback, token 0 from no candidates; history, grammar and DRY take it, and an end of generation the grammar refuses aborts |
| `Reset`, `ChainSimple`, `ResetDry`, `DropAll`, `Clone`, `Rollback` | what keeps and what loses state between tokens and between generations |

The grammar is a set of sentences, its state the tokens it has read; a logit is
a level, `Masked` is -inf. What a library stage may do is a set of outcomes: any
order among equals, any cut the truncating samplers may make, a draw on any
candidate of positive probability or, by rounding, on the last. `tail_free`, which
takes a `min_keep`, may keep nothing; a stage of the library that is then handed an
empty array may assert (`asserted`), and the selectors guard themselves. The grammar
stage, like `as_c`, masks logits and leaves the `sorted` flag as it was.

`slips` is history: what went by in this generation that the code neither
prevents nor reports. `"blind"`: a token was drawn from no candidates. `"misled"`:
a stage relied on a `sorted` flag that was not true. `"carried"`: the generation
began with a grammar that had read another's tokens, since `reset` and
`chain_simple` keep the grammar's state.

### KvCache and Session

Every operation of `kv_cache.rs` in two readings that run side by side: `cells`
takes the bounds as the code converts them (`Fits`, `CInt`, `Refusal`: -1 for
none, an error above `i32::MAX`), `want` takes them as the documentation words
them. A copy may come from any sequence (a negative source) and go to one that
holds something. Of a shift or a division it is assumed that the caller keeps
positions in range and distinct within a sequence. `Top` stands for `i32::MAX`,
and `u32` reaches `2 * Top + 1`, whose bits are those of -1. `Session` keeps
states taken by any of the calls of `session.rs`, as a value, a buffer or a
file, and puts them back into any sequence, under the flags they were taken
with; the library may refuse, and then leaves the sequence as the code must
expect (`Lost`). A state is sized in one call and written in another, and both
may answer 0: then an empty state is kept, whose restore fails with 0 and is
reported as a success. `result` is what the call returned.

### Context and Mtmd

`Context` is a batch (`Add`, `AddSequence`, `Clear`), a `Decode` that may fail,
and reads that borrow a row by batch position or a pooled vector by sequence.
`prompts`, `torn` and `told` are history. `Mtmd` adds bitmaps, `Tokenize`,
handles (`Get` borrows, `Copy` owns), and `eval_chunks` cut at its library calls:
`EvalChunks`, `EvalText`, `EncodeImage`, `EvalImage`, `EvalFails`, `EvalReturns`.
The cache is the set of positions the sequence holds. `EvalChunks` starts at the
caller's `n_past` whatever the cache holds there, and a failed evaluation leaves
positions behind (`left`) that the caller may trim or not. Evaluating ends the
life of a slice (`live`), as each decode rewrites the library's memory.

## Runs

| Run | Question | Bounds | Result |
|---|---|---|---|
| `mtp` | safety of both paths over a recurrent target, refinement of `Decoding`, termination, and when the process aborts | prompts of 1 and 3 tokens, `n_batch` 3, `n_ctx` 8, `n_max` 2, budget 7, two generations | holds, 162 thousand states |
| `mtp_full_context` | "never places a token at/over n_ctx" | `n_ctx` 4, one generation, plain attention | violated |
| `reuse_exact` | a generation starts from its own prompt, with restores that fail in either half | prompts of 1, 3 and 4 tokens (two share a prefix), chunks of 2, three requests, answers of at most 1 | holds, 149 thousand states |
| `reuse_fallback` | the documented fallback to `begin` | two requests | violated |
| `log_lines` | lines delivered equal a reference reading of the log; text in the buffer survives panics, which release the mutex | two threads, three calls of which any may upset the subscriber, three text shapes, two levels and CONT | holds |
| `log_keep_bridging` | "keep bridging" after a panic | whole lines; the line of the first call upsets it | violated |
| `model` | one owner of the backend, models on a live library, adapters freed once, reads whole | three threads, two models, one context, two adapters; texts, buffers and token lists up to 3, `Slack` 1 and `Room` 3 for 16, `Guess` 1 for 8 | holds, 372 thousand states |
| `sampler` | generations follow the grammar; when the library aborts | six chains, three tokens, two logit levels, three accepts in a generation, eager and lazy | holds, 850 thousand states |
| `sampler_dist` | a drawn token survived `apply` | one chain | violated |
| `sequences` | ranges as documented; a restore rewinds; a load returns every token | two sequences, two cells, `Top` 1, bounds none, 0, 1 and 2 (the first over `i32::MAX`), shifts by -1, one kept state | holds, 88 thousand states |
| `multimodal` | prompts can continue after a decode; chunks freed once; `n_past` counts the cache | capacity 2, prompts of 1 to 3, two sequences, images of two tokens, 5 positions, two handles | holds, 485 thousand states |
| `mtmd_slice` | a slice is of the last decode | as `multimodal` | violated |

Why the bounds are enough.

* *Driver.* A prompt of 3 over a batch of 3 gives one chunk and, as the caller
  may choose them, several; a prompt of 1 gives the first round nothing but its
  anchor. With `n_max` 2 a round may accept none, one or all of its drafts. The
  budget outlasts the context, so that the clamp cuts a draft to one token and
  to none, and the last round begins at `n_ctx`. Two generations show what one
  leaves to the next.
* *Reuse.* Three requests are one that snapshots, one that disturbs, one that
  reuses; the chunk length of 2 puts the snapshot point inside, at the end of
  and behind a chunk.
* *Log.* Three calls are a half line, something between, and its continuation.
* *Model.* Three threads are a holder, one being refused and one to which the
  handle moves. Two models and one context give an adapter of the wrong model.
  Every buffer length is below, at and above what a text of up to 3 needs. A piece
  of two stray bytes outgrows a string of `bytes + 3`; no other piece does.
* *Sampler.* The chains put the grammar first, behind a truncating stage, ahead
  of a `tail_free` and beside the chain, with every kind of selector and with none.
  Three tokens and two levels give ties, penalties that change the order, and
  arrays in which everything is masked; the three sentences include one after the
  trigger.
* *Sequences.* A smaller `Top` changes no comparison: the values that matter are
  none, 0, the largest in range and the first out of range, a negative number as an
  `i32`. Two cells in one sequence or in two give a range that splits a sequence and
  a copy into one that holds something. No action reads `result`, so states that
  differ in it alone count as one (`NoResult`, the run's VIEW); the action
  properties are checked on every step all the same.
* *Multimodal.* A batch of 2 takes a prompt of 3 in part only. A text, an image
  and a text again give a failure before, between and behind a decode, and inside
  an image.

Every safety property of a passing run is also a theorem, which holds without
these bounds (see Proofs); only liveness rests on them.

Every passing property has a mutant: a plausible slip (an operator whose comment
starts with "Mutant") that TLC finds through that property. The mutants are
used by nothing else.

### What the violated runs show

* `reuse_fallback`: when the companion's half of a restore fails, the target's
  half is already in place. The documentation sends the caller to `begin`,
  which does not clear the target (nor may the caller, by the type's own
  documentation), so the prefix is decoded over itself.
* `log_keep_bridging`: a line is drained after it was emitted. The first call
  panics inside `emit` (`log.rs:99`) and leaves its line in the buffer; the second
  takes the poisoned mutex as the comment at `log.rs:85` intends, emits that line a
  second time, panics again, and its own line is never delivered. So does every
  call after it, for as long as the line upsets the subscriber.
* `mtp_full_context`: the clamp cuts the draft to nothing when `n_past` reaches
  `n_ctx`, but the anchor is still placed at `n_past` (`wrapper_common.cpp:268`),
  although the clamp's comment says the batch "never places a token at/over n_ctx".
  The callers of the repository count tokens only. That this is the only case is
  `AbortsOnlyWhenFull`, checked by `mtp` and proved.
* `sampler_dist`: `dist` falls back to the last candidate when the draw exceeds
  the sum of the rounded probabilities. Behind a grammar stage that candidate
  may be masked, and `accept`, documented to take what survived `apply`, is
  given a token the grammar refuses.
* `mtmd_slice`: `eval_chunks` decodes through `&LlamaContext`, so a slice
  borrowed from the same context survives a decode it should have ended with.

## Fairness

`MtpDriver`: weak fairness of `Generation`, the disjunction of all steps inside
a generation. Calls are synchronous and return, and the caller's loop goes on
until it stops or is stopped; no fairness between alternatives is assumed (a
draft may be rejected for ever, a call may fail or not). `MtpReuse`: weak
fairness of `Prefill` alone (a request once made runs to its end), none for
making a request or generating. `LogBridge`: weak fairness of each thread's
steps inside the callback; the mutex is taken without starvation because the
number of calls is bounded. `Model` (and `Backend`): weak fairness of each
thread's steps inside `init` and `drop`, none for starting a call. The other
modules state no liveness: their calls are synchronous and what they promise is
safety. `CHECK_DEADLOCK` is off where a caller may simply be finished (driver,
reuse: budget and generations used up, or the process aborted; log: calls used up;
sampler: tokens used up, a constructor that failed, or an abort).

## Proofs

Every invariant and action property that a passing run checks is the conclusion
of a theorem, for every value of the constants that the named assumptions allow.
The assumptions are evaluated by TLC on every run of their module.

`Induction` holds what the proofs have in common. The library's induction
theorems take an operator as a parameter, which the provers here cannot
instantiate, so induction is done over sets: a least element (`LeastNat`), a set
closed under +1 (`UpTo`) or under `Append` (`AppendInduction`). A recursive
function of the models is a `CHOOSE`: `RecursiveFcn` shows that such a function
exists, `TypedFcn` gives its range and `SameRun` that two of them agree as long
as their steps do. Each recursive definition then has a lemma `...Def` that states
its equations, and is used through those only.

`MtpDriverProofs`, from `ConstantsAssumption` only (any context size, batch
size, draft length, prompts, budget and number of generations):

* `Inductive`, `TypeCorrect`, `EmitsContinuation`, `KeepsCachesAligned`,
  `KeepsRecurrentClean`: `Spec => []IInv` and its consequences. "What was
  emitted is right" is not inductive: it needs that the caches hold the right
  text, that a draft over a recurrent target exists only with a checkpoint,
  that a row's prediction is right when every draft before it was, and that the
  carried token (or the caller's `id_last`) is the one that belongs at
  `n_past`. `IInv` says this per program counter (`InPrefill`, `InWarming`,
  `InReady`, `InRound`, `GoodDraft`, `InVerified`). There is one lemma per
  action; the core is `VerifiedPrefix` and `AcceptedRight` (the accepted prefix
  of a draft is the right text) and `CommitHolds` (cutting to it restores both
  caches).
* `ClampSuffices` (`AbortsOnlyWhenFull`): the clamp keeps every batch decodable
  that is built at `n_past < n_ctx`, so the process aborts only when a caller begins
  a round on a full context. It rests on `Clamped`, which says what `anchored` and
  `drafted` guarantee about `n_past` and the draft's length. Nothing is assumed of
  the caller; `mtp_full_context` is the case that is left.

In the same module, about `Decoding`, from the same assumption and `IInv`:

* `SpeculationIsPlainDecoding`: every step of the driver is a step of `Decoding`
  under the mapping `Plain`, or leaves it alone. What a step adds to the output
  is the continuation of what was there (`GrowsByContinuation`), and a commit
  adds between one token and `Cap` of them (`StepCommits`, `CallerCommits`,
  `HandedOver`) or nothing at all (`Untouched`). It is the refinement
  `ImplementsDecoding` without its fairness.
* `CommitsEmit` (`CommitEmits`) rests on the same two lemmas.
* `SamplerHearsEveryToken` (`SamplerInSync`): the sampler's history agrees with
  the output only between rounds, so `Synced` also says what a running round
  holds, namely the anchor nobody has emitted yet (`Pending`). `StepFits` is why
  nothing accepted is lost: the array of `Cap` tokens holds a carried or fresh
  anchor beside a full acceptance.

`MtpReuseProofs`, from `ReuseAssumption` and `ClearsOnFallback` (without it the
claim is false, see `reuse_fallback`), for any vocabulary, prompts, chunk length
and number of requests: `Inductive`, `ReuseExact`, `SnapshotsWhole`. That a
generation starts from its own prompt is not inductive: `IInv` adds that both
halves of the stored and of the pending snapshot hold exactly the prefix they
stand for, that a request restores only a snapshot whose text its prompt
extends, and that during prefill the target is the prompt's first `pos` cells
and the companion agrees with it below `pos`. The step that carries it is that
warming a chunk extends what the companion holds (`WarmedHolds`), whatever an
earlier request left above it. `SnapshotTaken` (`CaptureHonoured`) and
`SparesPrefix` (`PrefixSpared`) need `Settled`: a prefill stands before its
snapshot point, or has taken the snapshot, or started from one at or beyond that
point, and what is reused is never longer than `pos`.

`ModelProofs`, first for `Backend` and any set of threads: the flag is up exactly
while one thread is between the swap that won and the store that ends its drop
(`Inductive`), hence `MutualExclusion`, `HandleImpliesUp`, `RefusalsAreTrue`.
Then for `Model`, from `NoModelAssumption`, and any models, contexts and
adapters. Every step of `Model` is a step of `Backend` or leaves it alone
(`BackendStep`), so its invariant carries over. `ModelsOutlivedByLibrary` needs
`LifeInv` besides: a loaded model means a live handle. It is the caller's promise,
the guard of `DropBackend`, that makes it true. `FreedOnce` needs `AdapterInv`:
an adapter is owned by a loaded model or by none, and counts a free only once it
is owned by none.

`WholeReads` (`ReadsWhole`) is about the operators of `Text`, for texts of any
length, any first buffer, vocabulary, token list and GGUF header
(`SizesAssumption`, `VocabAssumption`, `HeaderAssumption`, `MaxTextAssumption`:
the types of what a file or a vocabulary holds, no more). The state adds nothing,
so the invariant is the property itself and the work is in the lemmas:
`CutPadded` (what is cut out of a padded buffer by the count that came with it is
the text), `RetryFills` (the second of two calls has room for exactly what the
first one asked for), one lemma per reader (`TokenizeReads`, `FfiStringReads`,
`TemplateReads`, `PieceReads`), `FoundKey` and `TableReads` for headers, and
`DetokenizeReads`. The last rests on `DecodeToStringConcat`: bytes decoded in two
parts through one decoder give what they give in one, so it does not matter how
the characters are split over tokens, and on a bound for the text of a piece: it
is longer than its bytes by at most two for every replaced byte, so a piece with
few of them fits its string whatever the decoder held before. Tokens of which one
may not fit are excepted, but are never an error; and a token the vocabulary does
not have fails the whole call, wherever it stands.

`LogBridgeProofs`, from `LogAssumption` and `ShapesAssumption` (a text is made of
pieces and newlines), for any threads, levels, texts and number of calls:

* `Silence` (a disabled bridge delivers nothing) needs that the hook is installed
  only after the options are settled, and that only an enabled bridge lets a
  thread past the callback's first line.
* `MutexOwned`: the mutex is held exactly by the thread between `lock()` and the
  drop of its guard, the ones in a panic included.
* `NothingLost` (`NothingLostOrRepeated`) is inductive once the state is typed
  (`LogTyped`). What it needs is that pieces distribute over concatenation
  (`PiecesConcat`) and that cutting the buffer at its first newline loses none
  (`PiecesLine`, `CutAtNewline`).
* `AsLogged` (`LinesAsLogged`) is about the moments between callbacks and says
  nothing of the buffer inside one. `Followed` does: as long as nobody panicked, the
  lines delivered so far, followed by what the buffer would still give
  (`Pending`), are the reference reading of all messages that reached it; a thread
  about to push has already closed the half line that its message ends; and only a
  thread that drains leaves newlines in the buffer. That delivering one line does
  not change `Pending` is `ReadLine`, from `ReadTextConcat`.

`SamplerProofs`, from `SamplerAssumption`, `ChainsAssumption` and
`LanguageAssumption`, for any vocabulary, language, chains, penalty window,
`top_k` and number of accepts: `Inductive`, and from it `TypeCorrect`,
`SaidFollows` (`SaidFollowsGrammar`) and `AbortsKnown` (`OnlyKnownAborts`).
`ChainsAssumption` is what the type's own
documentation says of a chain, stages with a selector at their end only
(`sampling.rs:318`); a chain without a selector is allowed. `LanguageAssumption`
says that a sentence ends in the end of generation and that a lazy grammar's
trigger opens one.
That what was said follows the grammar is not inductive. `GrammarInStep` adds that
the grammar, and the clone kept beside it, have read exactly what was said, unless
the generation has slipped; `ArrayLawful` that from the stage after the grammar on,
in an array that is not empty, some candidate is still drawable and every drawable
one is permitted, while before that stage all tokens are still drawable; and that an
array is empty only at the start or behind a `tail_free`. The properties promise
nothing of a generation with a slip: the code does not report one. There is one
lemma for what each stage can leave (`TopKStage`, `TruncateStage`, `KeepingStage`,
`GrammarStage`, `GreedyStage`, `DistStage`), and three carry the argument: a
truncating stage never keeps masked candidates only (`TruncateStage`, `TopKStage`),
a greedy selector over an array with a drawable candidate takes a drawable one
(`GreedyStage`), and a grammar whose text follows it permits a further token
(`SomethingPermitted`) and still follows it after a permitted one (`Accepting`), so
that it never meets a token it must refuse. `PermittedUnlessDist` is the positive
half of the run `sampler_dist`: a chain that does not end in `dist` only draws what
survives `apply`.

`SessionProofs`, from `KvCacheAssumption`, for any `i32::MAX`, sequences,
bounds, tokens, shifts and number of kept states; the caller's shifts keep
positions distinct. `Documented` (`RangesAsDocumented`) rests on `Converted` and
`InRange` (a bound that is let through selects, as an `i32` with -1 for none,
what the documented range names) and on an invariant: the cells of one sequence
have distinct positions (`Sound`), without which a shift of the cells and a
shift of the documented set could differ, and what is kept by a state could be
put back as such (`KeptSound`). There is one lemma per operation; shifts and
divisions share one (`MoveStep`). `Rewinds` (`RestoreRewinds`) and `LoadsAll`
(`LoadReturnsAll`) follow from the same invariant: a restore gives the sequence
cells of its own and takes nothing from another (`RestoredHeld`). Of an empty
state `Rewinds` says the last part only.

`MtmdProofs`, from `ContextAssumption` and `MtmdAssumption`, for any capacity,
sequences, prompts, inputs and number of handles. One invariant per
part of the state:

* `BatchInv`: the batch never exceeds its capacity, and the last token of every
  prompt added whole is in it with a row asked for. `FittingFits` says that a
  prompt that is cut short has filled the batch to the brim. From it
  `TornOnlyWhenFull` (`TornIsFull`) and `PromptsContinue` (`PromptCanContinue`),
  which carries over to the rows because a decode takes the batch as it is.
* `HandleInv`: an owned handle is the only one on its copy, a borrowed one stands
  on a chunk of the collection that is still there; hence `HandlesFreedOnce`
  (`HandlesAlive`).
* `PastInv`: while chunks are evaluated, one input is underway (`Underway`): the
  position is the caller's `n_past` and the positions of the chunks before the
  current one (`Before`), and all of it fits. `CacheInv`: below the caller's or the
  evaluation's position the cache has no gap, and what lies beyond was left behind
  by a failed evaluation. With `BeforeGrows` (every chunk adds its positions, so
  what is left fits if all does) they give `PastCounts` (`PastCountsCache`), and
  with `BatchTyped` (the widths of the batch's entries, the one slice) `TypesHold`
  (`TypeOK`).

Model-checked only: liveness (`GenerationEnds`, `RequestEnds`, `CallsReturn`,
`DropReopens`) and the fairness of `ImplementsDecoding`, which are out of the
prover's reach. The five properties of the violating runs are false as the code
stands.

## Not modelled

* Numeric work (logits, sampling arithmetic, quantization): the models say
  which logits compare how, never what they are.
* The library's internals: the grammar engine is a set of sentences, `llama_decode`
  adds cells and rows, mtmd's encoder fills a buffer. `kv_cache_defrag` and
  `kv_cache_update` move memory and change nothing a caller can see; what
  `ON_DEVICE` changes is where the library keeps a state.
* Text encoding beyond characters split over tokens: `token_to_piece_lossy`, the
  JSON-schema conversion and an invalid UTF-8 answer (an error in every reader).
* `encode_chunk` and its output buffer, and a second thread on one `MtmdContext`.
  The type is `Sync` (`mtmd.rs:181`) while `eval_chunks`, which takes it by shared
  reference, "is NOT thread-safe" (`mtmd.rs:650`). Nothing in the code makes two
  threads take turns, and what a race inside the library leaves is not known here.
* Image and audio sizes: `nx * ny * 3` is computed in `usize` on both sides.
* Parameter builders, plain getters, `quantize.rs`, `timing.rs`, the build script,
  CI and the examples: they keep no state across calls, or none this crate
  decides.
* What joins `Context` to `Sampler`: `candidates_ith` is in `Sampler` as a row of
  logits or none, and which positions have a row is `Context`'s subject.
* A subscriber that logs through the library while it handles an event would take
  a mutex its own thread holds; the model assumes it does not. An adapter of
  another model set on a context is modelled, but no property is claimed of it:
  no lifetime ties it to that context.
* Errors of `begin`'s and `step`'s argument checks (null pointers) cannot arise
  through the Rust API. An exception inside `sample_and_accept_n` is modelled as a
  commit that fails after the sampler took the tokens. A caller that goes on
  after a failed `step` is left out: no call's documentation says it may.

What is assumed of callers, where the code checks nothing: shifts and divisions
keep the positions of a sequence distinct and in range; the backend is dropped after
its models (the comment of `load_from_file`); a generation ends after a failed
`step`; one thread uses a `MtmdContext`. That a caller stops at `n_ctx`, trims after
a failed `eval_chunks`, or notices a token drawn from nothing is not assumed.

## Weaknesses without a run of their own

The models contain these, and the properties say where they stop because of them.

* A state whose two sizing calls failed is empty, and `state_seq_set` and
  `state_seq_set_data_ext` report its restore as a success: the library's failure,
  0, is its length (`session.rs:590`), although the doc says that failures "are
  reported as `false`". `RestoreRewinds` excepts what the sequence then holds.
* `apply` looks for an empty array once (`sampling.rs:541`), so that it is not
  forwarded to samplers that assert; a `tail_free` with a `min_keep` of 0 may empty
  it in mid-chain, and the next stage gets it (`OnlyKnownAborts`).
* `sample` answers `LlamaToken(0)` for a row without logits (`sampling.rs:587`),
  which no caller can tell from a token drawn (`"blind"`).
* The grammar stage and `as_c` leave the `sorted` flag of an array they mask, so a
  later stage may truncate by an order that is gone (`"misled"`).
* `reset` clears the penalty history and keeps the grammar's state (`"carried"`).
* `token_to_piece` ignores that its string is full (`model.rs:255-256`): a piece with
  more than seven replaced bytes may be cut short without an error (`"overfull"`).
* What a failed `eval_chunks` decoded stays in the cache, and the caller is not told
  how far it came (`PastCountsCache`).
* A log message whose call panics while it flushes an older half line never reaches
  the buffer and is lost; `NothingLostOrRepeated` is about text that did.

## Plan

The models of the plan are written: driver and reuse first, because a wrong
token there is silent, then log bridge, backend and models, sampler, sequences,
multimodal. So are the proofs of every safety property the runs check. What is
left: the variant functions behind the liveness properties, as invariants and
action properties (what a step of `Generation` or `Prefill` uses up), so that TLC
is left with the fairness argument alone; the safety half of `DropReopens` and
`CallsReturn` in the same way; and the remaining getters of `gguf.rs` and
`mtmd.rs`, which the models do not read yet.
