------------------------------ MODULE MtpDriver ------------------------------
(***************************************************************************)
(* The MTP / NextN speculative driver: `MtpSpeculative` (speculative.rs)   *)
(* over the C++ glue `ik_llama_rs_mtp_*` (wrapper_common.cpp).             *)
(*                                                                         *)
(* One driver owns one target context.  A generation is a prefill          *)
(* (`begin`, or the caller's own `decode` + `warm` chunks followed by      *)
(* `finalize_prompt`) and then rounds of draft -> verify -> commit, driven *)
(* either by `step` (the glue samples) or by `draft` + the caller's verify *)
(* decode + `commit` (the caller samples).  Calls take `&mut self`, so     *)
(* they never overlap; what can go wrong is a call that fails half way.    *)
(* The caller takes a failed call as the end of its generation.            *)
(*                                                                         *)
(* Tokens.  A token is identified by where it belongs: Tok(p) is the token *)
(* that belongs at position p of the current generation (the prompt's      *)
(* token there, or the one the target's sampler draws once every earlier   *)
(* position is right).  Anything else is Wrong, or a token of an earlier   *)
(* generation.  The target predicts Tok(p+1) after position p exactly when *)
(* what it attends to at positions <= p is the right text, each position   *)
(* once.                                                                   *)
(***************************************************************************)
EXTENDS Integers, Sequences

CONSTANTS
    NCtx,               \* llama_n_ctx of the target context
    NBatch,             \* llama_n_batch of the target context
    NMax,               \* MtpSpeculativeParams::n_max
    NeedsCkpt,          \* the target is recurrent / openPangu (h->needs_ckpt)
    PromptLens,         \* lengths of the prompts the caller tries
    Budget,             \* the caller stops once it has this many tokens
    MaxGens             \* bound: generations run on one driver

ASSUME ConstantsAssumption ==
    /\ NCtx \in Nat \ {0}
    /\ NBatch \in Nat \ {0}
    /\ NMax \in Nat
    /\ NeedsCkpt \in BOOLEAN
    /\ PromptLens \subseteq 1 .. NCtx
    /\ Budget \in Nat
    /\ MaxGens \in Nat

VARIABLES
    kv,         \* target KV cache: the set of its cells
    rec,        \* cells absorbed by the target's recurrent state
    rows,       \* output rows of the last target decode
    comp,       \* companion (NextN) cache: the set of its cells
    seed,       \* position whose hidden state was captured for drafting
    ckpt,       \* a rollback checkpoint is held for the running round
    nPast,      \* h->n_past
    haveCarry,  \* h->have_carry
    carry,      \* h->carry
    smpl,       \* tokens accepted by h->smpl, over the driver's life
    pc,         \* where the driver and its caller are
    path,       \* the way this generation is driven: "step" or "draft"
    gen,        \* generations begun on this driver
    prompt,     \* prompt length of this generation
    offset,     \* prompt tokens prefilled so far
    anchor,     \* sampled_before / id_last of the running round
    fromCarry,  \* from_carry of the running `step`
    draft,      \* draft tokens of the running round
    out,        \* tokens the caller holds for this generation
    mark        \* history: Len(smpl) when this generation began

target == <<kv, rec, rows>>
companion == <<comp, seed, ckpt>>
round == <<anchor, fromCarry, draft>>
prefill == <<path, gen, prompt, offset, mark>>
vars == <<target, companion, nPast, haveCarry, carry, smpl, pc, prefill,
          round, out>>

Nowhere == -1
Wrong == <<0, 0>>
Tok(p) == <<gen, p>>
Cell(p, t) == [pos |-> p, tok |-> t]

(* The cells a cache holds when it holds the right text of length n. *)
Text(n) == {Cell(p, Tok(p)) : p \in 0 .. n - 1}
Upto(cells, n) == {c \in cells : c.pos < n}
Cells(batch) == {batch[i] : i \in 1 .. Len(batch)}

-----------------------------------------------------------------------------
(* The target context: llama_decode. *)

(* What the target draws after position p when it attends to `cells`. *)
Predict(cells, p) == IF Upto(cells, p + 1) = Text(p + 1) THEN Tok(p + 1) ELSE Wrong

(* llama_decode aborts the process on a batch over n_batch or a position    *)
(* over n_ctx: wrapper_common.cpp says so where it guards against both.     *)
Undecodable(batch) ==
    \/ Len(batch) > NBatch
    \/ \E i \in 1 .. Len(batch) : batch[i].pos >= NCtx

Decode(batch) ==
    LET seen == kv \cup rec \cup Cells(batch) IN
    /\ kv' = kv \cup Cells(batch)
    /\ rec' = IF NeedsCkpt THEN rec \cup Cells(batch) ELSE rec
    /\ rows' = [i \in 1 .. Len(batch) |->
                   [pos |-> batch[i].pos, next |-> Predict(seen, batch[i].pos)]]

LastRow == rows[Len(rows)]

-----------------------------------------------------------------------------
(* common_speculative: the NextN companion behind the glue. *)

(* The companion holds exactly `cells` at their positions afterwards. *)
Overwrite(cells) ==
    comp' = {c \in comp : \A d \in cells : d.pos # c.pos} \cup cells

(* common_speculative_draft_ex: up to n_max guesses for the positions after *)
(* the anchor's at `base`; none without a captured seed hidden.             *)
Drafts(base) ==
    {<<>>} \cup
    UNION {{d \in [1 .. k -> {Tok(base + i) : i \in 1 .. k} \cup {Wrong}] :
               \A i \in 1 .. k : d[i] \in {Tok(base + i), Wrong}} :
           k \in {j \in 1 .. NMax : seed # Nowhere}}

(* common_speculative_commit of n tokens: rolls the target back to the      *)
(* committed prefix (a recurrent state only through the checkpoint, when a  *)
(* draft was rejected), advances the companion over the prefix and captures *)
(* the hidden state of its last position.                                   *)
SpecCommit(n) ==
    LET kept == Upto(kv, nPast + n) IN
    /\ kv' = kept
    /\ rec' = IF ckpt /\ n <= Len(draft) THEN kept ELSE rec
    /\ Overwrite({c \in kept : c.pos >= nPast})
    /\ seed' = IF n <= Len(rows) THEN rows[n].pos ELSE Nowhere
    /\ ckpt' = FALSE

(* ... and when it reports failure, with the target rolled back or not.     *)
SpecCommitFails(n) ==
    /\ kv' \in {kv, Upto(kv, nPast + n)}
    /\ ckpt' = FALSE
    /\ UNCHANGED <<rec, comp, seed>>

-----------------------------------------------------------------------------
Init ==
    /\ kv = {} /\ rec = {} /\ rows = <<>>
    /\ comp = {} /\ seed = Nowhere /\ ckpt = FALSE
    /\ nPast = 0 /\ haveCarry = FALSE /\ carry = Wrong
    /\ smpl = <<>>
    /\ pc = "new"
    /\ path = "step" /\ gen = 0 /\ prompt = 0 /\ offset = 0 /\ mark = 0
    /\ anchor = Wrong /\ fromCarry = FALSE /\ draft = <<>>
    /\ out = <<>>

(* Prefill.  `begin` decodes and warms n_batch-sized chunks; a caller on     *)
(* the draft/commit path chooses its own chunks.                            *)
Begin(n, way) ==
    /\ pc = "new" /\ gen < MaxGens
    /\ gen' = gen + 1 /\ path' = way /\ prompt' = n
    /\ offset' = 0 /\ mark' = Len(smpl) /\ out' = <<>>
    /\ pc' = "prefill"
    /\ UNCHANGED <<target, companion, nPast, haveCarry, carry, smpl, round>>

Chunk == IF NBatch < prompt - offset THEN NBatch ELSE prompt - offset

PromptBatch(n) == [i \in 1 .. n |-> Cell(offset + i - 1, Tok(offset + i - 1))]

DecodePrompt(n) ==
    /\ pc = "prefill" /\ offset < prompt
    /\ path = "step" => n = Chunk
    /\ \/ Decode(PromptBatch(n)) /\ pc' = "warming"
       \/ pc' = "failed" /\ UNCHANGED target
    /\ UNCHANGED <<companion, nPast, haveCarry, carry, smpl, prefill, round, out>>

(* Mutant: a prefill loop that does not move on to its next chunk. *)
WarmPromptAgain ==
    /\ pc = "warming"
    /\ \/ Overwrite({c \in kv : c.pos >= offset}) /\ pc' = "prefill"
       \/ pc' = "failed" /\ UNCHANGED comp
    /\ UNCHANGED <<target, seed, ckpt, nPast, haveCarry, carry, smpl, prefill,
                   round, out>>

WarmPrompt ==
    /\ pc = "warming"
    /\ \/ /\ Overwrite({c \in kv : c.pos >= offset})
          /\ offset' = offset + Len(rows)
          /\ pc' = "prefill"
       \/ pc' = "failed" /\ UNCHANGED <<comp, offset>>
    /\ UNCHANGED <<target, seed, ckpt, nPast, haveCarry, carry, smpl, path, gen,
                   prompt, mark, round, out>>

(* Mutant: the first row of the last chunk taken for its last. *)
FirstOutputIndex == 0

(* The index of the last prompt token in the last chunk, counted from 0.    *)
LastOutputIndex == Len(rows) - 1

(* Mutant: the previous generation's bonus token survives the prefill. *)
FinalizePromptKeepingCarry ==
    /\ pc = "prefill" /\ offset = prompt
    /\ nPast' = prompt
    /\ \/ seed' = rows[LastOutputIndex + 1].pos /\ pc' = "ready"
       \/ pc' = "failed" /\ UNCHANGED seed
    /\ UNCHANGED <<target, comp, ckpt, haveCarry, carry, smpl, prefill, round, out>>

FinalizePrompt ==
    /\ pc = "prefill" /\ offset = prompt
    /\ nPast' = prompt
    /\ \/ /\ seed' = rows[LastOutputIndex + 1].pos
          /\ haveCarry' = FALSE
          /\ pc' = "ready"
       \/ pc' = "failed" /\ UNCHANGED <<seed, haveCarry>>
    /\ UNCHANGED <<target, comp, ckpt, carry, smpl, prefill, round, out>>

-----------------------------------------------------------------------------
(* One round: draft -> verify -> commit.                                    *)

(* The caller asks for another round: it counts its tokens, and never looks  *)
(* at how much of the context is left.                                       *)
WantsMore == Len(out) < Budget

(* Mutant: the sampler never hears of the token it drew as anchor. *)
SampleAnchorUnaccepted ==
    /\ pc = "ready" /\ path = "step" /\ WantsMore
    /\ fromCarry' = haveCarry
    /\ haveCarry' = FALSE
    /\ anchor' = IF haveCarry THEN carry ELSE LastRow.next
    /\ pc' = "anchored"
    /\ UNCHANGED <<target, companion, nPast, carry, smpl, prefill, draft, out>>

(* `step`: reuse the carried bonus token, else sample and accept one.       *)
SampleAnchor ==
    /\ pc = "ready" /\ path = "step" /\ WantsMore
    /\ fromCarry' = haveCarry
    /\ haveCarry' = FALSE
    /\ anchor' = IF haveCarry THEN carry ELSE LastRow.next
    /\ smpl' = IF haveCarry THEN smpl ELSE Append(smpl, LastRow.next)
    /\ pc' = "anchored"
    /\ UNCHANGED <<target, companion, nPast, carry, prefill, draft, out>>

(* The caller-driven loop takes its first token from the last prompt row.   *)
TakeFirst ==
    /\ pc = "ready" /\ path = "draft" /\ WantsMore /\ out = <<>>
    /\ anchor' = LastRow.next
    /\ out' = <<LastRow.next>>
    /\ UNCHANGED <<target, companion, nPast, haveCarry, carry, smpl, pc, prefill,
                   fromCarry, draft>>

(* Mutant: the context clamp off by the anchor's own position. *)
MaxDraftLoose(base) ==
    LET room == NCtx - base
    IN  IF room < NBatch - 1 THEN room ELSE NBatch - 1

MaxDraft(base) ==
    LET room == NCtx - base - 2
        max_draft == IF room < NBatch - 1 THEN room ELSE NBatch - 1
    IN  IF max_draft < 0 THEN 0 ELSE max_draft

Clamp(d, base) == IF Len(d) > MaxDraft(base) THEN SubSeq(d, 1, MaxDraft(base)) ELSE d

(* Mutant: drafting on although no checkpoint could be saved. *)
KeepUnsaved(d, saved) == d

(* What is left of a draft after the checkpoint call: nothing if it failed. *)
Keep(d, saved) == IF NeedsCkpt /\ ~saved THEN <<>> ELSE d

Propose(base) ==
    \E d \in Drafts(base), saved \in BOOLEAN :
        /\ ckpt' = (NeedsCkpt /\ saved)
        /\ draft' = Clamp(Keep(d, saved), base)

ProposeInStep ==
    /\ pc = "anchored"
    /\ \/ Propose(nPast) /\ pc' = "drafted"
       \/ pc' = "stepFailed" /\ UNCHANGED <<ckpt, draft>>
    /\ UNCHANGED <<target, comp, seed, nPast, haveCarry, carry, smpl, prefill,
                   anchor, fromCarry, out>>

(* `draft`, which sets h->n_past to the caller's own count.                 *)
ProposeForCaller ==
    LET n_past == prompt + Len(out) - 1 IN
    /\ pc = "ready" /\ path = "draft" /\ WantsMore /\ out # <<>>
    /\ nPast' = n_past
    /\ \/ Propose(n_past) /\ pc' = "drafted"
       \/ pc' = "failed" /\ UNCHANGED <<ckpt, draft>>
    /\ UNCHANGED <<target, comp, seed, haveCarry, carry, smpl, prefill, anchor,
                   fromCarry, out>>

VerifyBatch ==
    <<Cell(nPast, anchor)>> \o [i \in 1 .. Len(draft) |-> Cell(nPast + i, draft[i])]

Fail == pc' = IF path = "step" THEN "stepFailed" ELSE "failed"

Verify ==
    /\ pc = "drafted"
    /\ \/ Undecodable(VerifyBatch) /\ pc' = "aborted" /\ UNCHANGED target
       \/ ~ Undecodable(VerifyBatch) /\ Decode(VerifyBatch) /\ pc' = "verified"
       \/ ~ Undecodable(VerifyBatch) /\ Fail /\ UNCHANGED target
    /\ UNCHANGED <<companion, nPast, haveCarry, carry, smpl, prefill, round, out>>

(* What the sampler picks at the first n output rows.                       *)
Picks(n) == [i \in 1 .. n |-> rows[i].next]

(* The first k drafts are what the target draws, and no more.               *)
Accepts(k) ==
    /\ \A i \in 1 .. k : draft[i] = rows[i].next
    /\ k < Len(draft) => draft[k + 1] # rows[k + 1].next

(* Mutant: no room for the anchor beside a full acceptance. *)
CapTight == (IF NMax > 1 THEN NMax ELSE 1) + 1

Cap == (IF NMax > 1 THEN NMax ELSE 1) + 2

(* The tail of `step`: sample_and_accept_n, commit, emit.                   *)
CommitStep(k) ==
    LET ids == Picks(k + 1)
        emitted == (IF fromCarry THEN <<>> ELSE <<anchor>>) \o ids
        fits == Len(emitted) <= Cap
    IN
    /\ pc = "verified" /\ path = "step" /\ Accepts(k)
    /\ smpl' = smpl \o ids
    /\ \/ /\ SpecCommit(k + 1)
          /\ carry' = ids[k + 1] /\ haveCarry' = TRUE
          /\ out' = IF fits THEN out \o emitted ELSE out
          /\ nPast' = IF fits THEN nPast + k + 1 ELSE nPast
          /\ pc' = IF fits THEN "ready" ELSE "stepFailed"
       \/ /\ SpecCommitFails(k + 1)
          /\ pc' = "stepFailed"
          /\ UNCHANGED <<carry, haveCarry, out, nPast>>
    /\ UNCHANGED <<rows, prefill, round>>

(* Mutant: a commit of any length. *)
CommittableUnbounded(n) == n >= 1

(* The length check of `commit`, against the matching draft's length.       *)
Committable(n) == n >= 1 /\ n <= Len(draft) + 1

(* The caller picks row by row and stops at a mismatch, at the end of       *)
(* generation or at its budget, so it commits n <= k + 1 tokens; or it      *)
(* miscounts and offers one token more than the rows it verified.           *)
CommitForCaller(k, n) ==
    LET committed == [i \in 1 .. n |-> IF i <= Len(rows) THEN rows[i].next ELSE Wrong]
    IN
    /\ pc = "verified" /\ path = "draft" /\ Accepts(k)
    /\ n \in (1 .. k + 1) \cup {Len(draft) + 2}
    /\ \/ /\ Committable(n)
          /\ SpecCommit(n)
          /\ out' = out \o committed /\ anchor' = committed[n]
          /\ nPast' = nPast + n
          /\ pc' \in {"ready", "done"}
       \/ /\ Committable(n)
          /\ SpecCommitFails(n)
          /\ pc' = "failed" /\ UNCHANGED <<out, anchor, nPast>>
       \/ /\ ~ Committable(n)
          /\ pc' = "failed"
          /\ UNCHANGED <<kv, rec, companion, out, anchor, nPast>>
    /\ UNCHANGED <<rows, haveCarry, carry, smpl, prefill, fromCarry, draft>>

-----------------------------------------------------------------------------
(* Between rounds and generations. *)

Stop ==
    /\ pc = "ready" /\ pc' = "done"
    /\ UNCHANGED <<target, companion, nPast, haveCarry, carry, smpl, prefill,
                   round, out>>

(* context_mut().clear_kv_cache(): the target only, between generations.    *)
ClearContext ==
    /\ pc \in {"done", "failed", "stepFailed"}
    /\ kv' = {} /\ rec' = {} /\ pc' = "new"
    /\ UNCHANGED <<rows, companion, nPast, haveCarry, carry, smpl, prefill,
                   round, out>>

Rounds ==
    \/ SampleAnchor \/ TakeFirst \/ ProposeInStep \/ ProposeForCaller \/ Verify
    \/ \E k \in 0 .. Len(draft) : CommitStep(k)
    \/ \E k \in 0 .. Len(draft), n \in 1 .. Len(draft) + 2 : CommitForCaller(k, n)

Generation ==
    \/ \E n \in 1 .. Chunk : DecodePrompt(n)
    \/ WarmPrompt \/ FinalizePrompt \/ Rounds \/ Stop

Next ==
    \/ \E n \in PromptLens, way \in {"step", "draft"} : Begin(n, way)
    \/ Generation \/ ClearContext

(* Calls are synchronous and return; the caller's loop runs until it stops. *)
Spec == Init /\ [][Next]_vars /\ WF_vars(Generation)

-----------------------------------------------------------------------------
(* Properties. *)

Calls == {"new", "prefill", "warming", "ready", "anchored", "drafted", "verified",
          "done", "failed", "stepFailed", "aborted"}
Tokens == Nat \X Nat
CacheCells == [pos : Nat, tok : Tokens]

(* Every variable keeps its type: caches hold cells, the glue's fields       *)
(* tokens and positions, and nothing runs past the prompt or the draft cap.  *)
TypeOK ==
    /\ kv \subseteq CacheCells /\ rec \subseteq CacheCells /\ comp \subseteq CacheCells
    /\ rows \in Seq([pos : Nat, next : Tokens])
    /\ seed \in Nat \cup {Nowhere} /\ ckpt \in BOOLEAN
    /\ nPast \in Nat /\ haveCarry \in BOOLEAN /\ carry \in Tokens
    /\ smpl \in Seq(Tokens) /\ out \in Seq(Tokens) /\ draft \in Seq(Tokens)
    /\ pc \in Calls /\ path \in {"step", "draft"}
    /\ gen \in Nat /\ prompt \in Nat /\ offset \in 0 .. prompt /\ mark \in Nat
    /\ anchor \in Tokens /\ fromCarry \in BOOLEAN

(* Whatever the drafts were and whichever call failed, the tokens a caller   *)
(* holds are the target's own continuation of this prompt: in order, none    *)
(* missing, none twice, none of an earlier generation.                       *)
EmittedIsContinuation ==
    \A i \in 1 .. Len(out) : out[i] = Tok(prompt + i - 1)

(* Between rounds h->n_past, the target's cache, the companion's cache and   *)
(* the captured hidden state all stand at the same position.                 *)
CachesAgree ==
    pc = "ready" =>
        /\ kv = Text(nPast)
        /\ Upto(comp, nPast) = Text(nPast)
        /\ seed = nPast - 1

(* Between rounds a recurrent target has absorbed the committed text only:   *)
(* no rejected draft is left in a state that cannot be sliced.               *)
RecurrentClean == pc = "ready" /\ NeedsCkpt => rec = kv

(* A draft never makes a verify batch exceed n_batch or reach n_ctx, and no  *)
(* round commits past n_ctx: llama_decode's assertions can only be met by    *)
(* the anchor alone, in a round begun when the context is exactly full.      *)
AbortsOnlyWhenFull == pc = "aborted" => nPast = NCtx

(* No verify batch places a token at or over n_ctx, as the comment on the    *)
(* clamp says (wrapper_common.cpp:250-252).  A caller that counts tokens     *)
(* only refutes it: the clamp drops the drafts and keeps the anchor.         *)
VerifyBelowContext ==
    pc = "drafted" => \A i \in 1 .. Len(VerifyBatch) : VerifyBatch[i].pos < NCtx

(* On the `step` path the sampler's history (what a repetition penalty or a  *)
(* grammar would see) is what this generation emitted, token for token.      *)
SamplerInSync ==
    pc = "ready" /\ path = "step" => SubSeq(smpl, mark + 1, Len(smpl)) = out

(* A commit that went through hands its tokens over in the same call: n_past *)
(* and the caller's tokens advance together with the caches.                 *)
CommitEmits ==
    [][ pc = "verified" /\ seed' # seed =>
            /\ nPast' = seed' + 1
            /\ Len(out') > Len(out) /\ prompt + Len(out') = nPast' + 1 ]_vars

Over == {"done", "failed", "stepFailed", "aborted"}

(* Every generation that begins comes to an end: prefill and rounds always   *)
(* make progress until the caller's budget or the context is used up.        *)
GenerationEnds == (pc = "prefill") ~> (pc \in Over)

(* Speculation emits what plain decoding would.                              *)
Plain == INSTANCE Decoding WITH
    Lengths <- PromptLens, Burst <- Cap,
    generation <- gen, length <- prompt, emitted <- out,
    phase <- IF pc = "new" THEN "idle" ELSE IF pc \in Over THEN "over" ELSE "running"

(* The driver implements plain decoding, on both paths, failures included.   *)
ImplementsDecoding == Plain!DSpec

-----------------------------------------------------------------------------
(* The inductive invariant behind EmittedIsContinuation and CachesAgree, for *)
(* a caller that treats an error as the end of its generation.               *)

(* Both caches hold the right text of length n, and so does a recurrent state. *)
Holds(n) ==
    /\ kv = Text(n) /\ Upto(comp, n) = Text(n)
    /\ rec = IF NeedsCkpt THEN kv ELSE {}

LastPicks(n) == rows # <<>> /\ LastRow.next = Tok(n)

(* The caller holds the tokens up to and including the one at nPast, or none. *)
EmittedUpto(n) ==
    IF out = <<>> THEN n = prompt ELSE prompt + Len(out) = n + 1

AtTip == Holds(nPast) /\ seed = nPast - 1 /\ EmittedUpto(nPast)

InPrefill ==
    /\ Holds(offset) /\ out = <<>>
    /\ offset > 0 => LastPicks(offset) /\ LastRow.pos = offset - 1

InWarming ==
    LET n == offset + Len(rows) IN
    /\ out = <<>> /\ n <= prompt /\ LastPicks(n) /\ LastRow.pos = n - 1
    /\ kv = Text(n) /\ Upto(comp, offset) = Text(offset)
    /\ rec = IF NeedsCkpt THEN kv ELSE {}

InReady ==
    /\ AtTip
    /\ path = "step" => haveCarry = (out # <<>>)
    /\ path = "step" /\ haveCarry => carry = Tok(nPast)
    /\ path = "draft" /\ out # <<>> => anchor = Tok(nPast)
    /\ out = <<>> => LastPicks(nPast)

InRound ==
    /\ seed = nPast - 1 /\ EmittedUpto(nPast) /\ anchor = Tok(nPast)
    /\ IF path = "step" THEN fromCarry = (out # <<>>) ELSE out # <<>>

GoodDraft ==
    /\ Len(draft) <= NMax
    /\ \A i \in 1 .. Len(draft) : draft[i] \in {Tok(nPast + i), Wrong}
    /\ NeedsCkpt /\ draft # <<>> => ckpt

InVerified ==
    /\ kv = Text(nPast) \cup Cells(VerifyBatch) /\ Upto(comp, nPast) = Text(nPast)
    /\ rec = IF NeedsCkpt THEN kv ELSE {}
    /\ Len(rows) = Len(draft) + 1
    /\ \A i \in 1 .. Len(rows) :
          /\ rows[i].pos = nPast + i - 1
          /\ (\A j \in 1 .. i - 1 : draft[j] = Tok(nPast + j)) => rows[i].next = Tok(nPast + i)

IInv ==
    /\ TypeOK /\ EmittedIsContinuation
    /\ ckpt => NeedsCkpt
    /\ pc # "new" => gen > 0 /\ prompt > 0
    /\ pc = "new" => kv = {} /\ rec = {}
    /\ pc = "prefill" => InPrefill
    /\ pc = "warming" => InWarming
    /\ pc = "ready" => InReady
    /\ pc = "anchored" => InRound /\ Holds(nPast) /\ path = "step"
    /\ pc = "drafted" => InRound /\ Holds(nPast) /\ GoodDraft
    /\ pc = "verified" => InRound /\ GoodDraft /\ InVerified

(* What makes AbortsOnlyWhenFull inductive: n_past stays within the context,  *)
(* and every draft of a round is clamped.                                    *)
Clamped ==
    /\ prompt <= NCtx /\ nPast <= NCtx
    /\ pc \in {"drafted", "verified"} => Len(draft) <= MaxDraft(nPast)
    /\ pc = "verified" => nPast < NCtx
    /\ AbortsOnlyWhenFull

=============================================================================
