------------------------------- MODULE Context -------------------------------
(***************************************************************************)
(* A token batch (llama_batch.rs), the decode that consumes it             *)
(* (context.rs), and what is read back by batch position or by sequence:   *)
(* logits, token embeddings, pooled embeddings (context/embeddings.rs).    *)
(*                                                                         *)
(* What is read is a slice of the library's memory, good until the next    *)
(* decode.  `decode` takes the context exclusively, so a slice cannot      *)
(* outlive it.  The caller may go on after any error it is given.          *)
(***************************************************************************)
EXTENDS Integers, Sequences, FiniteSets, FiniteSetsExt

CONSTANTS
    Seqs,       \* sequence ids
    Capacity,   \* capacity of the batch
    SeqMax,     \* n_seq_max of the batch
    Lengths,    \* prompt lengths given to add_sequence
    MaxPos      \* bound: positions given to add

ASSUME ContextAssumption ==
    /\ Seqs # {} /\ Capacity \in Nat /\ SeqMax \in Nat
    /\ Lengths \subseteq Nat /\ MaxPos \in Nat

VARIABLES
    params,     \* of the context: [embeddings, pooling]
    batch,      \* LlamaBatch: its entries
    prompts,    \* history: the prompts add_sequence took whole
    torn,       \* history: it left one incomplete
    told,       \* history: and said so
    rows,       \* the batch the library holds the outputs of
    answered,   \* history: the prompts that were whole in it
    slice       \* the slice the caller holds, if any

batchVars == <<batch, prompts, torn, told>>
contextVars == <<params, batchVars, rows, answered, slice>>

Entry == [pos : Nat, seqs : SUBSET Seqs, logits : BOOLEAN]

ContextInit ==
    /\ params \in [embeddings : BOOLEAN, pooling : {"none", "mean"}]
    /\ batch = <<>> /\ prompts = {} /\ torn = FALSE /\ told = FALSE
    /\ rows = <<>> /\ answered = {}
    /\ slice = {}

-----------------------------------------------------------------------------
(* The batch. *)

Clear ==
    /\ batch' = <<>> /\ prompts' = {} /\ torn' = FALSE /\ told' = FALSE
    /\ UNCHANGED <<params, rows, answered, slice>>

(* Mutant: room for one more than there is. *)
HasRoomForOneMore(n_tokens) == n_tokens <= Capacity

HasRoom(n_tokens) == n_tokens < Capacity

(* add: refused when the batch is full or the token has too many sequences.   *)
Add(pos, seqs, logits) ==
    /\ IF HasRoom(Len(batch)) /\ Cardinality(seqs) <= SeqMax
       THEN batch' = Append(batch, [pos |-> pos, seqs |-> seqs, logits |-> logits])
       ELSE UNCHANGED batch
    /\ UNCHANGED <<params, prompts, torn, told, rows, answered, slice>>

(* Mutant: the last token is looked for one too far. *)
WantsLogitsNext(i, n, logits_all) == logits_all \/ i = n

(* i counts from 0.                                                          *)
WantsLogits(i, n, logits_all) == logits_all \/ i + 1 = n

Fitting(n) ==
    IF SeqMax = 0 THEN 0 ELSE Cardinality({i \in 0 .. n - 1 : HasRoom(Len(batch) + i)})

(* Mutant: an error only if not even the first token fits. *)
RefusedAtOnce(n) == Fitting(n) = 0 /\ n > 0

Refused(n) == Fitting(n) < n

(* add_sequence adds token by token and stops at the first that is refused:   *)
(* those before it stay.                                                     *)
AddSequence(n, seq, logits_all) ==
    /\ batch' = batch \o [i \in 1 .. Fitting(n) |->
                    [pos |-> i - 1, seqs |-> {seq}, logits |-> WantsLogits(i - 1, n, logits_all)]]
    /\ prompts' = IF Refused(n) THEN prompts
                  ELSE prompts \cup {[seq |-> seq, n |-> n, from |-> Len(batch)] : k \in 1 .. n}
    /\ torn' = (torn \/ Fitting(n) \in 1 .. n - 1)
    /\ told' = (told \/ Refused(n))
    /\ UNCHANGED <<params, rows, answered, slice>>

-----------------------------------------------------------------------------
(* Decoding and reading. *)

(* After a decode that failed the library has either what it had or nothing.  *)
Outputs(b, complete) ==
    \/ rows' = b /\ answered' = complete
    \/ UNCHANGED <<rows, answered>>
    \/ rows' = <<>> /\ answered' = {}

(* &mut self: whatever slice there was is gone.                               *)
Decode ==
    /\ batch # <<>> /\ slice' = {}
    /\ Outputs(batch, prompts)
    /\ UNCHANGED <<params, batchVars>>

(* What the library answers for a batch position: null, or its row.           *)
Row(i) == {rows[j] : j \in {j \in DOMAIN rows : j = i + 1 /\ rows[j].logits}}

Borrow(what, i, found) ==
    /\ slice = {}
    /\ slice' = {[what |-> what, i |-> i, row |-> row, live |-> TRUE] : row \in found}
    /\ UNCHANGED <<params, batchVars, rows, answered>>

GetLogitsIth(i) == Borrow("logits", i, Row(i))

EmbeddingsIth(i) == Borrow("embedding", i, IF params.embeddings THEN Row(i) ELSE {})

(* The pooled vector belongs to a sequence of the batch.                      *)
Pooled(s) == IF \E j \in DOMAIN rows : s \in rows[j].seqs THEN {s} ELSE {}

EmbeddingsSeqIth(s) ==
    Borrow("pooled", s, IF params.embeddings /\ params.pooling # "none" THEN Pooled(s) ELSE {})

Release ==
    /\ slice' = {}
    /\ UNCHANGED <<params, batchVars, rows, answered>>

Batches ==
    \/ Clear
    \/ \E pos \in 0 .. MaxPos, seqs \in (SUBSET Seqs) \ {{}}, logits \in BOOLEAN : Add(pos, seqs, logits)
    \/ \E n \in Lengths, seq \in Seqs, all \in BOOLEAN : AddSequence(n, seq, all)
    \/ Decode

-----------------------------------------------------------------------------
(* Properties. *)

ContextTypeOK ==
    /\ params \in [embeddings : BOOLEAN, pooling : {"none", "mean"}]
    /\ batch \in Seq(Entry) /\ Len(batch) <= Capacity
    /\ \A j \in DOMAIN batch : Cardinality(batch[j].seqs) <= SeqMax
    /\ torn \in BOOLEAN /\ told \in BOOLEAN
    /\ rows \in Seq(Entry)
    /\ Cardinality(slice) <= 1

(* A prompt that was added whole has, after the decode, a row to sample its   *)
(* next token from, at its last position, whatever else shares the batch.    *)
PromptCanContinue ==
    \A p \in answered : \E j \in DOMAIN rows :
        /\ Row(j - 1) # {} /\ j = p.from + p.n
        /\ rows[j].seqs = {p.seq} /\ rows[j].pos = p.n - 1

(* A batch that holds a part of a prompt is full, and its caller was told.    *)
TornIsFull == torn => told /\ (Len(batch) = Capacity)

=============================================================================
