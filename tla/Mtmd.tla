-------------------------------- MODULE Mtmd ---------------------------------
(***************************************************************************)
(* Multimodal input (mtmd.rs) evaluated into a context: bitmaps, the       *)
(* chunks they are tokenized into, the handles on those chunks, and        *)
(* `eval_chunks`, which decodes them one after the other through a shared  *)
(* reference to the context.                                               *)
(*                                                                         *)
(* One thread uses the MtmdContext.  It is Sync, and eval_chunks "is NOT   *)
(* thread-safe": what two threads do to its output buffer is not modelled. *)
(***************************************************************************)
EXTENDS Context

CONSTANTS
    Inputs,     \* chunk sequences texts tokenize to: "text" and "image"
    ImageTokens,\* tokens of an image
    MaxPast,    \* bound: positions of the sequence
    MaxHandles  \* bound: handles on chunks

ASSUME MtmdAssumption ==
    /\ \A c \in Inputs : c \in Seq({"text", "image"})
    /\ ImageTokens \in Nat \ {0}
    /\ MaxPast \in Nat /\ MaxHandles \in Nat

VARIABLES
    feeds,      \* bound: a behaviour feeds the context batches or chunks
    bitmap,     \* the caller's bitmap, if any
    chunks,     \* the caller's MtmdInputChunks, if any
    handles,    \* its MtmdInputChunks: [chunk, owned]
    allocated,  \* chunks the library has memory for
    twice,      \* history: the library was asked to free a chunk it had freed
    mrope,      \* decode_use_mrope
    running,    \* where eval_chunks is
    at,         \* the next chunk of the evaluation
    position,   \* the position it goes to
    cache,      \* the positions the sequence holds
    left,       \* those that a failed evaluation left behind
    n_past      \* the caller's count

chunkVars == <<feeds, mrope, bitmap, chunks, handles, allocated, twice>>
evalVars == <<running, at, position, cache, left, n_past>>
vars == <<contextVars, chunkVars, evalVars>>

Idle == running = "idle"

(* n_positions: one for an image under M-RoPE.                               *)
NTokens(kind) == IF kind = "image" THEN ImageTokens ELSE 1
NPositions(kind, use_mrope) == IF kind = "image" /\ use_mrope THEN 1 ELSE NTokens(kind)

(* The positions of the first n chunks, and of all of them (total_positions). *)
Before(input, n, use_mrope) ==
    LET before[k \in 0 .. Len(input)] ==
            IF k = 0 THEN 0 ELSE before[k - 1] + NPositions(input[k], use_mrope)
    IN  before[n]
Total(input) == Before(input, Len(input), mrope)

MtmdInit ==
    /\ ContextInit /\ feeds \in {"batches", "chunks"} /\ mrope \in BOOLEAN
    /\ feeds = "chunks" => params = [embeddings |-> FALSE, pooling |-> "none"]
    /\ feeds = "batches" => ~ mrope
    /\ bitmap = {} /\ chunks = {} /\ handles = {} /\ allocated = {} /\ twice = FALSE
    /\ running = "idle" /\ at = 1 /\ position = 0
    /\ cache = {} /\ left = {} /\ n_past = 0

-----------------------------------------------------------------------------
(* Bitmaps. *)

(* From image data, audio, a file or a buffer; or an error.                   *)
NewBitmap ==
    /\ Idle /\ bitmap = {}
    /\ bitmap' \in {{}, {"bitmap"}}
    /\ UNCHANGED <<contextVars, feeds, mrope, chunks, handles, allocated, twice, evalVars>>

DropBitmap ==
    /\ Idle /\ bitmap' = {}
    /\ UNCHANGED <<contextVars, feeds, mrope, chunks, handles, allocated, twice, evalVars>>

-----------------------------------------------------------------------------
(* Chunks and handles. *)

Free(objects) ==
    /\ allocated' = allocated \ objects
    /\ twice' = (twice \/ ~ objects \subseteq allocated)

Markers(input) == {i \in DOMAIN input : input[i] = "image"}

(* tokenize: one bitmap per marker, or an error and no chunks.                *)
Tokenize(input) ==
    /\ Idle /\ chunks = {}
    /\ \/ /\ Cardinality(Markers(input)) = Cardinality(bitmap)
          /\ chunks' = {input}
          /\ allocated' = allocated \cup {<<"ours", i>> : i \in DOMAIN input}
       \/ UNCHANGED <<chunks, allocated>>
    /\ UNCHANGED <<contextVars, feeds, mrope, bitmap, handles, twice, evalVars>>

(* get: a borrowed handle.                                                   *)
Get(i) ==
    /\ Idle /\ Cardinality(handles) < MaxHandles
    /\ \E input \in chunks :
        handles' = handles \cup {[chunk |-> <<"ours", j>>, owned |-> FALSE] :
                                    j \in {j \in DOMAIN input : j = i + 1}}
    /\ UNCHANGED <<contextVars, feeds, mrope, bitmap, chunks, allocated, twice, evalVars>>

(* copy: an owned chunk of its own, or null.                                  *)
Copy(h, object) ==
    /\ Idle /\ Cardinality(handles) < MaxHandles /\ object \notin allocated
    /\ handles' = handles \cup {[chunk |-> object, owned |-> TRUE]}
    /\ allocated' = allocated \cup {object}
    /\ UNCHANGED <<contextVars, feeds, mrope, bitmap, chunks, twice, evalVars>>

(* Mutant: a borrowed chunk is freed with its handle. *)
DropHandleFreeing(h) ==
    /\ Idle /\ handles' = handles \ {h}
    /\ Free({h.chunk})
    /\ UNCHANGED <<contextVars, feeds, mrope, bitmap, chunks, evalVars>>

DropHandle(h) ==
    /\ Idle /\ handles' = handles \ {h}
    /\ Free(IF h.owned THEN {h.chunk} ELSE {})
    /\ UNCHANGED <<contextVars, feeds, mrope, bitmap, chunks, evalVars>>

(* A borrowed handle keeps the collection from being dropped or evaluated.    *)
Unborrowed == \A h \in handles : h.owned

DropChunks ==
    /\ Idle /\ Unborrowed /\ chunks # {}
    /\ chunks' = {}
    /\ Free({<<"ours", i>> : i \in UNION {DOMAIN input : input \in chunks}})
    /\ UNCHANGED <<contextVars, feeds, mrope, bitmap, handles, evalVars>>

-----------------------------------------------------------------------------
(* eval_chunks. *)

(* From the caller's n_past, whatever the cache holds there.                  *)
EvalChunks ==
    /\ Idle /\ Unborrowed /\ chunks # {}
    /\ \A input \in chunks : n_past + Total(input) <= MaxPast
    /\ running' = "evaluating" /\ at' = 1 /\ position' = n_past
    /\ UNCHANGED <<contextVars, chunkVars, cache, left, n_past>>

Current(kind) == \E input \in chunks : at \in DOMAIN input /\ input[at] = kind

(* llama_decode, behind a shared reference: a slice may still be held.  The   *)
(* last token has a row if `logits_last` asks for one.                       *)
Overwritten ==
    /\ \E logits_last \in BOOLEAN :
          rows' = <<[pos |-> 0, seqs |-> Seqs, logits |-> logits_last]>>
    /\ answered' = {}
    /\ slice' = {[s EXCEPT !.live = FALSE] : s \in slice}
    /\ UNCHANGED <<params, batchVars>>

Decoded(kind) ==
    LET n == NPositions(kind, mrope) IN
    /\ Current(kind)
    /\ cache' = cache \cup (position .. position + n - 1)
    /\ position' = position + n /\ at' = at + 1 /\ running' = "evaluating"
    /\ Overwritten
    /\ UNCHANGED <<chunkVars, left, n_past>>

EvalText == running = "evaluating" /\ Decoded("text")

(* An image is encoded before it is decoded.                                 *)
EncodeImage ==
    /\ running = "evaluating" /\ Current("image")
    /\ running' = "encoded"
    /\ UNCHANGED <<contextVars, chunkVars, at, position, cache, left, n_past>>

EvalImage == running = "encoded" /\ Decoded("image")

Over == running' = "idle" /\ at' = 1 /\ position' = 0

(* An encode or decode that fails ends it, a chunk perhaps half decoded, and  *)
(* n_past is not handed out.                                                 *)
EvalFails ==
    /\ ~ Idle /\ Over
    /\ \E kind \in {"text", "image"} :
          /\ Current(kind)
          /\ \E n \in 0 .. (IF running = "evaluating" /\ kind = "image" THEN 0
                            ELSE NPositions(kind, mrope)) :
                /\ cache' = cache \cup (n_past .. position + n - 1)
                /\ left' = left \cup (n_past .. position + n - 1)
    /\ UNCHANGED contextVars \/ Overwritten
    /\ UNCHANGED <<chunkVars, n_past>>

(* Mutant: the count of this call alone is handed out. *)
EvalReturnsCount ==
    /\ running = "evaluating" /\ ~ Current("text") /\ ~ Current("image")
    /\ Over /\ n_past' = position - n_past
    /\ UNCHANGED <<contextVars, chunkVars, cache, left>>

EvalReturns ==
    /\ running = "evaluating" /\ ~ Current("text") /\ ~ Current("image")
    /\ Over /\ n_past' = position
    /\ UNCHANGED <<contextVars, chunkVars, cache, left>>

(* The caller trims what a failed evaluation left behind, or more.            *)
Trim(n) ==
    /\ Idle /\ n <= n_past
    /\ cache' = {p \in cache : p < n} /\ left' = {p \in left : p < n} /\ n_past' = n
    /\ UNCHANGED <<contextVars, chunkVars, running, at, position>>

MtmdNext ==
    \/ NewBitmap \/ DropBitmap
    \/ \E input \in Inputs : Tokenize(input)
    \/ \E i \in 0 .. 3 : Get(i)
    \/ \E h \in handles : DropHandle(h) \/ \E i \in 1 .. MaxHandles : Copy(h, <<"copy", i>>)
    \/ DropChunks
    \/ EvalChunks \/ EvalText \/ EncodeImage \/ EvalImage \/ EvalFails \/ EvalReturns
    \/ \E n \in 0 .. MaxPast : Trim(n)

Reads ==
    \/ \E i \in 0 .. Capacity : GetLogitsIth(i) \/ EmbeddingsIth(i)
    \/ \E s \in Seqs : EmbeddingsSeqIth(s)
    \/ Release

(* The caller of eval_chunks waits for it.                                    *)
Next ==
    \/ Idle /\ (Reads \/ (feeds = "batches" /\ Batches)) /\ UNCHANGED <<chunkVars, evalVars>>
    \/ feeds = "chunks" /\ MtmdNext

Spec == MtmdInit /\ [][Next]_vars

-----------------------------------------------------------------------------
(* Properties. *)

TypeOK ==
    /\ ContextTypeOK
    /\ Cardinality(bitmap) <= 1 /\ chunks \subseteq Inputs /\ Cardinality(chunks) <= 1
    /\ running \in {"idle", "evaluating", "encoded"}
    /\ position \in 0 .. MaxPast /\ n_past \in 0 .. MaxPast
    /\ left \subseteq cache /\ cache \subseteq 0 .. MaxPast - 1

(* Every chunk is freed once, by its one owner, and no handle outlives what   *)
(* it points to, whatever order handles, copies and collections are dropped. *)
HandlesAlive ==
    /\ ~ twice
    /\ \A h \in handles : h.chunk \in allocated
    /\ \A input \in chunks : \A i \in DOMAIN input : <<"ours", i>> \in allocated

(* The n_past that eval_chunks hands out is the caller's advanced by the       *)
(* total_positions promised beforehand, and there is no gap below it; it is   *)
(* where the cache ends unless something is there that a failed evaluation    *)
(* left behind and the caller did not trim.                                  *)
PastCountsCache ==
    [][ EvalReturns =>
            /\ \A input \in chunks : n_past' = n_past + Total(input)
            /\ 0 .. n_past' - 1 \subseteq cache
            /\ left = {} => cache = 0 .. n_past' - 1 ]_vars

(* A slice of logits or embeddings a caller holds is of the last decode       *)
(* ("ptr valid until the next decode").                                      *)
SliceIsLive == \A s \in slice : s.live

=============================================================================
