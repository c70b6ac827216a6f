------------------------------- MODULE MtpReuse -------------------------------
(***************************************************************************)
(* Reuse of a prompt prefix across generations of one MTP driver: the       *)
(* caller-driven prefill (`warm`, `finalize_prompt`), the snapshot of the   *)
(* target and of the companion at a prefix boundary, their restoration into *)
(* a later request, and the full prefill a caller falls back to.            *)
(*                                                                         *)
(* Requests come one after another.  Each clears the target's cache, and    *)
(* either prefills its prompt from position 0 or restores the snapshot and  *)
(* prefills what follows it.  Neither `begin` nor `clear_kv_cache` touches  *)
(* the companion, so it enters a request as the last one left it.  The      *)
(* rounds of a generation are MtpDriver's subject; here they only advance   *)
(* both caches (the companion perhaps not all the way, when a call failed). *)
(*                                                                         *)
(* The target is the sequence of cells it has absorbed: a recurrent state   *)
(* cannot be sliced, and a position absorbed twice is there twice.  The     *)
(* companion holds one cell per position.                                   *)
(***************************************************************************)
EXTENDS Integers, Sequences

CONSTANTS
    Token,              \* the vocabulary
    Prompts,            \* the prompts requests come with
    PrefillChunk,       \* PREFILL_CHUNK
    MaxAnswer,          \* bound: tokens a generation leaves in the caches
    MaxRequests,        \* bound: requests
    ClearsOnFallback    \* the caller clears the target before it falls back

ASSUME ReuseAssumption ==
    /\ Prompts \subseteq Seq(Token) \ {<<>>}
    /\ PrefillChunk \in Nat \ {0}
    /\ MaxAnswer \in Nat
    /\ MaxRequests \in Nat
    /\ ClearsOnFallback \in BOOLEAN

VARIABLES
    target,     \* cells the target's sequence has absorbed, in order
    comp,       \* cells of the companion's cache
    tip,        \* what the last output row of the target was computed over
    snap,       \* the caller's snapshots: none or one
    pending,    \* the snapshot of the running `prefill`, not returned yet
    prompt,     \* the prompt of the running request
    reuse,      \* this request restores the snapshot
    restored,   \* ok_t of the running `restore`
    captureAt,  \* capture_at of the running `prefill`; 0 for None
    pos,        \* pos of the running `prefill`
    chunk,      \* last_chunk_len of the running `prefill`
    asked,      \* requests made
    pc

caches == <<target, comp, tip>>
request == <<prompt, reuse, captureAt, asked>>
vars == <<caches, snap, pending, request, restored, pos, chunk, pc>>

Cell(p, t) == [pos |-> p, tok |-> t]

(* The cells of text's positions a .. b-1, in order; all of text up to n.    *)
Slice(text, a, b) == [i \in 1 .. b - a |-> Cell(a + i - 1, text[a + i])]
Held(text, n) == {Cell(i - 1, text[i]) : i \in 1 .. n}

Below(cells, n) == {c \in cells : c.pos < n}

(* The snapshot stands for a proper or whole prefix of p. *)
Prefixes(text, p) == Len(text) <= Len(p) /\ \A i \in 1 .. Len(text) : text[i] = p[i]

-----------------------------------------------------------------------------
(* The library. *)

Decode(cells) == target' = target \o cells /\ tip' = target \o cells

(* The companion holds text at positions a .. b-1 afterwards. *)
Warmed(text, a, b) ==
    comp' = {c \in comp : c.pos \notin a .. b - 1} \cup
            {Cell(i - 1, text[i]) : i \in a + 1 .. b}

-----------------------------------------------------------------------------
Init ==
    /\ target = <<>> /\ comp = {} /\ tip = <<>>
    /\ snap = {} /\ pending = {}
    /\ prompt = <<>> /\ reuse = FALSE /\ restored = FALSE /\ captureAt = 0
    /\ pos = 0 /\ chunk = 0 /\ asked = 0
    /\ pc = "idle"

(* A request clears the target (`restore` does so first, a full prefill's    *)
(* caller must) and chooses where to snapshot, if anywhere.                  *)
Ask(p, b, again) ==
    /\ pc = "idle" /\ asked < MaxRequests /\ asked' = asked + 1
    /\ again => \E s \in snap : Prefixes(s.text, p)
    /\ prompt' = p /\ captureAt' = b /\ reuse' = again
    /\ target' = <<>> /\ pending' = {}
    /\ pos' = 0 /\ chunk' = 0
    /\ pc' = IF again THEN "restoring" ELSE "prefill"
    /\ UNCHANGED <<comp, tip, snap, restored>>

(* Restoring both halves: ok_t, then ok_c whatever ok_t was. *)
RestoreTarget ==
    /\ pc = "restoring"
    /\ \E s \in snap : \/ target' = s.target /\ restored' = TRUE
                       \/ target' = target /\ restored' = FALSE
    /\ pc' = "restoringCompanion"
    /\ UNCHANGED <<comp, tip, snap, pending, request, pos, chunk>>

(* Mutants: the target's half alone decides; one half is taken for both. *)
BothTargetOnly(okC) == restored
BothEither(okC) == restored \/ okC

Both(okC) == restored /\ okC

(* Mutant: a failed restore is tried again for as long as it fails. *)
FallBackRetrying ==
    /\ target' = <<>> /\ pos' = 0 /\ reuse' = FALSE /\ pc' = "restoring"

(* The full prefill after a failed restore. *)
FallBack ==
    /\ target' = IF ClearsOnFallback THEN <<>> ELSE target
    /\ pos' = 0 /\ reuse' = FALSE /\ pc' = "prefill"

RestoreCompanion(okC) ==
    /\ pc = "restoringCompanion"
    /\ \E s \in snap :
          /\ IF okC THEN comp' = s.comp ELSE comp' \in {comp, {}}
          /\ \/ /\ Both(okC)
                /\ pos' = Len(s.text) /\ pc' = "prefill"
                /\ UNCHANGED <<target, reuse>>
             \/ ~ Both(okC) /\ FallBack
    /\ UNCHANGED <<tip, snap, pending, prompt, captureAt, asked, restored, chunk>>

(* Mutant: no chunk boundary is forced onto the snapshot point. *)
ChunkEndUnforced ==
    IF pos + PrefillChunk < Len(prompt) THEN pos + PrefillChunk ELSE Len(prompt)

(* Where the next chunk ends: at the snapshot point if it lies inside.       *)
ChunkEnd ==
    LET end == IF pos + PrefillChunk < Len(prompt) THEN pos + PrefillChunk ELSE Len(prompt)
    IN  IF captureAt > pos /\ captureAt < end THEN captureAt ELSE end

DecodeChunk ==
    /\ pc = "prefill" /\ pos < Len(prompt)
    /\ \/ Decode(Slice(prompt, pos, ChunkEnd)) /\ pc' = "warming"
       \/ pc' = "failed" /\ UNCHANGED <<target, tip>>
    /\ UNCHANGED <<comp, snap, pending, request, restored, pos, chunk>>

(* Both halves of a snapshot, taken between two chunks. *)
Snapshot(n, cells) == [text |-> SubSeq(prompt, 1, n), target |-> target, comp |-> cells]

(* Mutant: the companion's half is taken before the chunk is warmed. *)
WarmChunkAfterCapture ==
    LET end == ChunkEnd IN
    /\ pc = "warming"
    /\ \/ /\ Warmed(prompt, pos, end)
          /\ chunk' = end - pos /\ pos' = end /\ pc' = "prefill"
          /\ pending' = IF end = captureAt THEN {Snapshot(end, comp)} ELSE pending
       \/ pc' = "failed" /\ UNCHANGED <<comp, chunk, pos, pending>>
    /\ UNCHANGED <<target, tip, snap, request, restored>>

(* `warm`, and the capture when the chunk ends at capture_at: an empty half  *)
(* fails the request.                                                       *)
WarmChunk ==
    LET end == ChunkEnd IN
    /\ pc = "warming"
    /\ \/ /\ Warmed(prompt, pos, end)
          /\ chunk' = end - pos /\ pos' = end /\ pc' = "prefill"
          /\ pending' = IF end = captureAt THEN {Snapshot(end, comp')} ELSE pending
       \/ pc' = "failed" /\ UNCHANGED <<comp, chunk, pos, pending>>
    /\ UNCHANGED <<target, tip, snap, request, restored>>

(* Mutant: finalize_prompt takes any output index. *)
FinalizableAlways == TRUE

(* finalize_prompt refuses last_output_index = last_chunk_len - 1 < 0: a     *)
(* snapshot of the whole prompt leaves no row to capture from.               *)
Finalizable == chunk - 1 >= 0

Finalize ==
    /\ pc = "prefill" /\ pos = Len(prompt)
    /\ \/ /\ Finalizable
          /\ snap' = IF pending = {} THEN snap ELSE pending
          /\ pc' = "ready"
       \/ pc' = "failed" /\ UNCHANGED snap
    /\ UNCHANGED <<caches, pending, request, restored, pos, chunk>>

(* A generation leaves its answer in the target and, unless a call failed,   *)
(* in the companion.                                                        *)
Generate(answer) ==
    LET n == Len(prompt)
        text == prompt \o answer
    IN
    /\ pc = "ready"
    /\ Decode(Slice(text, n, n + Len(answer)))
    /\ \E m \in 0 .. Len(answer) : Warmed(text, n, n + m)
    /\ pc' = "idle"
    /\ UNCHANGED <<snap, pending, request, restored, pos, chunk>>

(* The caller gives a failed request up and keeps its snapshot. *)
GiveUp ==
    /\ pc = "failed" /\ pc' = "idle"
    /\ UNCHANGED <<caches, snap, pending, request, restored, pos, chunk>>

Answers == UNION {[1 .. k -> Token] : k \in 0 .. MaxAnswer}

Prefill ==
    \/ RestoreTarget \/ (\E okC \in BOOLEAN : RestoreCompanion(okC))
    \/ DecodeChunk \/ WarmChunk \/ Finalize

Next ==
    \/ \E p \in Prompts : \E b \in 0 .. Len(p), again \in BOOLEAN : Ask(p, b, again)
    \/ Prefill \/ (\E answer \in Answers : Generate(answer)) \/ GiveUp

(* Calls are synchronous and return, and `prefill` loops until it is done.   *)
Spec == Init /\ [][Next]_vars /\ WF_vars(Prefill)

-----------------------------------------------------------------------------
(* Properties. *)

Cells == [pos : Nat, tok : Token]
Snapshots == [text : Seq(Token), target : Seq(Cells), comp : SUBSET Cells]

(* Every variable keeps its type, and there is at most one snapshot.         *)
TypeOK ==
    /\ target \in Seq(Cells) /\ tip \in Seq(Cells) /\ comp \subseteq Cells
    /\ snap \subseteq Snapshots /\ pending \subseteq Snapshots
    /\ \A s, t \in snap : s = t
    /\ \A s, t \in pending : s = t
    /\ prompt \in Seq(Token) /\ pos \in 0 .. Len(prompt)
    /\ chunk \in Nat /\ captureAt \in Nat /\ asked \in Nat
    /\ reuse \in BOOLEAN /\ restored \in BOOLEAN
    /\ pc \in {"idle", "restoring", "restoringCompanion", "prefill", "warming",
               "ready", "failed"}

(* Reuse changes no token: when a generation starts, the target has absorbed *)
(* exactly this request's prompt, each position once and in order, the       *)
(* companion holds it too, and the row the first token is drawn from was     *)
(* computed over it, whatever was restored, failed or left by others.        *)
ReuseIsExact ==
    pc = "ready" =>
        /\ target = Slice(prompt, 0, Len(prompt))
        /\ tip = target
        /\ Below(comp, Len(prompt)) = Held(prompt, Len(prompt))

(* A snapshot's halves belong together: both stand at the end of the same    *)
(* prefix, which the caller later compares prompts with.                     *)
Whole(s) ==
    /\ s.target = Slice(s.text, 0, Len(s.text))
    /\ Below(s.comp, Len(s.text)) = Held(s.text, Len(s.text))

SnapshotWhole == \A s \in snap : Whole(s)

(* A prefill asked to snapshot at capture_at does so, at that very length,   *)
(* unless it started from a snapshot at or beyond it.                        *)
CaptureHonoured ==
    pc = "ready" /\ captureAt > 0 =>
        \E s \in snap :
            /\ Prefixes(s.text, prompt)
            /\ Len(s.text) = captureAt \/ (reuse /\ Len(s.text) > captureAt)

(* A request that reuses spares the prefix: no position before the snapshot  *)
(* is decoded again unless the restore failed.                               *)
PrefixSpared ==
    [][ reuse /\ pc = "prefill" /\ pc' = "warming" =>
            \E s \in snap : Len(s.text) <= pos /\ Len(target) = pos ]_vars

(* A restore, a fallback or a prefill always comes to an end.                *)
RequestEnds == (pc \in {"restoring", "prefill"}) ~> (pc \in {"ready", "failed"})

-----------------------------------------------------------------------------
(* The inductive invariant behind ReuseIsExact, for a caller that clears the *)
(* target before it falls back.                                              *)
IInv ==
    /\ TypeOK /\ ReuseIsExact /\ SnapshotWhole
    /\ \A s \in pending : Whole(s)
    /\ pc \in {"restoring", "restoringCompanion"} =>
          /\ chunk = 0 /\ pos = 0 /\ pending = {}
          /\ \E s \in snap : Prefixes(s.text, prompt)
    /\ pc = "restoring" => target = <<>>
    /\ pc = "restoringCompanion" =>
          IF restored THEN \A s \in snap : target = s.target ELSE target = <<>>
    /\ pc = "prefill" =>
          /\ target = Slice(prompt, 0, pos)
          /\ Below(comp, pos) = Held(prompt, pos)
          /\ chunk > 0 => tip = target
    /\ pc = "warming" =>
          /\ pos < Len(prompt) /\ target = Slice(prompt, 0, ChunkEnd) /\ tip = target
          /\ Below(comp, pos) = Held(prompt, pos)

=============================================================================
