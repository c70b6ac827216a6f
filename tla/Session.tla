------------------------------- MODULE Session -------------------------------
(***************************************************************************)
(* Taking state out of a context and putting it back (context/session.rs): *)
(* the state of one sequence as an opaque value, a raw buffer or a file,   *)
(* and the state of the whole context as a buffer or a file.               *)
(*                                                                         *)
(* What a state contains is what the library writes: the cells of the      *)
(* sequence and its running state, or, with PARTIAL_ONLY, the running      *)
(* state alone.                                                            *)
(* A value, a buffer and a file of the same content are one kept record.   *)
(***************************************************************************)
EXTENDS KvCache

CONSTANT MaxKept    \* bound: states, buffers and files kept at a time

ASSUME SessionAssumption == MaxKept \in Nat

VARIABLES
    kept,       \* the states, buffers and files the caller has
    result      \* what the last of these calls returned

None == -2      \* another call came since
Error == -1

vars == <<kvVars, kept, result>>

(* LlamaStateSeqFlags.                                                       *)
PARTIAL_ONLY == "partial only"
Flags == SUBSET {PARTIAL_ONLY}

-----------------------------------------------------------------------------
(* The library writes and reads states. *)

Partial(flags) == PARTIAL_ONLY \in flags

DataOf(s, flags) ==
    [held |-> IF Partial(flags) THEN {} ELSE Held(cells, s), run |-> run[s]]

(* A restore replaces the sequence, or only its running state.               *)
Restored(data, flags, d) ==
    /\ cells' = IF Partial(flags) THEN cells
                ELSE {c \in {Drop(c, d) : c \in cells} : c.seqs # {}}
                       \cup {[pos |-> x[1], token |-> x[2], seqs |-> {d}] : x \in data.held}
    /\ run' = [run EXCEPT ![d] = IF recurrent THEN data.run ELSE 0]
    /\ want' = HeldIn(cells')

(* A buffer is {} when it is empty and else {data}.  The library answers how  *)
(* much of one it read: all of a state, or nothing when it fails, as it does  *)
(* on an empty buffer; or that it cannot do this at all.                     *)
Size(bytes) == Cardinality(bytes)
Unsupported == 2

(* A failed restore of the cells may have emptied the sequence already.      *)
Lost(flags, d) ==
    /\ cells' \in {cells} \cup
          (IF Partial(flags) THEN {} ELSE {{c \in {Drop(c, d) : c \in cells} : c.seqs # {}}})
    /\ run' = Emptied(cells')
    /\ want' = HeldIn(cells')

SetData(bytes, flags, d, n) ==
    \/ n = Size(bytes) /\ \E data \in bytes : Restored(data, flags, d)
    \/ n = 0 /\ Lost(flags, d)
    \/ n = Unsupported /\ UNCHANGED context

-----------------------------------------------------------------------------
SessionInit ==
    /\ KvInit
    /\ kept = {} /\ result = None

Keep(record) ==
    /\ Cardinality(kept) < MaxKept
    /\ kept' = kept \cup {record} /\ result' = 0
    /\ UNCHANGED <<context, recurrent>>

(* Nothing came of it.                                                       *)
Failed == result' = Error /\ UNCHANGED <<context, recurrent, kept>>

(* Mutant: the flags it was captured with are dropped. *)
SeqStateWithoutFlags(s, flags, bytes) ==
    [flags |-> {}, at |-> DataOf(s, {}), bytes |-> bytes]

(* What the caller keeps; `at` is what the sequence was at the capture.       *)
SeqState(s, flags, bytes) ==
    [flags |-> flags, at |-> DataOf(s, {}), bytes |-> bytes]

OfSequence == {st \in kept : "flags" \in DOMAIN st}
OfContext == {st \in kept : "cells" \in DOMAIN st}

(* llama_state_seq_get_data: all of the state, or nothing.                    *)
Written(s, flags) == {{}, {DataOf(s, flags)}}

(* state_seq_get: sized, then written into a buffer of that size, and compared *)
(* with it.  When both calls fail, with 0, an empty state is kept.            *)
StateSeqGet(s, flags) ==
    \E size \in 0 .. 1, bytes \in Written(s, flags) :
        IF size = Size(bytes) THEN Keep(SeqState(s, flags, bytes)) ELSE Failed

(* state_seq_get_size_ext, then state_seq_get_data_ext into a buffer of that  *)
(* size; nothing compares the two.                                           *)
StateSeqGetDataExt(s, flags) ==
    \E bytes \in Written(s, flags) : Keep(SeqState(s, flags, bytes))

(* state_seq_set: the flags are those of the capture.  Success is having read *)
(* as much as there is.                                                      *)
StateSeqSet(st, d) ==
    /\ \E n \in 0 .. 2 :
          /\ SetData(st.bytes, st.flags, d, n)
          /\ result' = IF n = Size(st.bytes) THEN 0 ELSE Error
    /\ UNCHANGED <<recurrent, kept>>

StateSeqSetDataExt(st, d) == StateSeqSet(st, d)

(* Mutant: the token count is not held against the caller's maximum. *)
LoadedUnchecked(n_out, max_tokens) == result' = n_out

(* The tokens of a file are returned only when all of them fit.              *)
Loaded(n_out, max_tokens) ==
    result' = IF n_out > max_tokens THEN Error ELSE n_out

Length(held) == IF held = {} THEN 0 ELSE Max({x[1] : x \in held}) + 1

(* A path that is not UTF-8 or holds a NUL goes no further.                   *)
StateSeqSaveFile(s) ==
    \/ Keep(SeqState(s, {}, {DataOf(s, {})}))
    \/ Failed

(* The library either refuses a file that does not fit or has loaded it.      *)
StateSeqLoadFile(st, d, max_tokens) ==
    /\ \/ /\ \E data \in st.bytes : Restored(data, {}, d)
          /\ Loaded(Length(st.at.held), max_tokens)
       \/ result' = Error /\ Lost({}, d)
    /\ UNCHANGED <<recurrent, kept>>

(* The whole context, with the tokens of one of its sequences.               *)
Whole(s) == [cells |-> cells, run |-> run, tokens |-> Length(Held(cells, s))]

RestoredWhole(st) ==
    /\ cells' = st.cells /\ run' = st.run /\ want' = HeldIn(cells')
    /\ UNCHANGED <<recurrent, kept>>

StateSaveFile(s) ==
    \/ Keep(Whole(s))
    \/ Failed

SaveSessionFile(s) == StateSaveFile(s)

StateLoadFile(st, max_tokens) ==
    \/ RestoredWhole(st) /\ Loaded(st.tokens, max_tokens)
    \/ Failed

LoadSessionFile(st, max_tokens) == StateLoadFile(st, max_tokens)

(* get_state_size, then copy_state_data into that much memory.               *)
CopyStateData(s) == Keep(Whole(s))

(* set_state_data: a buffer that was cut short is not read past its end.      *)
SetStateData(st) ==
    \/ RestoredWhole(st) /\ result' = 0
    \/ Failed

Forget(st) ==
    /\ kept' = kept \ {st} /\ result' = None
    /\ UNCHANGED <<context, recurrent>>

Next ==
    \/ KvNext /\ UNCHANGED kept /\ result' = None
    \/ \E s \in Seqs :
        \/ \E flags \in Flags : StateSeqGet(s, flags) \/ StateSeqGetDataExt(s, flags)
        \/ StateSeqSaveFile(s)
        \/ StateSaveFile(s) \/ SaveSessionFile(s) \/ CopyStateData(s)
    \/ \E st \in OfSequence, d \in Seqs :
        \/ StateSeqSet(st, d) \/ StateSeqSetDataExt(st, d)
        \/ st.flags = {} /\ st.bytes # {} /\ \E max \in 0 .. Top + 1 : StateSeqLoadFile(st, d, max)
    \/ \E st \in OfContext :
        \/ \E max \in 0 .. Top + 1 : StateLoadFile(st, max) \/ LoadSessionFile(st, max)
        \/ SetStateData(st)
    \/ \E st \in kept : Forget(st)

Spec == SessionInit /\ [][Next]_vars

-----------------------------------------------------------------------------
(* Properties. *)

(* Rewinding: a restore that reports success, into any sequence, however much *)
(* was decoded, copied, removed or captured since, makes the sequence what it *)
(* was at the capture: its running state, and, unless the state is a partial  *)
(* one, which leaves the KV cache alone, its cells.  It disturbs no other     *)
(* sequence.  The one exception is an empty state: the library's failure, 0,  *)
(* is its length, and the call reports success.                              *)
RestoreRewinds ==
    [][ \A st \in OfSequence, d \in Seqs :
          result' = 0 /\ StateSeqSet(st, d) =>
              /\ (st.bytes # {} /\ recurrent) => run'[d] = st.at.run
              /\ IF Partial(st.flags) THEN UNCHANGED cells
                 ELSE st.bytes # {} => Held(cells', d) = st.at.held
              /\ \A s \in Seqs \ {d} : Held(cells', s) = Held(cells, s) ]_vars

(* A load that does not report an error returns every token kept with the    *)
(* state, and no more than the caller has room for.                          *)
LoadReturnsAll ==
    [][ \A max \in 0 .. Top + 1 :
          /\ \A st \in OfContext : result' >= 0 /\ StateLoadFile(st, max) =>
                 result' = st.tokens /\ result' <= max
          /\ \A st \in OfSequence, d \in Seqs :
                 st.flags = {} /\ st.bytes # {} /\ result' >= 0 /\ StateSeqLoadFile(st, d, max) =>
                     result' = Length(Held(cells', d)) /\ result' <= max ]_vars

=============================================================================
