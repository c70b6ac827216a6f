------------------------------- MODULE KvCache -------------------------------
(***************************************************************************)
(* The KV cache operations of a context (context/kv_cache.rs).             *)
(*                                                                         *)
(* The wrapper takes optional, unsigned bounds and hands the library       *)
(* signed ones in which -1 stands for "none": i32::MAX is Top, and u32     *)
(* goes to 2 * Top + 1.  `want` runs beside the cache and follows the      *)
(* documented ranges, as integers; the cache follows the converted ones.   *)
(* A cell is a token at a position, with the sequences it belongs to.      *)
(***************************************************************************)
EXTENDS Integers, FiniteSets, FiniteSetsExt

CONSTANTS
    Seqs,       \* sequence ids in use
    Top,        \* i32::MAX
    Bounds,     \* the u32 values callers pass as a sequence or a position
    Tokens,     \* token ids
    Shifts,     \* the deltas callers pass to kv_cache_seq_add
    MaxCells    \* bound: cells of the cache

U32 == 0 .. 2 * Top + 1
Pos == 0 .. Top

ASSUME KvCacheAssumption ==
    /\ Top \in Nat \ {0} /\ Bounds \subseteq U32 /\ Seqs \subseteq Pos
    /\ Shifts \subseteq Int /\ MaxCells \in Nat

VARIABLES
    recurrent,  \* the model keeps a running state per sequence
    cells,      \* the KV cache
    run,        \* run[s]: tokens the running state of s has taken in
    want        \* what each sequence should hold

context == <<cells, run, want>>
kvVars == <<recurrent, context>>

Cell == [pos : Pos, token : Tokens, seqs : (SUBSET Seqs) \ {{}}]

(* Option<u32>: no bound is the empty set.                                  *)
Options == {{}} \cup {{n} : n \in Bounds}

Of(cs, s) == {c \in cs : s \in c.seqs}
Held(cs, s) == {<<c.pos, c.token>> : c \in Of(cs, s)}
HeldIn(cs) == [s \in Seqs |-> Held(cs, s)]
Positions(cs, s) == {c.pos : c \in Of(cs, s)}

-----------------------------------------------------------------------------
(* Bounds on their way to the library. *)

(* Mutant: `as i32`. *)
FitsAlways(bound) == TRUE

(* i32::try_from succeeds.                                                   *)
Fits(bound) == \A n \in bound : n <= Top

(* None is -1; the value itself where it fits, the value modulo 2^32 where    *)
(* nobody checked.                                                           *)
CInt(bound) ==
    IF bound = {} THEN -1
    ELSE LET n == CHOOSE n \in bound : TRUE IN IF n > Top THEN n - 2 * (Top + 1) ELSE n

(* A bound that does not fit ends the call with an error, before anything is  *)
(* done.                                                                     *)
Refusal(src, p0, p1) == ~ (Fits(src) /\ Fits(p0) /\ Fits(p1))

-----------------------------------------------------------------------------
(* The library's cache operations; a negative bound or source is open. *)

Hit(c, s, p0, p1) ==
    /\ s < 0 \/ s \in c.seqs
    /\ p0 < 0 \/ p0 <= c.pos
    /\ p1 < 0 \/ c.pos < p1

Drop(c, s) == [c EXCEPT !.seqs = IF s < 0 THEN {} ELSE @ \ {s}]

Replace(s, p0, p1, New(_)) ==
    {c \in {IF Hit(d, s, p0, p1) THEN New(d) ELSE d : d \in cells} : c.seqs # {}}

LibRm(s, p0, p1) == Replace(s, p0, p1, LAMBDA c : Drop(c, s))

(* A running state cannot give back a part of its sequence.                  *)
Splits(s, p0, p1) ==
    recurrent /\ \E t \in Seqs :
        /\ s < 0 \/ t = s
        /\ \E c, d \in Of(cells, t) : Hit(c, s, p0, p1) /\ ~ Hit(d, s, p0, p1)

Emptied(cs) == [s \in Seqs |-> IF Of(cs, s) = {} THEN 0 ELSE run[s]]

LibCp(s, d, p0, p1) == Replace(s, p0, p1, LAMBDA c : [c EXCEPT !.seqs = @ \cup {d}])

-----------------------------------------------------------------------------
(* What the documentation says of a range: positions from p0, if there is    *)
(* one, up to p1, if there is one.                                           *)

Within(x, p0, p1) == (\A n \in p0 : n <= x[1]) /\ (\A n \in p1 : x[1] < n)
Part(s, p0, p1) == {x \in want[s] : Within(x, p0, p1)}
Named(src) == IF src = {} THEN Seqs ELSE Seqs \cap src

KvInit ==
    /\ recurrent \in BOOLEAN
    /\ cells = {} /\ run = [s \in Seqs |-> 0]
    /\ want = HeldIn({})

Refused(src, p0, p1) ==
    Refusal(src, p0, p1) /\ UNCHANGED context

(* The two removals: where the library cannot, clear_kv_cache_seq answers     *)
(* Ok(false) and kv_cache_seq_rm PartialSequenceRemovalFailed.               *)
Remove(s, p0, p1, named) ==
    IF Splits(s, CInt(p0), CInt(p1))
    THEN UNCHANGED context
    ELSE /\ cells' = LibRm(s, CInt(p0), CInt(p1))
         /\ run' = Emptied(cells')
         /\ want' = [t \in Seqs |-> want[t] \ (IF t \in named THEN Part(t, p0, p1) ELSE {})]

ClearKvCacheSeq(src, p0, p1) ==
    /\ \/ Refused(src, p0, p1)
       \/ /\ ~ Refusal(src, p0, p1)
          /\ Remove(CInt(src), p0, p1, Named(src))
    /\ UNCHANGED recurrent

KvCacheSeqRm(s, p0, p1) ==
    /\ \/ Refused({}, p0, p1)
       \/ /\ ~ Refusal({}, p0, p1)
          /\ Remove(s, p0, p1, {s})
    /\ UNCHANGED recurrent

(* Copies between sequences share the cells.  A running state is copied with  *)
(* a sequence, not with all of them.                                         *)
Copied(s, d, p0, p1) ==
    /\ cells' = LibCp(s, d, p0, p1)
    /\ run' = IF recurrent /\ s \in Seqs THEN [run EXCEPT ![d] = run[s]] ELSE run

(* A negative source matches any sequence.                                   *)
Sources(s) == IF s < 0 THEN Seqs ELSE {s}
Lent(s, p0, p1) == UNION {Part(t, p0, p1) : t \in Sources(s)}

KvCacheSeqCp(s, d, p0, p1) ==
    /\ \/ Refused({}, p0, p1)
       \/ /\ ~ Refusal({}, p0, p1) /\ Copied(s, d, CInt(p0), CInt(p1))
          /\ want' = [want EXCEPT ![d] = @ \cup Lent(s, p0, p1)]
    /\ UNCHANGED recurrent

(* The same call under another name.                                         *)
CopyKvCacheSeq(s, d, p0, p1) == KvCacheSeqCp(s, d, p0, p1)

(* copy_cache: the first `size` positions; no conversion.                    *)
CopyCache(s, d, size) ==
    /\ Copied(s, d, 0, size)
    /\ want' = [want EXCEPT ![d] = @ \cup Lent(s, {}, {size})]
    /\ UNCHANGED recurrent

(* A shift or division moves a cell for every sequence it belongs to.  It is  *)
(* assumed of the caller that it stays in range, and that no sequence holds   *)
(* two cells at one position before it or after it.                          *)
Move(s, p0, p1, To(_)) ==
    \/ Refused({}, p0, p1)
    \/ /\ ~ Refusal({}, p0, p1)
       /\ LET moved == {c \in cells : Hit(c, s, CInt(p0), CInt(p1))}
          IN  /\ \A c \in moved : To(c.pos) \in Pos
              /\ \A t \in Seqs : \A c, d \in Of(cells, t) : c # d =>
                     /\ c.pos # d.pos
                     /\ (IF c \in moved THEN To(c.pos) ELSE c.pos)
                        # (IF d \in moved THEN To(d.pos) ELSE d.pos)
              /\ cells' = Replace(s, CInt(p0), CInt(p1), LAMBDA c : [c EXCEPT !.pos = To(@)])
       /\ want' = [t \in Seqs |->
                     {IF x \in Part(s, p0, p1) /\ (\E c \in Of(cells, s) \cap Of(cells, t) : x[1] = c.pos)
                      THEN <<To(x[1]), x[2]>> ELSE x : x \in want[t]}]
       /\ UNCHANGED run

KvCacheSeqAdd(s, p0, p1, delta) == Move(s, p0, p1, LAMBDA p : p + delta) /\ UNCHANGED recurrent
KvCacheSeqDiv(s, p0, p1, d) == Move(s, p0, p1, LAMBDA p : p \div d) /\ UNCHANGED recurrent

SeqKeep(s) ==
    /\ cells' = {[c EXCEPT !.seqs = {s}] : c \in Of(cells, s)}
    /\ run' = Emptied(cells')
    /\ want' = [t \in Seqs |-> IF t = s THEN want[t] ELSE {}]
    /\ UNCHANGED recurrent

ClearKvCache ==
    /\ cells' = {} /\ run' = [s \in Seqs |-> 0]
    /\ want' = [s \in Seqs |-> {}]
    /\ UNCHANGED recurrent

PosMin(s) == IF Of(cells, s) = {} THEN -1 ELSE Min(Positions(cells, s))
PosMax(s) == IF Of(cells, s) = {} THEN -1 ELSE Max(Positions(cells, s))

(* The caller decodes a token at the end of a sequence it holds from the      *)
(* start on.                                                                 *)
Decode(s, token) ==
    /\ Cardinality(cells) < MaxCells /\ PosMax(s) < Top /\ PosMin(s) <= 0 /\ run[s] < MaxCells
    /\ LET c == [pos |-> PosMax(s) + 1, token |-> token, seqs |-> {s}]
       IN  cells' = cells \cup {c} /\ want' = [want EXCEPT ![s] = @ \cup {<<c.pos, token>>}]
    /\ run' = [run EXCEPT ![s] = IF recurrent THEN @ + 1 ELSE 0]
    /\ UNCHANGED recurrent

KvNext ==
    \/ \E p0 \in Options, p1 \in Options \cup {{0}} :
        \/ \E src \in Options : ClearKvCacheSeq(src, p0, p1)
        \/ \E s \in Seqs :
            \/ KvCacheSeqRm(s, p0, p1)
            \/ \E delta \in Shifts : KvCacheSeqAdd(s, p0, p1, delta)
            \/ KvCacheSeqDiv(s, p0, p1, 2)
        \/ \E s \in Seqs \cup {-1}, d \in Seqs : CopyKvCacheSeq(s, d, p0, p1)
    \/ \E s \in Seqs \cup {-1}, d \in Seqs, size \in Pos : CopyCache(s, d, size)
    \/ \E s \in Seqs : SeqKeep(s) \/ \E token \in Tokens : Decode(s, token)
    \/ ClearKvCache

-----------------------------------------------------------------------------
(* Properties. *)

(* Whatever bounds were given, absent, zero, the largest, or beyond i32::MAX, *)
(* and after any number of copies, shifts, removals, refusals and restores,   *)
(* each sequence holds the positions and tokens the documented ranges leave   *)
(* it.                                                                       *)
RangesAsDocumented == \A s \in Seqs : Held(cells, s) = want[s]

=============================================================================
