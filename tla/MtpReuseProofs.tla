---------------------------- MODULE MtpReuseProofs ----------------------------
(***************************************************************************)
(* Proofs about MtpReuse for every vocabulary, set of prompts, chunk size   *)
(* and number of requests, for a caller that clears the target before it    *)
(* falls back to a full prefill.                                            *)
(***************************************************************************)
EXTENDS MtpReuse, TLAPS, SequenceTheorems

USE DEF Cell

-----------------------------------------------------------------------------
(* Lemmas about slices of a text and the caches that hold it. *)

(* A slice is a sequence of typed cells, one per position. *)
LEMMA SliceIsSeq ==
    ASSUME NEW text \in Seq(Token), NEW a \in Nat, NEW b \in Nat, a <= b, b <= Len(text)
    PROVE  /\ Slice(text, a, b) \in Seq(Cells)
           /\ Len(Slice(text, a, b)) = b - a
           /\ \A i \in 1 .. b - a : Slice(text, a, b)[i] = Cell(a + i - 1, text[a + i])
<1>1. \A i \in 1 .. b - a : text[a + i] \in Token /\ Cell(a + i - 1, text[a + i]) \in Cells
  BY DEF Cells
<1>2. Slice(text, a, b) \in [1 .. b - a -> Cells]
  BY <1>1 DEF Slice
<1>3. b - a \in Nat
  OBVIOUS
<1>4. ASSUME NEW S, NEW n \in Nat, NEW f \in [1 .. n -> S]
      PROVE  f \in Seq(S) /\ Len(f) = n
  OBVIOUS
<1>5. Slice(text, a, b) \in Seq(Cells) /\ Len(Slice(text, a, b)) = b - a
  BY <1>2, <1>3, <1>4
<1> QED BY <1>5 DEF Slice

(* The slices that start at 0. *)
LEMMA TextIsSeq ==
    ASSUME NEW text \in Seq(Token), NEW b \in Nat, b <= Len(text)
    PROVE  /\ Slice(text, 0, b) \in Seq(Cells)
           /\ Len(Slice(text, 0, b)) = b
           /\ \A i \in 1 .. b : Slice(text, 0, b)[i] = Cell(i - 1, text[i])
<1>1. /\ Slice(text, 0, b) \in Seq(Cells)
      /\ Len(Slice(text, 0, b)) = b - 0
      /\ \A i \in 1 .. b - 0 : Slice(text, 0, b)[i] = Cell(0 + i - 1, text[0 + i])
  <2>1. 0 \in Nat /\ 0 <= b
    OBVIOUS
  <2> QED BY <2>1, SliceIsSeq, Zenon
<1>2. b - 0 = b /\ \A i \in 1 .. b : 0 + i = i
  OBVIOUS
<1> QED BY <1>1, <1>2

(* The text up to a followed by its cells a .. b-1 is the text up to b. *)
LEMMA SliceExtends ==
    ASSUME NEW text \in Seq(Token), NEW a \in Nat, NEW b \in Nat, a <= b, b <= Len(text)
    PROVE  Slice(text, 0, a) \o Slice(text, a, b) = Slice(text, 0, b)
<1> DEFINE s == Slice(text, 0, a)
           t == Slice(text, a, b)
           u == Slice(text, 0, b)
<1>1. s \in Seq(Cells) /\ Len(s) = a /\ \A i \in 1 .. a : s[i] = Cell(i - 1, text[i])
  BY TextIsSeq
<1>2. t \in Seq(Cells) /\ Len(t) = b - a
      /\ \A i \in 1 .. b - a : t[i] = Cell(a + i - 1, text[a + i])
  BY SliceIsSeq
<1>3. u \in Seq(Cells) /\ Len(u) = b /\ \A i \in 1 .. b : u[i] = Cell(i - 1, text[i])
  BY TextIsSeq
<1> HIDE DEF s, t, u
<1>4. s \o t \in Seq(Cells) /\ Len(s \o t) = b
      /\ \A i \in 1 .. b : (s \o t)[i] = IF i <= a THEN s[i] ELSE t[i - a]
  <2>1. /\ s \o t \in Seq(Cells)
        /\ Len(s \o t) = Len(s) + Len(t)
        /\ \A i \in 1 .. Len(s) + Len(t) :
              (s \o t)[i] = IF i <= Len(s) THEN s[i] ELSE t[i - Len(s)]
    <3>1. s \in Seq(Cells) /\ t \in Seq(Cells)
      BY <1>1, <1>2
    <3> QED BY <3>1, ConcatProperties, Zenon
  <2>2. Len(s) = a /\ Len(s) + Len(t) = b
    BY <1>1, <1>2
  <2> QED BY <2>1, <2>2, Zenon
<1>5. ASSUME NEW i \in 1 .. b PROVE (s \o t)[i] = u[i]
  <2>1. CASE i <= a
    <3>1. i \in 1 .. a
      BY <2>1
    <3> QED BY <2>1, <3>1, <1>1, <1>3, <1>4
  <2>2. CASE ~ (i <= a)
    <3>1. i - a \in 1 .. b - a /\ (s \o t)[i] = t[i - a]
      BY <2>2, <1>4
    <3>2. t[i - a] = Cell(a + (i - a) - 1, text[a + (i - a)])
      BY <3>1, <1>2
    <3>3. a + (i - a) = i
      OBVIOUS
    <3> QED BY <3>1, <3>2, <3>3, <1>3
  <2> QED BY <2>1, <2>2
<1>6. s \o t = u
  BY <1>3, <1>4, <1>5, SeqEqual
<1> QED BY <1>6 DEF s, t, u

(* Texts that agree up to n have the same slices and cells up to n. *)
LEMMA PrefixHeld ==
    ASSUME NEW s \in Seq(Token), NEW p \in Seq(Token), NEW n \in Nat,
           n <= Len(s), n <= Len(p), \A i \in 1 .. n : s[i] = p[i]
    PROVE  Slice(s, 0, n) = Slice(p, 0, n) /\ Held(s, n) = Held(p, n)
<1>1. Slice(s, 0, n) = Slice(p, 0, n)
  BY DEF Slice
<1>2. Held(s, n) = Held(p, n)
  BY DEF Held
<1> QED BY <1>1, <1>2

(* Warming the companion over positions a .. b-1 of a text it held up to a   *)
(* makes it hold the text up to b.                                           *)
LEMMA WarmedHolds ==
    ASSUME NEW text \in Seq(Token), NEW a \in Nat, NEW b \in Nat, a <= b, b <= Len(text),
           comp \subseteq Cells, Below(comp, a) = Held(text, a), Warmed(text, a, b)
    PROVE  comp' \subseteq Cells /\ Below(comp', b) = Held(text, b)
<1>1. \A i \in 1 .. b : Cell(i - 1, text[i]) \in Cells
  BY DEF Cells
<1>2. comp' \subseteq Cells
  BY <1>1 DEF Warmed
<1>3. ASSUME NEW c \in comp', c.pos < b PROVE c \in Held(text, b)
  <2>1. CASE \E i \in a + 1 .. b : c = Cell(i - 1, text[i])
    <3>1. PICK i \in a + 1 .. b : c = Cell(i - 1, text[i])
      BY <2>1
    <3>2. i \in 1 .. b
      OBVIOUS
    <3> QED BY <3>1, <3>2 DEF Held
  <2>2. CASE c \in comp /\ c.pos \notin a .. b - 1
    <3>1. c.pos \in Nat /\ c.pos < a
      BY <2>2, <1>3 DEF Cells
    <3>2. c \in Held(text, a)
      BY <2>2, <3>1 DEF Below
    <3> QED BY <3>2 DEF Held
  <2> QED BY <2>1, <2>2 DEF Warmed
<1>4. ASSUME NEW c \in Held(text, b) PROVE c \in comp' /\ c.pos < b
  <2>1. PICK i \in 1 .. b : c = Cell(i - 1, text[i])
    BY DEF Held
  <2>2. CASE i <= a
    <3>0. i \in 1 .. a
      BY <2>2
    <3>1. c \in Below(comp, a)
      BY <2>1, <3>0 DEF Held
    <3>2. c \in comp /\ c.pos < a
      BY <3>1 DEF Below
    <3>3. c.pos \notin a .. b - 1
      BY <3>2
    <3> QED BY <2>1, <3>2, <3>3 DEF Warmed
  <2>3. CASE ~ (i <= a)
    <3>1. i \in a + 1 .. b
      BY <2>3
    <3>2. c \in comp'
      BY <2>1, <3>1 DEF Warmed
    <3> QED BY <2>1, <3>2
  <2> QED BY <2>2, <2>3
<1> QED BY <1>2, <1>3, <1>4 DEF Below

(* Nothing lies below position 0, and no cell of a text is needed there. *)
LEMMA NothingBelowZero ==
    ASSUME NEW text, comp \subseteq Cells
    PROVE  Slice(text, 0, 0) = <<>> /\ Below(comp, 0) = Held(text, 0)
<1>1. Slice(text, 0, 0) = <<>>
  BY DEF Slice
<1>2. Below(comp, 0) = {} /\ Held(text, 0) = {}
  BY DEF Below, Held, Cells
<1> QED BY <1>1, <1>2

(* A chunk is never empty and ends within the prompt. *)
LEMMA ChunkEndWithin ==
    ASSUME TypeOK, pos < Len(prompt)
    PROVE  ChunkEnd \in pos + 1 .. Len(prompt)
BY ReuseAssumption DEF ChunkEnd, TypeOK

-----------------------------------------------------------------------------
(* Each action keeps the invariant. *)

LEMMA AskKeeps ==
    ASSUME IInv, NEW p \in Prompts, NEW b \in 0 .. Len(p), NEW again \in BOOLEAN,
           Ask(p, b, again)
    PROVE  IInv'
<1>1. p \in Seq(Token) /\ b \in Nat
  BY ReuseAssumption
<1>2. target' = <<>> /\ pos' = 0 /\ chunk' = 0 /\ pending' = {} /\ comp' = comp
      /\ prompt' = p /\ snap' = snap /\ pc' \in {"restoring", "prefill"}
  BY DEF Ask
<1>3. TypeOK'
  BY <1>1 DEF Ask, IInv, TypeOK
<1>4. Slice(p, 0, 0) = <<>> /\ Below(comp, 0) = Held(p, 0)
  BY NothingBelowZero DEF IInv, TypeOK
<1>5. ReuseIsExact' /\ SnapshotWhole'
  BY <1>2 DEF ReuseIsExact, SnapshotWhole, Whole, IInv
<1>6. pc' = "restoring" => \E s \in snap' : Prefixes(s.text, prompt')
  BY DEF Ask
<1> QED BY <1>2, <1>3, <1>4, <1>5, <1>6 DEF IInv

LEMMA RestoreTargetKeeps ==
    ASSUME IInv, RestoreTarget
    PROVE  IInv'
<1>1. PICK s \in snap : \/ target' = s.target /\ restored' = TRUE
                        \/ target' = target /\ restored' = FALSE
  BY DEF RestoreTarget
<1>2. s \in Snapshots /\ \A t \in snap : t = s
  BY DEF IInv, TypeOK
<1>3. TypeOK'
  BY <1>1, <1>2 DEF RestoreTarget, request, IInv, TypeOK, Snapshots
<1>4. ReuseIsExact' /\ SnapshotWhole' /\ \A t \in pending' : Whole(t)
  BY DEF RestoreTarget, ReuseIsExact, SnapshotWhole, Whole, IInv
<1>5. IF restored' THEN \A t \in snap' : target' = t.target ELSE target' = <<>>
  BY <1>1, <1>2 DEF RestoreTarget, IInv
<1> QED BY <1>3, <1>4, <1>5 DEF RestoreTarget, request, IInv

LEMMA RestoreCompanionKeeps ==
    ASSUME IInv, ClearsOnFallback, NEW okC \in BOOLEAN, RestoreCompanion(okC)
    PROVE  IInv'
<1>1. pc = "restoringCompanion" /\ pc' = "prefill" /\ prompt' = prompt /\ chunk' = 0
      /\ snap' = snap /\ pending' = {}
  BY DEF RestoreCompanion, FallBack, IInv
<1>2. PICK s \in snap : Prefixes(s.text, prompt)
  BY <1>1 DEF IInv
<1>3. s \in Snapshots /\ Whole(s) /\ \A t \in snap : t = s
  BY DEF IInv, TypeOK, SnapshotWhole
<1>4. s.text \in Seq(Token) /\ s.comp \subseteq Cells /\ prompt \in Seq(Token)
      /\ s.target \in Seq(Cells) /\ Len(s.text) \in 0 .. Len(prompt)
  BY <1>2, <1>3 DEF Snapshots, IInv, TypeOK, Prefixes
<1>5. comp' \subseteq Cells
  BY <1>3, <1>4 DEF RestoreCompanion, IInv, TypeOK
<1>6. /\ pos' \in 0 .. Len(prompt) /\ target' \in Seq(Cells) /\ reuse' \in BOOLEAN
      /\ target' = Slice(prompt, 0, pos') /\ Below(comp', pos') = Held(prompt, pos')
  <2>1. CASE Both(okC)
    <3>1. comp' = s.comp /\ pos' = Len(s.text) /\ target' = target /\ reuse' = reuse
      BY <2>1, <1>3 DEF RestoreCompanion, Both
    <3>2. target = s.target
      BY <2>1, <1>1 DEF IInv, Both
    <3>3. /\ Slice(s.text, 0, Len(s.text)) = Slice(prompt, 0, Len(s.text))
          /\ Held(s.text, Len(s.text)) = Held(prompt, Len(s.text))
      <4>1. Len(s.text) \in Nat /\ Len(s.text) <= Len(s.text) /\ Len(s.text) <= Len(prompt)
        BY <1>4
      <4>2. \A i \in 1 .. Len(s.text) : s.text[i] = prompt[i]
        BY <1>2 DEF Prefixes
      <4> QED BY <1>4, <4>1, <4>2, PrefixHeld, Zenon
    <3>4. /\ s.target = Slice(s.text, 0, Len(s.text))
          /\ Below(s.comp, Len(s.text)) = Held(s.text, Len(s.text))
      BY <1>3 DEF Whole
    <3>5. target' = Slice(prompt, 0, pos') /\ Below(comp', pos') = Held(prompt, pos')
      BY <3>1, <3>2, <3>3, <3>4
    <3>6. reuse \in BOOLEAN
      BY DEF IInv, TypeOK
    <3> QED BY <3>1, <3>2, <3>5, <3>6, <1>4
  <2>2. CASE ~ Both(okC)
    <3>1. target' = <<>> /\ pos' = 0 /\ reuse' = FALSE
      BY <2>2, <1>3 DEF RestoreCompanion, FallBack
    <3>2. Slice(prompt, 0, 0) = <<>>
      BY NothingBelowZero DEF IInv, TypeOK
    <3>3. Below(comp', 0) = {} /\ Held(prompt, 0) = {}
      BY <1>5 DEF Below, Held, Cells
    <3>4. 0 \in 0 .. Len(prompt) /\ <<>> \in Seq(Cells)
      BY <1>4
    <3>5. target' = Slice(prompt, 0, pos')
      BY <3>1, <3>2
    <3>6. Below(comp', pos') = Held(prompt, pos')
      BY <3>1, <3>3
    <3> QED BY <3>1, <3>4, <3>5, <3>6
  <2> QED BY <2>1, <2>2
<1>7. TypeOK'
  BY <1>1, <1>5, <1>6 DEF RestoreCompanion, IInv, TypeOK
<1>8. ReuseIsExact' /\ SnapshotWhole'
  BY <1>1 DEF ReuseIsExact, SnapshotWhole, Whole, IInv
<1> QED BY <1>1, <1>6, <1>7, <1>8 DEF IInv

LEMMA DecodeChunkKeeps ==
    ASSUME IInv, DecodeChunk
    PROVE  IInv'
<1>1. ChunkEnd \in pos + 1 .. Len(prompt) /\ prompt \in Seq(Token) /\ pos \in Nat
  BY ChunkEndWithin DEF DecodeChunk, IInv, TypeOK
<1>2. ChunkEnd' = ChunkEnd
  BY DEF DecodeChunk, request, ChunkEnd
<1>3. target = Slice(prompt, 0, pos)
  BY DEF DecodeChunk, IInv
<1>4. target \o Slice(prompt, pos, ChunkEnd) = Slice(prompt, 0, ChunkEnd)
  <2>1. ChunkEnd \in Nat /\ pos <= ChunkEnd /\ ChunkEnd <= Len(prompt)
    BY <1>1
  <2> QED BY <1>1, <1>3, <2>1, SliceExtends
<1>5. Slice(prompt, 0, ChunkEnd) \in Seq(Cells)
  BY <1>1, SliceIsSeq
<1>6. \/ target' = Slice(prompt, 0, ChunkEnd) /\ tip' = target' /\ pc' = "warming"
      \/ pc' = "failed" /\ UNCHANGED <<target, tip>>
  BY <1>4 DEF DecodeChunk, Decode
<1>7. TypeOK'
  BY <1>5, <1>6 DEF DecodeChunk, request, IInv, TypeOK
<1>8. ReuseIsExact' /\ SnapshotWhole' /\ \A t \in pending' : Whole(t)
  BY <1>6 DEF DecodeChunk, ReuseIsExact, SnapshotWhole, Whole, IInv
<1> QED BY <1>2, <1>6, <1>7, <1>8 DEF DecodeChunk, request, IInv

LEMMA WarmChunkKeeps ==
    ASSUME IInv, WarmChunk
    PROVE  IInv'
<1> DEFINE end == ChunkEnd
<1>1. end \in pos + 1 .. Len(prompt) /\ prompt \in Seq(Token) /\ pos \in Nat
      /\ pos < Len(prompt) /\ comp \subseteq Cells
  BY ChunkEndWithin DEF WarmChunk, IInv, TypeOK
<1>2. target = Slice(prompt, 0, end) /\ tip = target /\ Below(comp, pos) = Held(prompt, pos)
  BY DEF WarmChunk, IInv
<1>3. CASE pc' = "failed" /\ UNCHANGED <<comp, chunk, pos, pending>>
  <2>1. TypeOK'
    BY <1>3 DEF WarmChunk, request, IInv, TypeOK
  <2>2. ReuseIsExact' /\ SnapshotWhole' /\ \A t \in pending' : Whole(t)
    BY <1>3 DEF WarmChunk, ReuseIsExact, SnapshotWhole, Whole, IInv
  <2> QED BY <2>1, <2>2, <1>3 DEF IInv
<1>4. CASE /\ Warmed(prompt, pos, end)
           /\ chunk' = end - pos /\ pos' = end /\ pc' = "prefill"
           /\ pending' = IF end = captureAt THEN {Snapshot(end, comp')} ELSE pending
  <2> HIDE DEF end
  <2>1. comp' \subseteq Cells /\ Below(comp', end) = Held(prompt, end)
    BY <1>1, <1>2, <1>4, WarmedHolds
  <2>2. UNCHANGED <<target, tip, snap, request, restored>>
    BY DEF WarmChunk
  <2> DEFINE s == [text |-> SubSeq(prompt, 1, end), target |-> target, comp |-> comp']
  <2>3. s \in Snapshots /\ Whole(s)
    <3>1. s.text \in Seq(Token) /\ Len(s.text) = end /\ \A i \in 1 .. end : s.text[i] = prompt[i]
      BY <1>1
    <3>2. Slice(s.text, 0, end) = Slice(prompt, 0, end) /\ Held(s.text, end) = Held(prompt, end)
      <4> HIDE DEF s
      <4> QED BY <3>1, <1>1, PrefixHeld
    <3>3. Whole(s)
      BY <3>1, <3>2, <1>2, <2>1 DEF Whole, end
    <3> QED BY <3>1, <3>3, <2>1 DEF Snapshots, IInv, TypeOK
  <2> HIDE DEF s
  <2>4. pending' = {s} \/ pending' = pending
    BY <1>4 DEF Snapshot, s
  <2>5. TypeOK'
    BY <1>1, <1>4, <2>1, <2>2, <2>3, <2>4 DEF request, IInv, TypeOK
  <2>6. \A t \in pending' : Whole(t)
    BY <2>3, <2>4 DEF IInv
  <2>7. ReuseIsExact' /\ SnapshotWhole'
    BY <1>4, <2>2 DEF ReuseIsExact, SnapshotWhole, Whole, IInv
  <2> QED BY <1>2, <1>4, <2>1, <2>2, <2>5, <2>6, <2>7 DEF IInv, Whole, request, end
<1> QED BY <1>3, <1>4 DEF WarmChunk

LEMMA FinalizeKeeps ==
    ASSUME IInv, Finalize
    PROVE  IInv'
<1>1. pc = "prefill" /\ pos = Len(prompt)
      /\ UNCHANGED <<caches, pending, request, restored, pos, chunk>>
      /\ pc' \in {"ready", "failed"} /\ (snap' = snap \/ snap' = pending)
  BY DEF Finalize
<1>2. TypeOK'
  BY <1>1 DEF caches, request, IInv, TypeOK
<1>3. SnapshotWhole' /\ \A t \in pending' : Whole(t)
  BY <1>1 DEF IInv, SnapshotWhole, Whole
<1>4. ReuseIsExact'
  <2>1. pc' = "ready" => chunk > 0
    BY DEF Finalize, Finalizable, IInv, TypeOK
  <2> QED BY <1>1, <2>1 DEF ReuseIsExact, caches, request, IInv
<1> QED BY <1>1, <1>2, <1>3, <1>4 DEF IInv, Whole

LEMMA GenerateKeeps ==
    ASSUME IInv, NEW answer \in Answers, Generate(answer)
    PROVE  IInv'
<1> DEFINE n == Len(prompt)
           text == prompt \o answer
<1>1. PICK k \in 0 .. MaxAnswer : answer \in [1 .. k -> Token]
  BY DEF Answers
<1>2. answer \in Seq(Token) /\ Len(answer) = k /\ k \in Nat
  BY <1>1, ReuseAssumption
<1>3. prompt \in Seq(Token) /\ n \in Nat /\ text \in Seq(Token) /\ Len(text) = n + k
  <2>1. prompt \in Seq(Token)
    BY DEF IInv, TypeOK
  <2>2. text \in Seq(Token) /\ Len(text) = Len(prompt) + Len(answer)
    BY <1>2, <2>1, ConcatProperties
  <2> QED BY <1>2, <2>1, <2>2
<1> HIDE DEF n, text
<1>4. Slice(text, n, n + k) \in Seq(Cells)
  BY <1>2, <1>3, SliceIsSeq
<1>5. target' = target \o Slice(text, n, n + k) /\ tip' = target'
  BY <1>2 DEF Generate, Decode, n, text
<1>6. target' \in Seq(Cells) /\ tip' \in Seq(Cells)
  BY <1>4, <1>5 DEF IInv, TypeOK
<1>7. PICK m \in 0 .. k : Warmed(text, n, n + m)
  BY <1>2 DEF Generate, n, text
<1>8. comp' \subseteq Cells
  <2>1. \A i \in n + 1 .. n + m : Cell(i - 1, text[i]) \in Cells
    BY <1>2, <1>3, <1>7 DEF Cells
  <2> QED BY <2>1, <1>7 DEF Warmed, IInv, TypeOK
<1>9. TypeOK'
  BY <1>6, <1>8 DEF Generate, request, IInv, TypeOK
<1>10. ReuseIsExact' /\ SnapshotWhole' /\ \A t \in pending' : Whole(t)
  BY DEF Generate, ReuseIsExact, SnapshotWhole, Whole, IInv
<1> QED BY <1>9, <1>10 DEF Generate, IInv

(* IInv holds of every reachable state.                                      *)
THEOREM Inductive ==
    ASSUME ClearsOnFallback
    PROVE  Spec => []IInv
<1>1. Init => IInv
  <2> SUFFICES ASSUME Init PROVE IInv
    OBVIOUS
  <2>1. <<>> \in Seq(Cells) /\ <<>> \in Seq(Token) /\ Len(prompt) = 0
    BY DEF Init
  <2>2. TypeOK
    <3>1. pos \in 0 .. Len(prompt)
      BY <2>1 DEF Init
    <3> QED BY <2>1, <3>1 DEF Init, TypeOK
  <2> QED BY <2>2 DEF Init, IInv, ReuseIsExact, SnapshotWhole
<1>2. IInv /\ [Next]_vars => IInv'
  <2> SUFFICES ASSUME IInv, [Next]_vars PROVE IInv'
    OBVIOUS
  <2>1. CASE \E p \in Prompts : \E b \in 0 .. Len(p), again \in BOOLEAN : Ask(p, b, again)
    BY <2>1, AskKeeps
  <2>2. CASE RestoreTarget
    BY <2>2, RestoreTargetKeeps
  <2>3. CASE \E okC \in BOOLEAN : RestoreCompanion(okC)
    BY <2>3, RestoreCompanionKeeps
  <2>4. CASE DecodeChunk
    BY <2>4, DecodeChunkKeeps
  <2>5. CASE WarmChunk
    BY <2>5, WarmChunkKeeps
  <2>6. CASE Finalize
    BY <2>6, FinalizeKeeps
  <2>7. CASE \E answer \in Answers : Generate(answer)
    BY <2>7, GenerateKeeps
  <2>8. CASE GiveUp
    <3>1. TypeOK'
      BY <2>8 DEF GiveUp, caches, request, IInv, TypeOK
    <3>2. ReuseIsExact' /\ SnapshotWhole' /\ \A t \in pending' : Whole(t)
      BY <2>8 DEF GiveUp, caches, request, ReuseIsExact, SnapshotWhole, Whole, IInv
    <3> QED BY <2>8, <3>1, <3>2 DEF GiveUp, IInv
  <2>9. CASE UNCHANGED vars
    <3>1. UNCHANGED <<target, comp, tip, snap, pending, prompt, reuse, captureAt, asked,
                      restored, pos, chunk, pc>>
      BY <2>9 DEF vars, caches, request
    <3>2. TypeOK'
      BY <3>1 DEF IInv, TypeOK
    <3>3. ReuseIsExact' /\ SnapshotWhole' /\ \A t \in pending' : Whole(t)
      BY <3>1 DEF ReuseIsExact, SnapshotWhole, Whole, IInv
    <3>4. ChunkEnd' = ChunkEnd
      BY <3>1 DEF ChunkEnd
    <3> QED BY <3>1, <3>2, <3>3, <3>4 DEF IInv
  <2> QED BY <2>1, <2>2, <2>3, <2>4, <2>5, <2>6, <2>7, <2>8, <2>9 DEF Next, Prefill
<1> QED BY <1>1, <1>2, PTL DEF Spec

(* Reuse changes no token: a generation starts from its own prompt in both   *)
(* caches, whatever was restored, whichever half of a restore failed and     *)
(* wherever chunks were cut.                                                 *)
THEOREM ReuseExact ==
    ASSUME ClearsOnFallback
    PROVE  Spec => []ReuseIsExact
<1>1. IInv => ReuseIsExact
  BY DEF IInv
<1> QED BY <1>1, Inductive, PTL

(* The snapshot a caller holds is contemporaneous: both halves stand at the  *)
(* end of the prefix it is kept for.                                         *)
THEOREM SnapshotsWhole ==
    ASSUME ClearsOnFallback
    PROVE  Spec => []SnapshotWhole
<1>1. IInv => SnapshotWhole
  BY DEF IInv
<1> QED BY <1>1, Inductive, PTL

-----------------------------------------------------------------------------
(* What a request was asked to capture and to spare. *)

(* Before the snapshot point, or with the snapshot taken, or from a snapshot  *)
(* that was already there.                                                   *)
Captured ==
    \/ captureAt = 0 \/ captureAt > pos
    \/ \E s \in pending : Prefixes(s.text, prompt) /\ Len(s.text) = captureAt
    \/ /\ pending = {} /\ reuse
       /\ \E s \in snap : Prefixes(s.text, prompt) /\ Len(s.text) >= captureAt

Settled ==
    /\ captureAt <= Len(prompt) /\ CaptureHonoured
    /\ pc \in {"restoring", "restoringCompanion"} => reuse
    /\ pc \in {"prefill", "warming"} =>
           Captured /\ (reuse => \E s \in snap : Len(s.text) <= pos)

LEMMA RestoreCompanionSettles ==
    ASSUME IInv, Settled, NEW okC \in BOOLEAN, RestoreCompanion(okC)
    PROVE  Settled'
<1>1. /\ pc = "restoringCompanion" /\ pc' = "prefill" /\ pending = {}
      /\ UNCHANGED <<snap, pending, prompt, captureAt>>
  BY DEF RestoreCompanion, FallBack, IInv
<1>2. CASE reuse' = FALSE /\ pos' = 0
  <2>1. captureAt \in Nat
    BY DEF IInv, TypeOK
  <2>2. Captured'
    BY <1>1, <1>2, <2>1 DEF Captured
  <2> QED BY <1>1, <1>2, <2>2 DEF Settled, CaptureHonoured
<1>3. ASSUME NEW s \in snap, pos' = Len(s.text), reuse' = reuse
      PROVE  Settled'
  <2>1. Prefixes(s.text, prompt) /\ Len(s.text) \in Nat /\ captureAt \in Nat
    BY <1>1 DEF IInv, TypeOK, Snapshots
  <2>2. reuse
    BY <1>1 DEF Settled
  <2>3. Captured'
    BY <1>1, <1>3, <2>1, <2>2 DEF Captured, Prefixes
  <2>4. \E t \in snap' : Len(t.text) <= pos'
    BY <1>1, <1>3, <2>1
  <2> QED BY <1>1, <2>3, <2>4 DEF Settled, CaptureHonoured
<1> QED BY <1>2, <1>3 DEF RestoreCompanion, FallBack

LEMMA WarmChunkSettles ==
    ASSUME IInv, Settled, WarmChunk
    PROVE  Settled'
<1> DEFINE end == ChunkEnd
<1>1. /\ end \in pos + 1 .. Len(prompt) /\ prompt \in Seq(Token) /\ pos \in Nat
      /\ captureAt \in Nat /\ pc = "warming" /\ Captured
      /\ reuse => \E s \in snap : Len(s.text) <= pos
      /\ snap \subseteq Snapshots
  BY ChunkEndWithin DEF WarmChunk, IInv, TypeOK, Settled
<1>2. UNCHANGED <<snap, prompt, reuse, captureAt>> /\ pc' # "ready"
  BY DEF WarmChunk, request
<1>3. CASE pc' = "failed"
  BY <1>2, <1>3 DEF Settled, CaptureHonoured
<1>4. CASE /\ pos' = end /\ pc' = "prefill"
           /\ pending' = IF end = captureAt THEN {Snapshot(end, comp')} ELSE pending
  <2>1. captureAt > pos => end <= captureAt
    BY <1>1 DEF ChunkEnd
  <2> HIDE DEF end
  <2>2. ASSUME reuse PROVE \E s \in snap : Len(s.text) <= end
    <3>1. PICK s \in snap : Len(s.text) <= pos
      BY <1>1, <2>2
    <3>2. Len(s.text) \in Nat
      BY <1>1 DEF Snapshots
    <3> QED BY <1>1, <3>1, <3>2
  <2>3. CASE end = captureAt
    <3> DEFINE s == Snapshot(end, comp')
    <3>1. s.text = SubSeq(prompt, 1, end)
      BY DEF Snapshot
    <3>2. Len(s.text) = end /\ Prefixes(s.text, prompt)
      BY <1>1, <3>1 DEF Prefixes
    <3> HIDE DEF s
    <3>3. pending' = {s}
      BY <1>4, <2>3 DEF s
    <3>4. Captured'
      BY <1>2, <2>3, <3>2, <3>3 DEF Captured, Prefixes
    <3> QED BY <1>2, <1>4, <2>2, <3>4 DEF Settled, CaptureHonoured
  <2>4. CASE end # captureAt
    <3>1. pending' = pending /\ (captureAt > pos => captureAt > end)
      BY <1>1, <1>4, <2>1, <2>4
    <3>2. Captured'
      BY <1>1, <1>2, <1>4, <3>1 DEF Captured, Prefixes
    <3> QED BY <1>2, <1>4, <2>2, <3>2 DEF Settled, CaptureHonoured
  <2> QED BY <2>3, <2>4
<1> QED BY <1>3, <1>4 DEF WarmChunk

LEMMA FinalizeSettles ==
    ASSUME IInv, Settled, Finalize
    PROVE  Settled'
<1>1. /\ pc = "prefill" /\ pos = Len(prompt) /\ Captured /\ captureAt <= Len(prompt)
      /\ UNCHANGED <<prompt, reuse, captureAt>> /\ captureAt \in Nat
      /\ prompt \in Seq(Token) /\ snap \subseteq Snapshots
  BY DEF Finalize, Settled, request, IInv, TypeOK
<1>2. CASE pc' = "failed"
  BY <1>1, <1>2 DEF Settled, CaptureHonoured
<1>3. CASE pc' = "ready"
  <2>1. snap' = IF pending = {} THEN snap ELSE pending
    BY <1>3 DEF Finalize
  <2>2. ASSUME captureAt > 0
        PROVE  \E s \in snap' :
                   /\ Prefixes(s.text, prompt)
                   /\ Len(s.text) = captureAt \/ (reuse /\ Len(s.text) > captureAt)
    <3>1. ~ (captureAt > pos) /\ captureAt # 0
      BY <1>1, <2>2
    <3>2. CASE \E s \in pending : Prefixes(s.text, prompt) /\ Len(s.text) = captureAt
      BY <2>1, <3>2
    <3>3. CASE /\ pending = {} /\ reuse
               /\ \E s \in snap : Prefixes(s.text, prompt) /\ Len(s.text) >= captureAt
      <4>1. PICK s \in snap : Prefixes(s.text, prompt) /\ Len(s.text) >= captureAt
        BY <3>3
      <4>2. Len(s.text) \in Nat
        BY <1>1 DEF Snapshots
      <4> QED BY <1>1, <2>1, <3>3, <4>1, <4>2
    <3> QED BY <1>1, <3>1, <3>2, <3>3 DEF Captured
  <2>3. CaptureHonoured'
    BY <1>1, <2>2 DEF CaptureHonoured, Prefixes
  <2> QED BY <1>1, <1>3, <2>3 DEF Settled
<1> QED BY <1>2, <1>3 DEF Finalize

LEMMA SettledNext ==
    ASSUME IInv, Settled, [Next]_vars
    PROVE  Settled'
<1>1. ASSUME NEW p \in Prompts, NEW b \in 0 .. Len(p), NEW again \in BOOLEAN, Ask(p, b, again)
      PROVE  Settled'
  <2>1. p \in Seq(Token) /\ b \in Nat /\ b <= Len(p)
    BY ReuseAssumption
  <2> QED BY <1>1, <2>1 DEF Ask, Settled, CaptureHonoured, Captured
<1>2. CASE RestoreTarget
  BY <1>2 DEF RestoreTarget, request, Settled, CaptureHonoured
<1>3. CASE \E okC \in BOOLEAN : RestoreCompanion(okC)
  BY <1>3, RestoreCompanionSettles
<1>4. CASE DecodeChunk
  BY <1>4 DEF DecodeChunk, request, Settled, CaptureHonoured, Captured, Prefixes
<1>5. CASE WarmChunk
  BY <1>5, WarmChunkSettles
<1>6. CASE Finalize
  BY <1>6, FinalizeSettles
<1>7. CASE \E answer \in Answers : Generate(answer)
  BY <1>7 DEF Generate, request, Settled, CaptureHonoured
<1>8. CASE GiveUp
  BY <1>8 DEF GiveUp, request, Settled, CaptureHonoured
<1>9. CASE UNCHANGED vars
  BY <1>9 DEF vars, request, Settled, CaptureHonoured, Captured, Prefixes
<1> QED BY <1>1, <1>2, <1>3, <1>4, <1>5, <1>6, <1>7, <1>8, <1>9 DEF Next, Prefill

LEMMA SettledInit == Init => Settled
BY DEF Init, Settled, CaptureHonoured

(* A prefill asked for a snapshot has it when it ends, at the length asked    *)
(* for, whatever chunk sizes and restores came before.                       *)
THEOREM SnapshotTaken ==
    ASSUME ClearsOnFallback
    PROVE  Spec => []CaptureHonoured
<1>1. Settled => CaptureHonoured
  BY DEF Settled
<1>2. IInv /\ Settled /\ [Next]_vars => Settled'
  BY SettledNext
<1> QED BY <1>1, <1>2, SettledInit, Inductive, PTL DEF Spec

(* A request that reuses decodes no position its snapshot covers.             *)
THEOREM SparesPrefix ==
    ASSUME ClearsOnFallback
    PROVE  Spec => PrefixSpared
<1>1. IInv /\ Settled /\ [Next]_vars =>
          [ reuse /\ pc = "prefill" /\ pc' = "warming" =>
              \E s \in snap : Len(s.text) <= pos /\ Len(target) = pos ]_vars
  <2> SUFFICES ASSUME IInv, Settled, reuse, pc = "prefill"
               PROVE  \E s \in snap : Len(s.text) <= pos /\ Len(target) = pos
    OBVIOUS
  <2>1. \E s \in snap : Len(s.text) <= pos
    BY DEF Settled
  <2>2. /\ target = Slice(prompt, 0, pos) /\ prompt \in Seq(Token)
        /\ pos \in Nat /\ pos <= Len(prompt)
    BY DEF IInv, TypeOK
  <2>3. Len(target) = pos
    BY <2>2, TextIsSeq
  <2> QED BY <2>1, <2>3
<1>2. IInv /\ Settled /\ [Next]_vars => Settled'
  BY SettledNext
<1> QED BY <1>1, <1>2, SettledInit, Inductive, PTL DEF Spec, PrefixSpared

=============================================================================
