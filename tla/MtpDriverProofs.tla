--------------------------- MODULE MtpDriverProofs ---------------------------
(***************************************************************************)
(* Proofs about MtpDriver for every context size, batch size, draft length *)
(* and prompt, for a caller that ends a generation at its first error; at   *)
(* the end, that its rounds do what plain decoding does: every step is a    *)
(* step of Decoding or leaves it alone, a commit hands over what it         *)
(* committed, and the sampler has heard what was emitted.                   *)
(***************************************************************************)
EXTENDS MtpDriver, SequenceTheorems, Induction

USE DEF Nowhere, Cell, Cells

-----------------------------------------------------------------------------
(* Lemmas about texts and the caches that hold them. *)

(* A cell is in a text exactly when its position is, with that position's token. *)
LEMMA TextCells ==
    ASSUME NEW n \in Nat, gen \in Nat, NEW c
    PROVE  /\ c \in Text(n) <=> \E p \in 0 .. n - 1 : c = Cell(p, Tok(p))
           /\ c \in Text(n) => c \in CacheCells /\ c.pos < n /\ c.tok = Tok(c.pos)
BY DEF Text, CacheCells, Tokens, Tok

(* Cutting a text at m leaves the text of length m. *)
LEMMA UptoText ==
    ASSUME NEW n \in Nat, NEW m \in Nat, m <= n, gen \in Nat
    PROVE  Upto(Text(n), m) = Text(m)
BY DEF Upto, Text, Tok

(* Right cells added above a text of length n do not disturb what is below. *)
LEMMA UptoUnion ==
    ASSUME NEW n \in Nat, NEW m \in Nat,
           NEW extra \in SUBSET CacheCells, \A c \in extra : c.pos >= n, m <= n, gen \in Nat
    PROVE  Upto(Text(n) \cup extra, m) = Text(m)
<1>1. \A c \in extra : ~ (c.pos < m)
  BY DEF CacheCells
<1>2. Upto(Text(n) \cup extra, m) = Upto(Text(n), m)
  BY <1>1 DEF Upto
<1> QED BY <1>2, UptoText

(* A text of length n followed by the k right cells after it is a text. *)
LEMMA TextExtends ==
    ASSUME NEW n \in Nat, NEW k \in Nat, gen \in Nat
    PROVE  Text(n) \cup {Cell(n + i - 1, Tok(n + i - 1)) : i \in 1 .. k} = Text(n + k)
<1> DEFINE after == {Cell(n + i - 1, Tok(n + i - 1)) : i \in 1 .. k}
<1>2. ASSUME NEW c \in Text(n + k)
      PROVE  c \in Text(n) \cup after
  <2>1. PICK p \in 0 .. n + k - 1 : c = Cell(p, Tok(p))
    BY DEF Text
  <2>2. CASE p < n
    BY <2>1, <2>2 DEF Text
  <2>3. CASE p >= n
    <3>1. p - n + 1 \in 1 .. k /\ n + (p - n + 1) - 1 = p
      BY <2>3
    <3> QED BY <2>1, <3>1
  <2> QED BY <2>2, <2>3
<1>3. Text(n) \cup {Cell(n + i - 1, Tok(n + i - 1)) : i \in 1 .. k} \subseteq Text(n + k)
  BY DEF Text, Tok
<1> QED BY <1>2, <1>3

(* Overwriting positions n .. m - 1 with the right text makes a cache that    *)
(* was right below n right below m.                                          *)
LEMMA OverwriteText ==
    ASSUME NEW n \in Nat, NEW m \in Nat, n <= m, gen \in Nat,
           comp \subseteq CacheCells, Upto(comp, n) = Text(n),
           NEW cells, cells = {c \in Text(m) : c.pos >= n}, Overwrite(cells)
    PROVE  comp' \subseteq CacheCells /\ Upto(comp', m) = Text(m)
<1>1. \A c \in Text(m) : c \in CacheCells /\ c.pos \in 0 .. m - 1 /\ c = Cell(c.pos, Tok(c.pos))
  BY DEF Text, CacheCells, Tokens, Tok
<1>2. \A p \in 0 .. m - 1 : Cell(p, Tok(p)) \in Text(m)
  BY DEF Text
<1>3. \A c \in comp : c \in CacheCells /\ (c.pos < n <=> c \in Text(n))
  BY <1>1 DEF Upto, Text, CacheCells
<1>4. comp' \subseteq CacheCells
  BY <1>1 DEF Overwrite
<1>5. ASSUME NEW c \in comp', c.pos < m
      PROVE  c \in Text(m)
  <2>1. CASE c \in cells
    BY <2>1
  <2>2. CASE c \notin cells
    <3>1. c \in comp /\ \A d \in cells : d.pos # c.pos
      BY <2>2, <1>5 DEF Overwrite
    <3>2. c.pos < n
      <4>1. SUFFICES ASSUME c.pos >= n PROVE FALSE
        BY <1>3, <3>1 DEF CacheCells
      <4>2. c.pos \in 0 .. m - 1
        BY <1>5, <4>1, <1>3, <3>1 DEF CacheCells
      <4>3. Cell(c.pos, Tok(c.pos)) \in cells
        BY <1>2, <4>1, <4>2
      <4> QED BY <3>1, <4>3
    <3> QED BY <3>1, <3>2, <1>3 DEF Text
  <2> QED BY <2>1, <2>2
<1>6. ASSUME NEW c \in Text(m)
      PROVE  c \in comp' /\ c.pos < m
  <2>1. CASE c.pos >= n
    BY <2>1, <1>1 DEF Overwrite
  <2>2. CASE ~ (c.pos >= n)
    <3>1. c \in Text(n)
      BY <1>1, <2>2 DEF Text
    <3>2. c \in comp /\ \A d \in cells : d.pos # c.pos
      BY <3>1, <2>2 DEF Upto
    <3> QED BY <3>2, <1>1 DEF Overwrite
  <2> QED BY <2>1, <2>2
<1> QED BY <1>4, <1>5, <1>6 DEF Upto

(* What the target draws after position p of a right text. *)
LEMMA PredictRight ==
    ASSUME NEW cells, NEW p \in Nat, Upto(cells, p + 1) = Text(p + 1)
    PROVE  Predict(cells, p) = Tok(p + 1)
BY DEF Predict

(* A function on 1 .. n is a sequence of length n. *)
LEMMA FunctionIsSeq ==
    ASSUME NEW S, NEW n \in Nat, NEW f \in [1 .. n -> S]
    PROVE  f \in Seq(S) /\ Len(f) = n
OBVIOUS

(* Decoding a batch yields one typed row per token, at the token's position. *)
LEMMA DecodeRows ==
    ASSUME TypeOK, NEW n \in Nat, NEW batch \in [1 .. n -> CacheCells], Decode(batch)
    PROVE  /\ kv' \subseteq CacheCells /\ rec' \subseteq CacheCells
           /\ rows' \in Seq([pos : Nat, next : Tokens]) /\ Len(rows') = n
           /\ \A i \in 1 .. n :
                 rows'[i] = [pos |-> batch[i].pos,
                             next |-> Predict(kv \cup rec \cup Cells(batch), batch[i].pos)]
<1>1. Len(batch) = n
  OBVIOUS
<1>2. \A cells, p : p \in Nat => Predict(cells, p) \in Tokens
  BY DEF Predict, Tok, Tokens, Wrong, TypeOK
<1>3. \A i \in 1 .. n : batch[i].pos \in Nat
  BY DEF CacheCells
<1>4. Cells(batch) \subseteq CacheCells
  BY <1>1
<1>5. rows' = [i \in 1 .. n |-> [pos |-> batch[i].pos,
                  next |-> Predict(kv \cup rec \cup Cells(batch), batch[i].pos)]]
  BY <1>1 DEF Decode
<1>6. rows' \in [1 .. n -> [pos : Nat, next : Tokens]]
  BY <1>2, <1>3, <1>5
<1>7. rows' \in Seq([pos : Nat, next : Tokens]) /\ Len(rows') = n
  <2> DEFINE Row == [pos : Nat, next : Tokens]
  <2>1. rows' \in [1 .. n -> Row]
    BY <1>6
  <2> HIDE DEF Row
  <2>2. rows' \in Seq(Row) /\ Len(rows') = n
    BY <2>1, FunctionIsSeq
  <2> QED BY <2>2 DEF Row
<1>8. kv' \subseteq CacheCells /\ rec' \subseteq CacheCells
  BY <1>4 DEF Decode, TypeOK
<1> QED BY <1>5, <1>7, <1>8

-----------------------------------------------------------------------------
(* The initial states and the steps preserve IInv: one lemma per action. *)

LEMMA InitIInv == Init => IInv
<1> SUFFICES ASSUME Init PROVE IInv
  OBVIOUS
<1>1. \A S : <<>> \in Seq(S)
  OBVIOUS
<1>2. haveCarry \in BOOLEAN /\ ckpt \in BOOLEAN /\ fromCarry \in BOOLEAN
  BY DEF Init
<1>3. TypeOK
  BY <1>1, <1>2 DEF Init, TypeOK, Calls, Tokens, CacheCells, Wrong
<1> QED BY <1>3 DEF Init, IInv, EmittedIsContinuation

LEMMA StutterIInv == ASSUME IInv, UNCHANGED vars PROVE IInv'
<1> USE DEF vars, target, companion, round, prefill
<1>1. TypeOK' /\ EmittedIsContinuation'
  BY DEF IInv, TypeOK, EmittedIsContinuation, Tok
<1>2. (pc = "prefill" => InPrefill)' /\ (pc = "warming" => InWarming)'
  BY DEF IInv, InPrefill, InWarming, Holds, LastPicks, LastRow, Tok, Text, Upto
<1>3. (pc = "ready" => InReady)' /\ (InRound => InRound')
  BY DEF IInv, InReady, AtTip, InRound, EmittedUpto, Holds, LastPicks, LastRow, Tok,
         Text, Upto
<1>4. (Holds(nPast) => Holds(nPast)') /\ (GoodDraft => GoodDraft')
  BY DEF Holds, GoodDraft, Tok, Text, Upto
<1>5. InVerified => InVerified'
  <2>1. VerifyBatch' = VerifyBatch /\ Text(nPast)' = Text(nPast)
    BY DEF VerifyBatch, Text, Tok
  <2> QED BY <2>1 DEF InVerified, Tok, Upto
<1> QED BY <1>1, <1>2, <1>3, <1>4, <1>5 DEF IInv

LEMMA BeginIInv ==
    ASSUME IInv, NEW n \in PromptLens, NEW way \in {"step", "draft"}, Begin(n, way)
    PROVE  IInv'
<1>1. n \in Nat /\ n > 0
  BY ConstantsAssumption
<1>2. TypeOK'
  BY <1>1 DEF IInv, TypeOK, Begin, Calls, target, companion, round
<1>3. InPrefill'
  <2>1. kv = {} /\ rec = {} /\ UNCHANGED <<kv, rec, comp>> /\ offset' = 0 /\ out' = <<>>
    BY DEF IInv, Begin, target, companion
  <2> QED BY <2>1 DEF InPrefill, Holds, Text, Upto, IInv, TypeOK, CacheCells
<1> QED BY <1>1, <1>2, <1>3 DEF IInv, Begin, EmittedIsContinuation, TypeOK, companion

LEMMA DecodePromptIInv ==
    ASSUME IInv, NEW n \in 1 .. Chunk, DecodePrompt(n)
    PROVE  IInv'
<1>0. /\ TypeOK /\ gen \in Nat /\ offset \in Nat /\ prompt \in Nat /\ pc = "prefill"
      /\ InPrefill /\ n \in Nat /\ n > 0 /\ offset + n <= prompt
      /\ UNCHANGED <<companion, nPast, haveCarry, carry, smpl, prefill, round, out>>
  BY ConstantsAssumption DEF IInv, DecodePrompt, TypeOK, Chunk
<1> USE DEF companion, prefill, round
<1>1. CASE pc' = "failed" /\ UNCHANGED target
  BY <1>0, <1>1 DEF IInv, TypeOK, EmittedIsContinuation, Tok, target, Calls
<1>2. CASE Decode(PromptBatch(n)) /\ pc' = "warming"
  <2> DEFINE batch == PromptBatch(n)
             text == Text(offset + n)
  <2>1. batch \in [1 .. n -> CacheCells] /\ Len(batch) = n
    BY <1>0 DEF PromptBatch, CacheCells, Tokens, Tok
  <2>2. Text(offset) \cup Cells(batch) = text
    <3>1. Cells(batch) = {Cell(offset + i - 1, Tok(offset + i - 1)) : i \in 1 .. n}
      BY <2>1 DEF PromptBatch
    <3> QED BY <1>0, <3>1, TextExtends
  <2>a. Decode(batch)
    BY <1>2
  <2>3. kv' = text /\ rec' = (IF NeedsCkpt THEN text ELSE {})
        /\ kv \cup rec \cup Cells(batch) = text
    BY <1>0, <1>2, <2>2 DEF Decode, InPrefill, Holds
  <2>4. /\ kv' \subseteq CacheCells /\ rec' \subseteq CacheCells
        /\ rows' \in Seq([pos : Nat, next : Tokens]) /\ Len(rows') = n
        /\ rows'[n] = [pos |-> batch[n].pos, next |-> Predict(text, batch[n].pos)]
    <3> HIDE DEF batch, text
    <3>1. n \in 1 .. n
      BY <1>0
    <3> QED BY <3>1, <1>0, <2>a, <2>1, <2>3, DecodeRows
  <2>5. batch[n].pos = offset + n - 1 /\ Predict(text, offset + n - 1) = Tok(offset + n)
    <3>1. batch[n].pos = offset + n - 1
      BY <1>0 DEF PromptBatch
    <3>2. Upto(text, offset + n) = text
      BY <1>0, UptoText
    <3> QED BY <1>0, <3>1, <3>2, PredictRight
  <2>6. TypeOK'
    BY <1>0, <1>2, <2>4 DEF TypeOK, Calls
  <2>7. InWarming'
    <3>1. (rows # <<>>)' /\ (LastRow.next = Tok(offset + n))' /\ LastRow'.pos = offset + n - 1
      BY <1>0, <2>4, <2>5 DEF LastRow, Tok
    <3>2. Text(offset + n)' = text /\ Text(offset)' = Text(offset)
      BY <1>0 DEF Text, Tok
    <3> QED BY <1>0, <2>3, <2>4, <3>1, <3>2
        DEF InWarming, InPrefill, Holds, LastPicks, Upto, Tok
  <2> QED BY <1>0, <1>2, <2>6, <2>7 DEF IInv, EmittedIsContinuation, Tok
<1> QED BY <1>1, <1>2 DEF DecodePrompt

LEMMA WarmPromptIInv == ASSUME IInv, WarmPrompt PROVE IInv'
<1>0. /\ TypeOK /\ gen \in Nat /\ offset \in Nat /\ Len(rows) \in Nat /\ prompt \in Nat
      /\ pc = "warming" /\ InWarming
      /\ UNCHANGED <<target, seed, ckpt, nPast, haveCarry, carry, smpl, path, gen,
                     prompt, mark, round, out>>
  BY DEF IInv, WarmPrompt, TypeOK
<1> USE DEF target, round
<1>1. CASE pc' = "failed" /\ UNCHANGED <<comp, offset>>
  BY <1>0, <1>1 DEF IInv, TypeOK, EmittedIsContinuation, Tok, Calls
<1>2. CASE /\ Overwrite({c \in kv : c.pos >= offset})
           /\ offset' = offset + Len(rows) /\ pc' = "prefill"
  <2>1. comp' \subseteq CacheCells /\ Upto(comp', offset') = Text(offset')
    BY <1>0, <1>2, OverwriteText DEF InWarming, TypeOK
  <2>2. TypeOK'
    BY <1>0, <1>2, <2>1 DEF TypeOK, Calls, InWarming
  <2>3. InPrefill'
    <3>1. Text(offset)' = Text(offset') /\ Upto(comp, offset)' = Upto(comp', offset')
      BY <1>0 DEF Text, Tok, Upto
    <3> QED BY <1>0, <1>2, <2>1, <3>1 DEF InWarming, InPrefill, Holds, LastPicks, LastRow, Tok
  <2> QED BY <1>0, <1>2, <2>2, <2>3 DEF IInv, EmittedIsContinuation, Tok
<1> QED BY <1>1, <1>2 DEF WarmPrompt

LEMMA FinalizePromptIInv == ASSUME IInv, FinalizePrompt PROVE IInv'
<1>0. /\ TypeOK /\ gen \in Nat /\ offset \in Nat /\ prompt \in Nat /\ prompt > 0
      /\ pc = "prefill" /\ offset = prompt /\ InPrefill /\ nPast' = prompt
      /\ LastPicks(prompt) /\ LastRow.pos = prompt - 1
      /\ UNCHANGED <<target, comp, ckpt, carry, smpl, prefill, round, out>>
  BY DEF IInv, FinalizePrompt, TypeOK, InPrefill
<1> USE DEF target, prefill, round
<1>1. CASE pc' = "failed" /\ UNCHANGED <<seed, haveCarry>>
  BY <1>0, <1>1 DEF IInv, TypeOK, EmittedIsContinuation, Tok, Calls
<1>2. CASE /\ seed' = rows[LastOutputIndex + 1].pos
           /\ haveCarry' = FALSE /\ pc' = "ready"
  <2>1. seed' = nPast' - 1
    BY <1>0, <1>2 DEF LastOutputIndex, LastRow, TypeOK
  <2>2. TypeOK'
    <3>1. seed' \in Nat /\ haveCarry' \in BOOLEAN /\ nPast' \in Nat
      <4>1. haveCarry' \in BOOLEAN
        BY <1>2
      <4> QED BY <1>0, <2>1, <4>1
    <3> QED BY <1>0, <1>2, <3>1 DEF TypeOK, Calls
  <2>3. Holds(nPast)'
    <3>1. Text(nPast)' = Text(offset) /\ Upto(comp, nPast)' = Upto(comp, offset)
      BY <1>0 DEF Text, Tok, Upto
    <3> QED BY <1>0, <3>1 DEF InPrefill, Holds
  <2>4. InReady'
    BY <1>0, <1>2, <2>1, <2>3
       DEF InReady, AtTip, EmittedUpto, InPrefill, LastPicks, LastRow, Tok
  <2> QED BY <1>0, <1>2, <2>2, <2>4 DEF IInv, EmittedIsContinuation, Tok
<1> QED BY <1>1, <1>2 DEF FinalizePrompt

LEMMA SampleAnchorIInv == ASSUME IInv, SampleAnchor PROVE IInv'
<1>0. /\ TypeOK /\ gen \in Nat /\ nPast \in Nat /\ prompt \in Nat
      /\ pc = "ready" /\ path = "step" /\ InReady /\ pc' = "anchored"
      /\ UNCHANGED <<target, companion, nPast, carry, prefill, draft, out>>
  BY DEF IInv, SampleAnchor, TypeOK
<1> USE DEF target, companion, prefill
<1>1. anchor' = Tok(nPast) /\ fromCarry' = (out # <<>>) /\ haveCarry' = FALSE
  <2>1. CASE haveCarry
    BY <1>0, <2>1 DEF SampleAnchor, InReady
  <2>2. CASE ~ haveCarry
    BY <1>0, <2>2 DEF SampleAnchor, InReady, LastPicks
  <2> QED BY <2>1, <2>2
<1>2. Tok(nPast) \in Tokens
  BY <1>0 DEF Tok, Tokens
<1>3. TypeOK'
  <2>1. smpl' \in Seq(Tokens)
    <3>1. smpl \in Seq(Tokens)
      BY <1>0 DEF TypeOK
    <3>2. CASE haveCarry
      BY <3>1, <3>2 DEF SampleAnchor
    <3>3. CASE ~ haveCarry
      <4>1. smpl' = Append(smpl, Tok(nPast))
        BY <1>0, <1>1, <3>3 DEF SampleAnchor
      <4> QED BY <1>2, <3>1, <4>1
    <3> QED BY <3>2, <3>3
  <2>2. fromCarry' \in BOOLEAN
    BY <1>1
  <2> QED BY <1>0, <1>1, <1>2, <2>1, <2>2 DEF TypeOK, Calls
<1>4. InRound' /\ Holds(nPast)'
  BY <1>0, <1>1 DEF InReady, AtTip, InRound, EmittedUpto, Holds, Text, Tok, Upto
<1> QED BY <1>0, <1>3, <1>4 DEF IInv, EmittedIsContinuation, Tok

LEMMA TakeFirstIInv == ASSUME IInv, TakeFirst PROVE IInv'
<1>0. /\ TypeOK /\ gen \in Nat /\ nPast \in Nat /\ prompt \in Nat
      /\ pc = "ready" /\ path = "draft" /\ InReady /\ out = <<>>
      /\ nPast = prompt /\ LastRow.next = Tok(prompt)
      /\ anchor' = Tok(prompt) /\ out' = <<Tok(prompt)>>
      /\ UNCHANGED <<target, companion, nPast, haveCarry, carry, smpl, pc, prefill,
                     fromCarry, draft>>
  BY DEF IInv, TakeFirst, TypeOK, InReady, AtTip, EmittedUpto, LastPicks
<1> USE DEF target, companion, prefill
<1>1. Tok(prompt) \in Tokens
  BY <1>0 DEF Tok, Tokens
<1>2. TypeOK'
  BY <1>0, <1>1 DEF TypeOK
<1>3. InReady'
  BY <1>0 DEF InReady, AtTip, EmittedUpto, Holds, Text, Tok, Upto
<1> QED BY <1>0, <1>2, <1>3 DEF IInv, EmittedIsContinuation, Tok

-----------------------------------------------------------------------------
(* Drafting. *)

(* A draft that survives the checkpoint call and the clamp is short enough,   *)
(* guesses position by position, and a recurrent target has a checkpoint     *)
(* whenever anything of it is left.                                          *)
LEMMA ProposeGood ==
    ASSUME TypeOK, NEW base \in Nat, Propose(base), gen' = gen, nPast' = base
    PROVE  /\ GoodDraft' /\ draft' \in Seq(Tokens) /\ ckpt' \in BOOLEAN
           /\ ckpt' => NeedsCkpt
           /\ Len(draft') <= MaxDraft(base)
<1>1. PICK d \in Drafts(base), saved \in BOOLEAN :
         /\ ckpt' = (NeedsCkpt /\ saved)
         /\ draft' = Clamp(Keep(d, saved), base)
  BY DEF Propose
<1>2. /\ d \in Seq(Tokens) /\ Len(d) <= NMax
      /\ \A i \in 1 .. Len(d) : d[i] \in {Tok(base + i), Wrong}
  <2>1. CASE d = <<>>
    BY <2>1, ConstantsAssumption
  <2>2. CASE d # <<>>
    <3>1. PICK k \in 1 .. NMax :
             /\ d \in [1 .. k -> {Tok(base + i) : i \in 1 .. k} \cup {Wrong}]
             /\ \A i \in 1 .. k : d[i] \in {Tok(base + i), Wrong}
      BY <2>2, ConstantsAssumption DEF Drafts
    <3>2. {Tok(base + i) : i \in 1 .. k} \cup {Wrong} \subseteq Tokens
      BY DEF Tok, Tokens, Wrong, TypeOK
    <3>3. d \in [1 .. k -> Tokens] /\ k \in Nat
      BY <3>1, <3>2, ConstantsAssumption
    <3>4. d \in Seq(Tokens) /\ Len(d) = k
      BY <3>3, FunctionIsSeq
    <3> QED BY <3>1, <3>4, ConstantsAssumption
  <2> QED BY <2>1, <2>2
<1> DEFINE e == Keep(d, saved)
<1>3. /\ e \in Seq(Tokens) /\ Len(e) <= NMax
      /\ \A i \in 1 .. Len(e) : e[i] \in {Tok(base + i), Wrong}
      /\ NeedsCkpt /\ e # <<>> => saved
  BY <1>2, ConstantsAssumption DEF Keep
<1>4. MaxDraft(base) \in Nat
  BY ConstantsAssumption DEF MaxDraft
<1>5. /\ draft' \in Seq(Tokens) /\ Len(draft') <= Len(e) /\ Len(draft') <= MaxDraft(base)
      /\ \A i \in 1 .. Len(draft') : draft'[i] = e[i]
  <2> HIDE DEF e
  <2>1. CASE Len(e) > MaxDraft(base)
    BY <1>1, <1>3, <1>4, <2>1 DEF Clamp, e
  <2>2. CASE ~ (Len(e) > MaxDraft(base))
    BY <1>1, <1>3, <1>4, <2>2 DEF Clamp, e
  <2> QED BY <2>1, <2>2
<1>6. ckpt' \in BOOLEAN /\ (ckpt' => NeedsCkpt) /\ (NeedsCkpt /\ saved => ckpt')
  BY <1>1, ConstantsAssumption
<1>7. draft' # <<>> => e # <<>>
  BY <1>3, <1>5
<1>8. Len(draft') <= NMax /\ \A i \in 1 .. Len(draft') : draft'[i] \in {Tok(base + i), Wrong}
  BY <1>3, <1>5, ConstantsAssumption
<1> QED BY <1>3, <1>5, <1>6, <1>7, <1>8 DEF GoodDraft, Tok

LEMMA ProposeInStepIInv == ASSUME IInv, ProposeInStep PROVE IInv'
<1>0. /\ TypeOK /\ gen \in Nat /\ nPast \in Nat /\ prompt \in Nat
      /\ pc = "anchored" /\ path = "step" /\ InRound /\ Holds(nPast)
      /\ UNCHANGED <<target, comp, seed, nPast, haveCarry, carry, smpl, prefill,
                     anchor, fromCarry, out>>
  BY DEF IInv, ProposeInStep, TypeOK
<1> USE DEF target, prefill
<1>1. CASE pc' = "stepFailed" /\ UNCHANGED <<ckpt, draft>>
  BY <1>0, <1>1 DEF IInv, TypeOK, EmittedIsContinuation, Tok, Calls
<1>2. CASE Propose(nPast) /\ pc' = "drafted"
  <2>1. /\ GoodDraft' /\ draft' \in Seq(Tokens) /\ ckpt' \in BOOLEAN /\ (ckpt' => NeedsCkpt)
    BY <1>0, <1>2, ProposeGood
  <2>2. TypeOK'
    BY <1>0, <1>2, <2>1 DEF TypeOK, Calls
  <2>3. InRound' /\ Holds(nPast)'
    BY <1>0 DEF InRound, EmittedUpto, Holds, Text, Tok, Upto
  <2> QED BY <1>0, <1>2, <2>1, <2>2, <2>3 DEF IInv, EmittedIsContinuation, Tok
<1> QED BY <1>1, <1>2 DEF ProposeInStep

LEMMA ProposeForCallerIInv == ASSUME IInv, ProposeForCaller PROVE IInv'
<1>0. /\ TypeOK /\ gen \in Nat /\ nPast \in Nat /\ prompt \in Nat
      /\ pc = "ready" /\ path = "draft" /\ InReady /\ out # <<>> /\ Len(out) \in Nat
      /\ nPast = prompt + Len(out) - 1 /\ nPast' = nPast
      /\ UNCHANGED <<target, comp, seed, haveCarry, carry, smpl, prefill, anchor,
                     fromCarry, out>>
  BY DEF IInv, ProposeForCaller, TypeOK, InReady, AtTip, EmittedUpto
<1> USE DEF target, prefill
<1>1. CASE pc' = "failed" /\ UNCHANGED <<ckpt, draft>>
  BY <1>0, <1>1 DEF IInv, TypeOK, EmittedIsContinuation, Tok, Calls
<1>2. CASE Propose(nPast) /\ pc' = "drafted"
  <2>1. /\ GoodDraft' /\ draft' \in Seq(Tokens) /\ ckpt' \in BOOLEAN /\ (ckpt' => NeedsCkpt)
    BY <1>0, <1>2, ProposeGood
  <2>2. TypeOK'
    BY <1>0, <1>2, <2>1 DEF TypeOK, Calls
  <2>3. InRound' /\ Holds(nPast)'
    BY <1>0 DEF InReady, AtTip, InRound, EmittedUpto, Holds, Text, Tok, Upto
  <2> QED BY <1>0, <1>2, <2>1, <2>2, <2>3 DEF IInv, EmittedIsContinuation, Tok
<1> QED BY <1>0, <1>1, <1>2 DEF ProposeForCaller

-----------------------------------------------------------------------------
(* Verifying. *)

(* The verify batch holds the anchor at nPast and the drafts after it.        *)
LEMMA VerifyBatchCells ==
    ASSUME TypeOK
    PROVE  /\ VerifyBatch \in [1 .. Len(draft) + 1 -> CacheCells]
           /\ Len(VerifyBatch) = Len(draft) + 1
           /\ VerifyBatch[1] = Cell(nPast, anchor)
           /\ \A i \in 1 .. Len(draft) : VerifyBatch[i + 1] = Cell(nPast + i, draft[i])
<1>0. draft \in Seq(Tokens) /\ anchor \in Tokens /\ nPast \in Nat /\ Len(draft) \in Nat
  BY DEF TypeOK
<1> DEFINE first == <<Cell(nPast, anchor)>>
           rest == [i \in 1 .. Len(draft) |-> Cell(nPast + i, draft[i])]
<1>1. rest \in [1 .. Len(draft) -> CacheCells]
  BY <1>0 DEF CacheCells
<1>2. first \in Seq(CacheCells) /\ Len(first) = 1 /\ first[1] = Cell(nPast, anchor)
  BY <1>0 DEF CacheCells
<1>3. rest \in Seq(CacheCells) /\ Len(rest) = Len(draft)
  <2> HIDE DEF rest
  <2> QED BY <1>0, <1>1, FunctionIsSeq
<1>4. VerifyBatch = first \o rest
  BY DEF VerifyBatch
<1>5. \A i \in 1 .. Len(draft) : rest[i] = Cell(nPast + i, draft[i])
  OBVIOUS
<1> HIDE DEF first, rest
<1>6. /\ VerifyBatch \in Seq(CacheCells) /\ Len(VerifyBatch) = Len(draft) + 1
      /\ \A i \in 1 .. Len(first) + Len(rest) :
            VerifyBatch[i] = IF i <= Len(first) THEN first[i] ELSE rest[i - Len(first)]
  <2>1. first \in Seq(CacheCells) /\ rest \in Seq(CacheCells)
    BY <1>2, <1>3
  <2>2. /\ first \o rest \in Seq(CacheCells)
        /\ Len(first \o rest) = Len(first) + Len(rest)
        /\ \A i \in 1 .. Len(first) + Len(rest) :
              (first \o rest)[i] = IF i <= Len(first) THEN first[i] ELSE rest[i - Len(first)]
    BY <2>1, ConcatProperties, Zenon
  <2>3. Len(first) + Len(rest) = Len(draft) + 1
    BY <1>0, <1>2, <1>3
  <2> QED BY <1>4, <2>2, <2>3
<1>7. VerifyBatch[1] = Cell(nPast, anchor)
  <2>1. 1 \in 1 .. Len(first) + Len(rest) /\ 1 <= Len(first)
    BY <1>0, <1>2, <1>3
  <2> QED BY <1>2, <1>6, <2>1
<1>8. ASSUME NEW i \in 1 .. Len(draft)
      PROVE  VerifyBatch[i + 1] = Cell(nPast + i, draft[i])
  <2>1. i + 1 \in 1 .. 1 + Len(draft) /\ ~ (i + 1 <= 1) /\ (i + 1) - 1 = i
    BY <1>0
  <2> QED BY <1>2, <1>3, <1>5, <1>6, <2>1
<1>9. VerifyBatch \in [1 .. Len(draft) + 1 -> CacheCells]
  BY <1>6
<1> QED BY <1>6, <1>7, <1>8, <1>9

(* While the first k drafts are right, the target sees the right text up to   *)
(* and including the k-th.                                                   *)
LEMMA VerifiedPrefix ==
    ASSUME TypeOK, anchor = Tok(nPast), NEW k \in 0 .. Len(draft),
           \A i \in 1 .. k : draft[i] = Tok(nPast + i)
    PROVE  Upto(Text(nPast) \cup Cells(VerifyBatch), nPast + k + 1) = Text(nPast + k + 1)
<1>0. /\ gen \in Nat /\ nPast \in Nat /\ Len(draft) \in Nat /\ k \in Nat
      /\ nPast + k + 1 \in Nat
  BY DEF TypeOK
<1>1. /\ Len(VerifyBatch) = Len(draft) + 1
      /\ VerifyBatch[1] = Cell(nPast, Tok(nPast))
      /\ \A i \in 1 .. Len(draft) : VerifyBatch[i + 1] = Cell(nPast + i, draft[i])
  BY VerifyBatchCells
<1>2. ASSUME NEW c \in Text(nPast) \cup Cells(VerifyBatch), c.pos < nPast + k + 1
      PROVE  c \in Text(nPast + k + 1)
  <2>1. CASE c \in Text(nPast)
    BY <1>0, <2>1 DEF Text
  <2>2. CASE c \in Cells(VerifyBatch)
    <3>1. PICK j \in 1 .. Len(draft) + 1 : c = VerifyBatch[j]
      BY <1>1, <2>2
    <3>2. CASE j = 1
      BY <1>0, <1>1, <3>1, <3>2 DEF Text
    <3>3. CASE j # 1
      <4>1. j - 1 \in 1 .. Len(draft) /\ (j - 1) + 1 = j
        BY <1>0, <3>3
      <4>2. c = Cell(nPast + (j - 1), draft[j - 1])
        BY <1>1, <3>1, <4>1
      <4>3. j - 1 \in 1 .. k
        BY <1>0, <1>2, <4>1, <4>2
      <4>4. c = Cell(nPast + (j - 1), Tok(nPast + (j - 1)))
        BY <4>2, <4>3
      <4>5. nPast + (j - 1) \in 0 .. (nPast + k + 1) - 1
        BY <1>0, <4>3
      <4> QED BY <1>0, <4>4, <4>5, TextCells
    <3> QED BY <3>2, <3>3
  <2> QED BY <2>1, <2>2
<1>3. ASSUME NEW c \in Text(nPast + k + 1)
      PROVE  c \in Text(nPast) \cup Cells(VerifyBatch) /\ c.pos < nPast + k + 1
  <2>1. PICK p \in 0 .. (nPast + k + 1) - 1 : c = Cell(p, Tok(p))
    BY <1>0, TextCells
  <2>2. CASE p < nPast
    BY <1>0, <2>1, <2>2 DEF Text
  <2>3. CASE p = nPast
    BY <1>0, <1>1, <2>1, <2>3
  <2>4. CASE p > nPast
    <3>1. p - nPast \in 1 .. k /\ p - nPast \in 1 .. Len(draft) /\ nPast + (p - nPast) = p
      BY <1>0, <2>4
    <3>2. VerifyBatch[(p - nPast) + 1] = Cell(p, Tok(p))
      BY <1>1, <3>1
    <3>3. (p - nPast) + 1 \in 1 .. Len(VerifyBatch)
      BY <1>0, <1>1, <3>1
    <3> QED BY <1>0, <2>1, <3>2, <3>3
  <2>5. p < nPast \/ p = nPast \/ p > nPast
    BY <1>0
  <2>6. c.pos < nPast + k + 1
    BY <1>0, <2>1
  <2> QED BY <2>2, <2>3, <2>4, <2>5, <2>6
<1> QED BY <1>2, <1>3 DEF Upto

LEMMA VerifyIInv == ASSUME IInv, Verify PROVE IInv'
<1>0. /\ TypeOK /\ gen \in Nat /\ nPast \in Nat /\ prompt \in Nat /\ Len(draft) \in Nat
      /\ pc = "drafted" /\ InRound /\ Holds(nPast) /\ GoodDraft
      /\ UNCHANGED <<companion, nPast, haveCarry, carry, smpl, prefill, round, out>>
  BY DEF IInv, Verify, TypeOK
<1> USE DEF companion, prefill, round
<1>1. CASE Undecodable(VerifyBatch) /\ pc' = "aborted" /\ UNCHANGED target
  BY <1>0, <1>1 DEF IInv, TypeOK, EmittedIsContinuation, Tok, target, Calls
<1>2. CASE Fail /\ UNCHANGED target
  <2>1. pc' \in {"failed", "stepFailed"}
    BY <1>2 DEF Fail
  <2>2. TypeOK'
    BY <1>0, <1>2, <2>1 DEF TypeOK, target, Calls
  <2> QED BY <1>0, <1>2, <2>1, <2>2 DEF IInv, EmittedIsContinuation, Tok, target
<1>3. CASE Decode(VerifyBatch) /\ pc' = "verified"
  <2> DEFINE seen == Text(nPast) \cup Cells(VerifyBatch)
             n == Len(draft) + 1
  <2>1. /\ VerifyBatch \in [1 .. n -> CacheCells] /\ n \in Nat
        /\ VerifyBatch[1] = Cell(nPast, anchor)
        /\ \A i \in 1 .. Len(draft) : VerifyBatch[i + 1] = Cell(nPast + i, draft[i])
    BY <1>0, VerifyBatchCells
  <2>2. /\ kv' = seen /\ rec' = (IF NeedsCkpt THEN seen ELSE {})
        /\ kv \cup rec \cup Cells(VerifyBatch) = seen
    BY <1>0, <1>3 DEF Decode, Holds
  <2>3. /\ kv' \subseteq CacheCells /\ rec' \subseteq CacheCells
        /\ rows' \in Seq([pos : Nat, next : Tokens]) /\ Len(rows') = n
        /\ \A i \in 1 .. n : rows'[i] = [pos |-> VerifyBatch[i].pos,
                                        next |-> Predict(seen, VerifyBatch[i].pos)]
    <3> HIDE DEF n, seen
    <3> QED BY <1>0, <1>3, <2>1, <2>2, DecodeRows
  <2>4. \A i \in 1 .. n : VerifyBatch[i].pos = nPast + i - 1
    <3>1. SUFFICES ASSUME NEW i \in 1 .. n PROVE VerifyBatch[i].pos = nPast + i - 1
      OBVIOUS
    <3>2. CASE i = 1
      BY <1>0, <2>1, <3>2
    <3>3. CASE i # 1
      <4>1. i - 1 \in 1 .. Len(draft) /\ (i - 1) + 1 = i
        BY <1>0, <3>3
      <4>2. VerifyBatch[i] = Cell(nPast + (i - 1), draft[i - 1])
        BY <2>1, <4>1
      <4> QED BY <1>0, <4>2
    <3> QED BY <3>2, <3>3
  <2>5. ASSUME NEW i \in 1 .. n, \A j \in 1 .. i - 1 : draft[j] = Tok(nPast + j)
        PROVE  rows'[i].next = Tok(nPast + i)
    <3>1. i - 1 \in 0 .. Len(draft) /\ nPast + (i - 1) + 1 = (nPast + i - 1) + 1
          /\ nPast + i - 1 \in Nat /\ (nPast + i - 1) + 1 = nPast + i
      BY <1>0
    <3>2. Upto(seen, nPast + (i - 1) + 1) = Text(nPast + (i - 1) + 1)
      BY <1>0, <2>5, <3>1, VerifiedPrefix DEF InRound
    <3>3. Predict(seen, nPast + i - 1) = Tok((nPast + i - 1) + 1)
      <4> HIDE DEF seen
      <4> QED BY <3>1, <3>2, PredictRight
    <3>4. rows'[i].next = Predict(seen, VerifyBatch[i].pos)
      <4> HIDE DEF seen, n
      <4> QED BY <2>3
    <3> QED BY <2>4, <3>1, <3>3, <3>4
  <2>6. TypeOK'
    BY <1>0, <1>3, <2>3 DEF TypeOK, Calls
  <2>7. InVerified'
    <3>1. /\ Text(nPast)' = Text(nPast) /\ VerifyBatch' = VerifyBatch
          /\ \A m : Tok(m)' = Tok(m)
      BY <1>0 DEF Text, Tok, VerifyBatch
    <3>2. Upto(comp, nPast)' = Text(nPast)
      BY <1>0 DEF Upto, Holds
    <3>3. \A i \in 1 .. n : rows'[i].pos = nPast + i - 1
      <4> HIDE DEF n, seen
      <4> QED BY <2>3, <2>4
    <3> HIDE DEF n
    <3> QED BY <1>0, <2>2, <2>3, <2>5, <3>1, <3>2, <3>3 DEF InVerified, n
  <2>8. InRound' /\ GoodDraft'
    BY <1>0 DEF InRound, EmittedUpto, GoodDraft, Tok
  <2> QED BY <1>0, <1>3, <2>6, <2>7, <2>8 DEF IInv, EmittedIsContinuation, Tok
<1> QED BY <1>1, <1>2, <1>3 DEF Verify

-----------------------------------------------------------------------------
(* Committing. *)

(* What the verification accepts is right, and so is the token after it: a    *)
(* draft guess that agrees with the target's pick cannot be the first wrong   *)
(* one, since up to there the target has seen the right text.                *)
LEMMA AcceptedRight ==
    ASSUME TypeOK, gen > 0, GoodDraft, InVerified, NEW k \in 0 .. Len(draft), Accepts(k)
    PROVE  /\ \A i \in 1 .. k : draft[i] = Tok(nPast + i)
           /\ \A i \in 1 .. k + 1 : rows[i].next = Tok(nPast + i)
<1>0. gen \in Nat /\ nPast \in Nat /\ Len(draft) \in Nat /\ k \in Nat
      /\ Len(rows) = Len(draft) + 1
  BY DEF TypeOK, InVerified
<1>1. \A i \in 1 .. k + 1 : (\A j \in 1 .. i - 1 : draft[j] = Tok(nPast + j))
                               => rows[i].next = Tok(nPast + i)
  <2>1. \A i \in 1 .. Len(rows) : (\A j \in 1 .. i - 1 : draft[j] = Tok(nPast + j))
                                     => rows[i].next = Tok(nPast + i)
    BY DEF InVerified
  <2>2. \A i \in 1 .. k + 1 : i \in 1 .. Len(rows)
    BY <1>0
  <2> QED BY <2>1, <2>2
<1> DEFINE wrong == {i \in 1 .. k : draft[i] # Tok(nPast + i)}
<1>2. wrong = {}
  <2>1. SUFFICES ASSUME wrong # {} PROVE FALSE
    OBVIOUS
  <2>2. PICK m \in wrong : \A y \in wrong : m <= y
    <3>1. wrong \in SUBSET Nat
      BY <1>0
    <3> HIDE DEF wrong
    <3> QED BY <2>1, <3>1, LeastNat
  <2>3. m \in 1 .. k /\ draft[m] # Tok(nPast + m)
    BY <2>2
  <2>4. \A j \in 1 .. m - 1 : draft[j] = Tok(nPast + j)
    BY <1>0, <2>2, <2>3
  <2>5. rows[m].next = Tok(nPast + m)
    BY <1>0, <1>1, <2>3, <2>4
  <2>6. draft[m] = rows[m].next
    BY <2>3 DEF Accepts
  <2> QED BY <2>3, <2>5, <2>6
<1>3. \A i \in 1 .. k : draft[i] = Tok(nPast + i)
  BY <1>2
<1>4. ASSUME NEW i \in 1 .. k + 1 PROVE rows[i].next = Tok(nPast + i)
  <2>1. \A j \in 1 .. i - 1 : j \in 1 .. k
    BY <1>0
  <2> QED BY <1>1, <1>3, <2>1
<1> QED BY <1>3, <1>4

(* A commit of n right tokens leaves both caches, the recurrent state and the *)
(* captured hidden state at position nPast + n.                              *)
LEMMA CommitHolds ==
    ASSUME TypeOK, InRound, GoodDraft, InVerified, ckpt => NeedsCkpt,
           NEW n \in 1 .. Len(draft) + 1, SpecCommit(n),
           \A i \in 1 .. n - 1 : draft[i] = Tok(nPast + i)
    PROVE  /\ kv' = Text(nPast + n) /\ kv' \subseteq CacheCells
           /\ rec' = (IF NeedsCkpt THEN kv' ELSE {})
           /\ comp' \subseteq CacheCells /\ Upto(comp', nPast + n) = Text(nPast + n)
           /\ seed' = nPast + n - 1 /\ seed' \in Nat /\ ckpt' = FALSE
<1>0. /\ gen \in Nat /\ nPast \in Nat /\ Len(draft) \in Nat /\ n \in Nat /\ n > 0
      /\ nPast + n \in Nat /\ anchor = Tok(nPast) /\ Len(rows) = Len(draft) + 1
      /\ kv = Text(nPast) \cup Cells(VerifyBatch)
  BY DEF TypeOK, InRound, InVerified
<1>1. Upto(kv, nPast + n) = Text(nPast + n)
  <2>1. n - 1 \in 0 .. Len(draft) /\ nPast + (n - 1) + 1 = nPast + n
    BY <1>0
  <2>2. Upto(kv, nPast + (n - 1) + 1) = Text(nPast + (n - 1) + 1)
    BY <1>0, <2>1, VerifiedPrefix
  <2> QED BY <2>1, <2>2
<1>2. kv' = Text(nPast + n)
  BY <1>1 DEF SpecCommit
<1>3. Text(nPast + n) \subseteq CacheCells
  BY <1>0, TextCells
<1>4. comp' \subseteq CacheCells /\ Upto(comp', nPast + n) = Text(nPast + n)
  <2>1. Overwrite({c \in Text(nPast + n) : c.pos >= nPast})
    BY <1>1 DEF SpecCommit
  <2>2. Upto(comp, nPast) = Text(nPast) /\ comp \subseteq CacheCells
    BY DEF InVerified, TypeOK
  <2>3. nPast <= nPast + n
    BY <1>0
  <2> QED BY <1>0, <2>1, <2>2, <2>3, OverwriteText
<1>5. seed' = nPast + n - 1 /\ seed' \in Nat
  <2>1. n \in 1 .. Len(rows)
    BY <1>0
  <2>2. rows[n].pos = nPast + n - 1
    BY <2>1 DEF InVerified
  <2> QED BY <1>0, <2>1, <2>2 DEF SpecCommit
<1>6. rec' = (IF NeedsCkpt THEN kv' ELSE {})
  <2>1. CASE ckpt /\ n <= Len(draft)
    BY <2>1 DEF SpecCommit
  <2>2. CASE ~ (ckpt /\ n <= Len(draft))
    <3>1. rec' = rec /\ rec = (IF NeedsCkpt THEN kv ELSE {})
      BY <2>2 DEF SpecCommit, InVerified
    <3>2. CASE ~ NeedsCkpt
      BY <3>1, <3>2
    <3>3. CASE NeedsCkpt
      <4>1. n = Len(draft) + 1
        <5>1. draft # <<>> => ckpt
          BY <3>3 DEF GoodDraft
        <5>2. CASE draft = <<>>
          BY <1>0, <5>2
        <5>3. CASE ckpt
          BY <1>0, <2>2, <5>3
        <5> QED BY <5>1, <5>2, <5>3
      <4>2. \A c \in kv : c.pos < nPast + n
        <5>1. /\ Len(VerifyBatch) = Len(draft) + 1
              /\ VerifyBatch[1] = Cell(nPast, anchor)
              /\ \A i \in 1 .. Len(draft) : VerifyBatch[i + 1] = Cell(nPast + i, draft[i])
          BY VerifyBatchCells
        <5>2. ASSUME NEW j \in 1 .. Len(draft) + 1 PROVE VerifyBatch[j].pos < nPast + n
          <6>1. CASE j = 1
            BY <1>0, <5>1, <6>1
          <6>2. CASE j # 1
            <7>1. j - 1 \in 1 .. Len(draft) /\ (j - 1) + 1 = j
              BY <1>0, <6>2
            <7>2. VerifyBatch[j] = Cell(nPast + (j - 1), draft[j - 1])
              BY <5>1, <7>1
            <7> QED BY <1>0, <4>1, <7>1, <7>2
          <6> QED BY <6>1, <6>2
        <5>3. \A c \in Text(nPast) : c.pos < nPast + n
          <6>1. \A c \in Text(nPast) : c \in CacheCells /\ c.pos < nPast
            BY <1>0, TextCells
          <6> QED BY <1>0, <6>1 DEF CacheCells
        <5> QED BY <1>0, <5>1, <5>2, <5>3
      <4>3. Upto(kv, nPast + n) = kv
        BY <4>2 DEF Upto
      <4> QED BY <1>1, <1>2, <3>1, <3>3, <4>3
    <3> QED BY <3>2, <3>3
  <2> QED BY <2>1, <2>2
<1>7. ckpt' = FALSE
  BY DEF SpecCommit
<1> QED BY <1>2, <1>3, <1>4, <1>5, <1>6, <1>7

(* Appending the tokens that come next keeps `out` the continuation.          *)
LEMMA AppendContinuation ==
    ASSUME TypeOK, EmittedIsContinuation, NEW s \in Seq(Tokens),
           \A j \in 1 .. Len(s) : s[j] = Tok(prompt + Len(out) + j - 1),
           out' = out \o s, prompt' = prompt, gen' = gen
    PROVE  /\ EmittedIsContinuation' /\ out' \in Seq(Tokens)
           /\ Len(out') = Len(out) + Len(s)
<1>0. out \in Seq(Tokens) /\ Len(out) \in Nat /\ Len(s) \in Nat /\ prompt \in Nat
  BY DEF TypeOK
<1>1. /\ out' \in Seq(Tokens) /\ Len(out') = Len(out) + Len(s)
      /\ \A i \in 1 .. Len(out) + Len(s) :
            out'[i] = IF i <= Len(out) THEN out[i] ELSE s[i - Len(out)]
  BY <1>0, ConcatProperties
<1>2. ASSUME NEW i \in 1 .. Len(out) + Len(s) PROVE out'[i] = Tok(prompt + i - 1)
  <2>1. CASE i <= Len(out)
    <3>1. i \in 1 .. Len(out)
      BY <1>0, <2>1
    <3>2. out[i] = Tok(prompt + i - 1)
      BY <3>1 DEF EmittedIsContinuation
    <3> QED BY <1>1, <2>1, <3>2
  <2>2. CASE ~ (i <= Len(out))
    <3>1. i - Len(out) \in 1 .. Len(s)
          /\ prompt + Len(out) + (i - Len(out)) - 1 = prompt + i - 1
      BY <1>0, <2>2
    <3>2. s[i - Len(out)] = Tok(prompt + Len(out) + (i - Len(out)) - 1)
      BY <3>1
    <3> QED BY <1>1, <2>2, <3>1, <3>2
  <2> QED BY <2>1, <2>2
<1> QED BY <1>1, <1>2 DEF EmittedIsContinuation, Tok

LEMMA CommitStepIInv ==
    ASSUME IInv, NEW k \in 0 .. Len(draft), CommitStep(k)
    PROVE  IInv'
<1> DEFINE ids == Picks(k + 1)
           emitted == (IF fromCarry THEN <<>> ELSE <<anchor>>) \o ids
           fits == Len(emitted) <= Cap
<1>0. /\ TypeOK /\ gen \in Nat /\ gen > 0 /\ nPast \in Nat /\ prompt \in Nat /\ prompt > 0
      /\ Len(draft) \in Nat /\ k \in Nat /\ Len(out) \in Nat
      /\ pc = "verified" /\ path = "step" /\ Accepts(k)
      /\ InRound /\ GoodDraft /\ InVerified /\ EmittedIsContinuation
      /\ (ckpt => NeedsCkpt)
      /\ UNCHANGED <<rows, prefill, round>> /\ smpl' = smpl \o ids
  BY DEF IInv, CommitStep, TypeOK
<1> USE DEF prefill, round
<1>1. /\ \A i \in 1 .. k : draft[i] = Tok(nPast + i)
      /\ \A i \in 1 .. k + 1 : rows[i].next = Tok(nPast + i)
  BY <1>0, AcceptedRight
<1>2. /\ ids \in Seq(Tokens) /\ Len(ids) = k + 1
      /\ \A i \in 1 .. k + 1 : ids[i] = Tok(nPast + i)
  <2>0. \A i \in 1 .. k + 1 : Tok(nPast + i) \in Tokens
    BY <1>0 DEF Tok, Tokens
  <2>1. ids \in [1 .. k + 1 -> Tokens] /\ \A i \in 1 .. k + 1 : ids[i] = Tok(nPast + i)
    BY <1>1, <2>0 DEF Picks
  <2>2. k + 1 \in Nat
    BY <1>0
  <2> HIDE DEF ids
  <2> QED BY <2>1, <2>2, FunctionIsSeq
<1>3. smpl' \in Seq(Tokens)
  <2> HIDE DEF ids
  <2>1. smpl \in Seq(Tokens)
    BY <1>0 DEF TypeOK
  <2>2. smpl \o ids \in Seq(Tokens)
    BY <1>2, <2>1, ConcatProperties
  <2> QED BY <1>0, <2>2
<1>4. CASE /\ SpecCommit(k + 1)
           /\ carry' = ids[k + 1] /\ haveCarry' = TRUE
           /\ out' = IF fits THEN out \o emitted ELSE out
           /\ nPast' = IF fits THEN nPast + k + 1 ELSE nPast
           /\ pc' = IF fits THEN "ready" ELSE "stepFailed"
  <2>1. k + 1 \in 1 .. Len(draft) + 1 /\ (k + 1) - 1 = k
    BY <1>0
  <2>2. /\ kv' = Text(nPast + (k + 1)) /\ kv' \subseteq CacheCells
        /\ rec' = (IF NeedsCkpt THEN kv' ELSE {})
        /\ comp' \subseteq CacheCells
        /\ Upto(comp', nPast + (k + 1)) = Text(nPast + (k + 1))
        /\ seed' = nPast + (k + 1) - 1 /\ seed' \in Nat /\ ckpt' = FALSE
    BY <1>0, <1>1, <1>4, <2>1, CommitHolds
  <2>3. carry' = Tok(nPast + (k + 1)) /\ carry' \in Tokens
    <3> HIDE DEF ids
    <3>1. k + 1 \in 1 .. k + 1
      BY <1>0
    <3> QED BY <1>0, <1>2, <1>4, <3>1 DEF Tok, Tokens
  <2>4. rec' \subseteq CacheCells /\ haveCarry' \in BOOLEAN /\ ckpt' \in BOOLEAN
    <3>1. haveCarry' \in BOOLEAN /\ ckpt' \in BOOLEAN
      BY <1>4, <2>2
    <3> QED BY <2>2, <3>1
  <2>5. CASE ~ fits
    <3>1. TypeOK'
      <4>1. out' = out /\ nPast' = nPast /\ pc' = "stepFailed"
        BY <1>4, <2>5
      <4> HIDE DEF fits, ids, emitted
      <4> QED BY <1>0, <1>3, <2>2, <2>3, <2>4, <4>1 DEF TypeOK, Calls
    <3> QED BY <1>0, <1>4, <2>2, <2>5, <3>1 DEF IInv, EmittedIsContinuation, Tok
  <2>6. CASE fits
    <3>1. /\ emitted \in Seq(Tokens) /\ Len(emitted) = (IF fromCarry THEN 0 ELSE 1) + k + 1
          /\ \A j \in 1 .. Len(emitted) :
                emitted[j] = Tok(prompt + Len(out) + j - 1)
          /\ prompt + Len(out) + Len(emitted) = nPast + (k + 1) + 1
          /\ Len(emitted) > 0
      <4>0. prompt + Len(out) = nPast + (IF fromCarry THEN 1 ELSE 0)
        <5>1. fromCarry = (out # <<>>)
          BY <1>0 DEF InRound
        <5>2. CASE out = <<>>
          BY <1>0, <5>1, <5>2 DEF InRound, EmittedUpto
        <5>3. CASE out # <<>>
          BY <1>0, <5>1, <5>3 DEF InRound, EmittedUpto
        <5> QED BY <5>2, <5>3
      <4>1. CASE fromCarry
        <5>1. emitted = ids
          <6> HIDE DEF ids
          <6> QED BY <1>2, <4>1
        <5> HIDE DEF emitted, ids
        <5>2. Len(emitted) = k + 1
          BY <1>2, <5>1
        <5>3. ASSUME NEW j \in 1 .. k + 1 PROVE emitted[j] = Tok(prompt + Len(out) + j - 1)
          <6>1. prompt + Len(out) + j - 1 = nPast + j
            BY <1>0, <4>0, <4>1
          <6> QED BY <1>2, <5>1, <6>1
        <5>4. \A j \in 1 .. Len(emitted) : emitted[j] = Tok(prompt + Len(out) + j - 1)
          BY <5>2, <5>3
        <5>5. prompt + Len(out) + Len(emitted) = nPast + (k + 1) + 1 /\ Len(emitted) > 0
          BY <1>0, <4>0, <4>1, <5>2
        <5>6. Len(emitted) = (IF fromCarry THEN 0 ELSE 1) + k + 1
          BY <1>0, <4>1, <5>2
        <5> QED BY <1>2, <5>1, <5>4, <5>5, <5>6
      <4>2. CASE ~ fromCarry
        <5> DEFINE a == <<anchor>>
        <5>0. a \in Seq(Tokens) /\ Len(a) = 1 /\ a[1] = Tok(nPast)
          BY <1>0 DEF InRound, TypeOK
        <5>1. emitted = a \o ids
          BY <4>2
        <5> HIDE DEF emitted, ids, a
        <5>2. /\ emitted \in Seq(Tokens) /\ Len(emitted) = Len(a) + Len(ids)
              /\ \A j \in 1 .. Len(a) + Len(ids) :
                    emitted[j] = IF j <= Len(a) THEN a[j] ELSE ids[j - Len(a)]
          BY <1>2, <5>0, <5>1, ConcatProperties
        <5>3. Len(emitted) = k + 2
          BY <1>0, <1>2, <5>0, <5>2
        <5>4. ASSUME NEW j \in 1 .. k + 2 PROVE emitted[j] = Tok(prompt + Len(out) + j - 1)
          <6>1. prompt + Len(out) + j - 1 = nPast + j - 1
            BY <1>0, <4>0, <4>2
          <6>2. CASE j = 1
            <7>1. nPast + j - 1 = nPast
              BY <1>0, <6>2
            <7> QED BY <1>0, <1>2, <5>0, <5>2, <6>1, <6>2, <7>1
          <6>3. CASE j # 1
            <7>1. j - 1 \in 1 .. k + 1 /\ j \in 1 .. Len(a) + Len(ids) /\ ~ (j <= Len(a))
                  /\ nPast + (j - 1) = nPast + j - 1
              BY <1>0, <1>2, <5>0, <6>3
            <7>2. emitted[j] = ids[j - 1]
              BY <5>0, <5>2, <7>1
            <7> QED BY <1>2, <6>1, <7>1, <7>2
          <6> QED BY <6>2, <6>3
        <5>5. \A j \in 1 .. Len(emitted) : emitted[j] = Tok(prompt + Len(out) + j - 1)
          BY <5>3, <5>4
        <5>6. prompt + Len(out) + Len(emitted) = nPast + (k + 1) + 1 /\ Len(emitted) > 0
          <6>1. prompt + Len(out) = nPast
            BY <1>0, <4>0, <4>2
          <6>2. nPast \in Nat /\ k \in Nat
            BY <1>0
          <6> QED BY <5>3, <6>1, <6>2
        <5>7. Len(emitted) = (IF fromCarry THEN 0 ELSE 1) + k + 1
          BY <1>0, <4>2, <5>3
        <5> QED BY <5>2, <5>5, <5>6, <5>7
      <4> QED BY <4>1, <4>2
    <3> HIDE DEF emitted, ids
    <3>2. out' = out \o emitted /\ nPast' = nPast + (k + 1) /\ pc' = "ready"
      BY <1>0, <1>4, <2>6
    <3>3. /\ EmittedIsContinuation' /\ out' \in Seq(Tokens)
          /\ Len(out') = Len(out) + Len(emitted)
      BY <1>0, <3>1, <3>2, AppendContinuation
    <3>4. TypeOK'
      <4>1. nPast' \in Nat
        BY <1>0, <3>2
      <4> QED BY <1>0, <1>3, <2>2, <2>3, <2>4, <3>2, <3>3, <4>1 DEF TypeOK, Calls
    <3>5. InReady'
      <4>1. Holds(nPast)'
        <5>1. Text(nPast)' = Text(nPast + (k + 1)) /\ Upto(comp, nPast)' = Upto(comp', nPast + (k + 1))
          BY <1>0, <3>2 DEF Text, Tok, Upto
        <5> QED BY <2>2, <5>1 DEF Holds
      <4>2. out' # <<>> /\ prompt + Len(out') = nPast' + 1
        <5>1. Len(emitted) \in Nat
          BY <3>1
        <5>2. /\ Len(out') = Len(out) + Len(emitted) /\ nPast' = nPast + (k + 1)
              /\ prompt + Len(out) + Len(emitted) = nPast + (k + 1) + 1
              /\ Len(emitted) > 0 /\ Len(out) \in Nat /\ prompt \in Nat
          BY <1>0, <3>1, <3>2, <3>3
        <5>3. Len(out') > 0 /\ prompt + Len(out') = nPast' + 1
          BY <5>1, <5>2
        <5> QED BY <3>3, <5>3
      <4>3. seed' = nPast' - 1
        BY <1>0, <2>2, <3>2
      <4>4. carry' = Tok(nPast)'
        BY <1>0, <2>3, <3>2 DEF Tok
      <4> QED BY <1>0, <1>4, <4>1, <4>2, <4>3, <4>4 DEF InReady, AtTip, EmittedUpto
    <3> QED BY <1>0, <2>2, <3>2, <3>3, <3>4, <3>5 DEF IInv
  <2> QED BY <2>5, <2>6
<1>5. CASE /\ SpecCommitFails(k + 1) /\ pc' = "stepFailed"
           /\ UNCHANGED <<carry, haveCarry, out, nPast>>
  <2>1. kv' \subseteq CacheCells /\ ckpt' \in BOOLEAN
    BY <1>0, <1>5 DEF SpecCommitFails, Upto, TypeOK
  <2> HIDE DEF ids
  <2>2. TypeOK'
    BY <1>0, <1>3, <1>5, <2>1 DEF SpecCommitFails, TypeOK, Calls
  <2> QED BY <1>0, <1>5, <2>2 DEF IInv, SpecCommitFails, EmittedIsContinuation, Tok
<1> QED BY <1>4, <1>5 DEF CommitStep

LEMMA CommitForCallerIInv ==
    ASSUME IInv, NEW k \in 0 .. Len(draft), NEW n \in 1 .. Len(draft) + 2,
           CommitForCaller(k, n)
    PROVE  IInv'
<1> DEFINE committed ==
              [i \in 1 .. n |-> IF i <= Len(rows) THEN rows[i].next ELSE Wrong]
<1>0. /\ TypeOK /\ gen \in Nat /\ gen > 0 /\ nPast \in Nat /\ prompt \in Nat /\ prompt > 0
      /\ Len(draft) \in Nat /\ k \in Nat /\ n \in Nat /\ Len(out) \in Nat
      /\ pc = "verified" /\ path = "draft" /\ Accepts(k)
      /\ n \in (1 .. k + 1) \cup {Len(draft) + 2}
      /\ InRound /\ GoodDraft /\ InVerified /\ EmittedIsContinuation
      /\ (ckpt => NeedsCkpt)
      /\ UNCHANGED <<rows, haveCarry, carry, smpl, prefill, fromCarry, draft>>
  BY DEF IInv, CommitForCaller, TypeOK
<1> USE DEF prefill
<1>1. /\ \A i \in 1 .. k : draft[i] = Tok(nPast + i)
      /\ \A i \in 1 .. k + 1 : rows[i].next = Tok(nPast + i)
  BY <1>0, AcceptedRight
<1>2. CASE /\ Committable(n) /\ SpecCommit(n)
           /\ out' = out \o committed /\ anchor' = committed[n]
           /\ nPast' = nPast + n /\ pc' \in {"ready", "done"}
  <2>1. n \in 1 .. k + 1 /\ n \in 1 .. Len(draft) + 1 /\ n \in 1 .. n
    BY <1>0, <1>2 DEF Committable
  <2>2. /\ committed \in Seq(Tokens) /\ Len(committed) = n
        /\ \A i \in 1 .. n : committed[i] = Tok(nPast + i)
    <3>1. Len(rows) = Len(draft) + 1
      BY <1>0 DEF InVerified
    <3>2. \A i \in 1 .. n : i <= Len(rows) /\ i \in 1 .. k + 1
      BY <1>0, <2>1, <3>1
    <3>3. \A i \in 1 .. n : committed[i] = Tok(nPast + i)
      BY <1>1, <3>2
    <3>4. \A i \in 1 .. n : Tok(nPast + i) \in Tokens
      BY <1>0 DEF Tok, Tokens
    <3>5. committed \in [1 .. n -> Tokens]
      BY <3>3, <3>4
    <3> HIDE DEF committed
    <3> QED BY <1>0, <3>3, <3>5, FunctionIsSeq
  <2> HIDE DEF committed
  <2>3. /\ kv' = Text(nPast + n) /\ kv' \subseteq CacheCells
        /\ rec' = (IF NeedsCkpt THEN kv' ELSE {})
        /\ comp' \subseteq CacheCells /\ Upto(comp', nPast + n) = Text(nPast + n)
        /\ seed' = nPast + n - 1 /\ seed' \in Nat /\ ckpt' = FALSE
    <3>0. k \in Nat /\ n \in Nat
      BY <1>0
    <3>1. \A i \in 1 .. n - 1 : i \in 1 .. k
      BY <2>1, <3>0
    <3>2. \A i \in 1 .. n - 1 : draft[i] = Tok(nPast + i)
      BY <1>1, <3>1
    <3> QED BY <1>0, <1>2, <2>1, <3>2, CommitHolds
  <2>4. prompt + Len(out) = nPast + 1
    <3>1. InRound /\ path = "draft"
      BY <1>0
    <3>2. EmittedUpto(nPast) /\ out # <<>>
      BY <3>1 DEF InRound
    <3> QED BY <3>2 DEF EmittedUpto
  <2>5. \A j \in 1 .. Len(committed) : committed[j] = Tok(prompt + Len(out) + j - 1)
    <3>1. SUFFICES ASSUME NEW j \in 1 .. n
                   PROVE  committed[j] = Tok(prompt + Len(out) + j - 1)
      BY <2>2
    <3>2. nPast \in Nat /\ prompt \in Nat /\ Len(out) \in Nat
      BY <1>0
    <3>3. prompt + Len(out) + j - 1 = nPast + j
      BY <2>4, <3>2
    <3> QED BY <2>2, <3>3
  <2>6. /\ EmittedIsContinuation' /\ out' \in Seq(Tokens)
        /\ Len(out') = Len(out) + n
    BY <1>0, <1>2, <2>2, <2>5, AppendContinuation
  <2>7. anchor' = Tok(nPast + n) /\ anchor' \in Tokens /\ nPast' \in Nat
    <3>1. anchor' = Tok(nPast + n) /\ n \in Nat
      BY <1>2, <2>1, <2>2
    <3>2. nPast' = nPast + n /\ nPast \in Nat /\ gen \in Nat
      BY <1>0, <1>2
    <3> QED BY <3>1, <3>2 DEF Tok, Tokens
  <2>8. rec' \subseteq CacheCells /\ ckpt' \in BOOLEAN
    <3>1. ckpt' \in BOOLEAN
      BY <2>3
    <3> QED BY <2>3, <3>1
  <2>9. TypeOK'
    BY <1>0, <1>2, <2>3, <2>6, <2>7, <2>8 DEF TypeOK, Calls
  <2>10. InReady'
    <3>1. Holds(nPast)'
      <4>1. Text(nPast)' = Text(nPast + n) /\ Upto(comp, nPast)' = Upto(comp', nPast + n)
        BY <1>0, <1>2 DEF Text, Tok, Upto
      <4> QED BY <2>3, <4>1 DEF Holds
    <3>2. /\ Len(out') = Len(out) + n /\ nPast' = nPast + n /\ seed' = nPast + n - 1
          /\ Len(out) \in Nat /\ prompt \in Nat /\ nPast \in Nat /\ n \in Nat /\ n > 0
      BY <1>0, <1>2, <2>1, <2>3, <2>6
    <3>3. Len(out') > 0 /\ prompt + Len(out') = nPast' + 1 /\ seed' = nPast' - 1
      BY <2>4, <3>2
    <3>4. out' # <<>>
      BY <2>6, <3>3
    <3>5. anchor' = Tok(nPast)'
      BY <1>0, <1>2, <2>7 DEF Tok
    <3> QED BY <1>0, <3>1, <3>3, <3>4, <3>5 DEF InReady, AtTip, EmittedUpto
  <2> QED BY <1>0, <1>2, <2>3, <2>6, <2>9, <2>10 DEF IInv
<1>3. CASE SpecCommitFails(n) /\ pc' = "failed" /\ UNCHANGED <<out, anchor, nPast>>
  <2>1. kv' \subseteq CacheCells /\ ckpt' \in BOOLEAN
    BY <1>0, <1>3 DEF SpecCommitFails, Upto, TypeOK
  <2>2. TypeOK'
    BY <1>0, <1>3, <2>1 DEF SpecCommitFails, TypeOK, Calls
  <2> QED BY <1>0, <1>3, <2>2 DEF IInv, SpecCommitFails, EmittedIsContinuation, Tok
<1>4. CASE pc' = "failed" /\ UNCHANGED <<kv, rec, companion, out, anchor, nPast>>
  BY <1>0, <1>4 DEF IInv, TypeOK, EmittedIsContinuation, Tok, Calls, companion
<1> QED BY <1>2, <1>3, <1>4 DEF CommitForCaller

-----------------------------------------------------------------------------
(* Between generations, and the theorems. *)

LEMMA StopIInv == ASSUME IInv, Stop PROVE IInv'
BY DEF IInv, Stop, TypeOK, EmittedIsContinuation, Tok, Calls, target, companion, prefill,
       round

LEMMA ClearContextIInv == ASSUME IInv, ClearContext PROVE IInv'
<1>1. TypeOK'
  BY DEF IInv, ClearContext, TypeOK, Calls, companion, prefill, round
<1> QED BY <1>1 DEF IInv, ClearContext, EmittedIsContinuation, Tok, companion, prefill

LEMMA NextIInv == ASSUME IInv, [Next]_vars PROVE IInv'
<1>1. ASSUME NEW n \in PromptLens, NEW way \in {"step", "draft"}, Begin(n, way)
      PROVE  IInv'
  BY <1>1, BeginIInv
<1>2. ASSUME NEW n \in 1 .. Chunk, DecodePrompt(n) PROVE IInv'
  BY <1>2, DecodePromptIInv
<1>3. CASE WarmPrompt
  BY <1>3, WarmPromptIInv
<1>4. CASE FinalizePrompt
  BY <1>4, FinalizePromptIInv
<1>5. CASE SampleAnchor
  BY <1>5, SampleAnchorIInv
<1>6. CASE TakeFirst
  BY <1>6, TakeFirstIInv
<1>7. CASE ProposeInStep
  BY <1>7, ProposeInStepIInv
<1>8. CASE ProposeForCaller
  BY <1>8, ProposeForCallerIInv
<1>9. CASE Verify
  BY <1>9, VerifyIInv
<1>10. ASSUME NEW k \in 0 .. Len(draft), CommitStep(k) PROVE IInv'
  BY <1>10, CommitStepIInv
<1>11. ASSUME NEW k \in 0 .. Len(draft), NEW n \in 1 .. Len(draft) + 2,
              CommitForCaller(k, n)
       PROVE  IInv'
  BY <1>11, CommitForCallerIInv
<1>12. CASE Stop
  BY <1>12, StopIInv
<1>13. CASE ClearContext
  BY <1>13, ClearContextIInv
<1>14. CASE UNCHANGED vars
  BY <1>14, StutterIInv
<1> QED BY <1>1, <1>2, <1>3, <1>4, <1>5, <1>6, <1>7, <1>8, <1>9, <1>10, <1>11, <1>12,
           <1>13, <1>14 DEF Next, Generation, Rounds

(* IInv is an invariant of every driver whose caller ends a generation at its *)
(* first error.                                                              *)
THEOREM Inductive == Spec => []IInv
<1>1. Init => IInv
  BY InitIInv
<1>2. IInv /\ [Next]_vars => IInv'
  BY NextIInv
<1> QED BY <1>1, <1>2, PTL DEF Spec

(* Type correctness of the driver and of the caches behind it.                *)
THEOREM TypeCorrect == Spec => []TypeOK
<1>1. IInv => TypeOK
  BY DEF IInv
<1> QED BY <1>1, Inductive, PTL

(* For every context size, batch size, draft length, prompt and sequence of   *)
(* failed calls: what `step` or the draft/commit loop emits is the target's   *)
(* own continuation of the prompt.                                           *)
THEOREM EmitsContinuation == Spec => []EmittedIsContinuation
<1>1. IInv => EmittedIsContinuation
  BY DEF IInv
<1> QED BY <1>1, Inductive, PTL

(* Between rounds h->n_past, the target's cache, the companion's cache and    *)
(* the captured hidden state stand at the same position.                     *)
THEOREM KeepsCachesAligned == Spec => []CachesAgree
<1>1. IInv => CachesAgree
  BY DEF IInv, InReady, AtTip, Holds, CachesAgree
<1> QED BY <1>1, Inductive, PTL

(* Between rounds a recurrent target has absorbed committed text only.        *)
THEOREM KeepsRecurrentClean == Spec => []RecurrentClean
<1>1. IInv => RecurrentClean
  BY DEF IInv, InReady, AtTip, Holds, RecurrentClean
<1> QED BY <1>1, Inductive, PTL

-----------------------------------------------------------------------------
(* The clamp. *)

(* A clamped verify batch fits n_batch and stays below n_ctx.                 *)
LEMMA ClampedIsDecodable ==
    ASSUME TypeOK, nPast < NCtx, Len(draft) <= MaxDraft(nPast)
    PROVE  ~ Undecodable(VerifyBatch)
<1>0. nPast \in Nat /\ Len(draft) \in Nat /\ NCtx \in Nat /\ NBatch \in Nat /\ NBatch > 0
  BY ConstantsAssumption DEF TypeOK
<1>1. Len(draft) + 1 <= NBatch /\ nPast + Len(draft) < NCtx
  BY <1>0 DEF MaxDraft
<1>2. /\ Len(VerifyBatch) = Len(draft) + 1
      /\ VerifyBatch[1] = Cell(nPast, anchor)
      /\ \A i \in 1 .. Len(draft) : VerifyBatch[i + 1] = Cell(nPast + i, draft[i])
  BY VerifyBatchCells
<1>3. ASSUME NEW j \in 1 .. Len(draft) + 1 PROVE ~ (VerifyBatch[j].pos >= NCtx)
  <2>1. CASE j = 1
    BY <1>0, <1>2, <2>1
  <2>2. CASE j # 1
    <3>1. j - 1 \in 1 .. Len(draft) /\ (j - 1) + 1 = j
      BY <1>0, <2>2
    <3>2. VerifyBatch[j] = Cell(nPast + (j - 1), draft[j - 1])
      BY <1>2, <3>1
    <3> QED BY <1>0, <1>1, <3>1, <3>2
  <2> QED BY <2>1, <2>2
<1>4. ~ (Len(VerifyBatch) > NBatch)
  BY <1>0, <1>1, <1>2
<1> QED BY <1>2, <1>3, <1>4 DEF Undecodable

(* A draft within the clamp leaves room for the token after it. *)
LEMMA ClampLeavesRoom ==
    ASSUME NEW base \in Nat, NEW k \in Nat, k <= MaxDraft(base), base < NCtx
    PROVE  base + k + 1 <= NCtx
BY ConstantsAssumption DEF MaxDraft

LEMMA ClampedStep ==
    ASSUME IInv, Clamped, [Next]_vars
    PROVE  Clamped'
<1>0. TypeOK /\ nPast \in Nat /\ gen \in Nat /\ prompt \in Nat /\ NCtx \in Nat
      /\ Len(draft) \in Nat
  BY ConstantsAssumption DEF IInv, TypeOK
<1> USE DEF Clamped, AbortsOnlyWhenFull, prefill
<1>1. CASE SampleAnchor
  BY <1>1 DEF SampleAnchor
<1>2. CASE ProposeInStep
  <2>1. pc = "anchored" /\ nPast' = nPast /\ gen' = gen
    BY <1>2 DEF ProposeInStep, prefill
  <2>2. CASE Propose(nPast) /\ pc' = "drafted"
    <3>1. Len(draft') <= MaxDraft(nPast)
      BY <1>0, <2>1, <2>2, ProposeGood
    <3> QED BY <1>2, <2>1, <2>2, <3>1 DEF MaxDraft, ProposeInStep
  <2>3. CASE pc' = "stepFailed"
    BY <1>2, <2>1, <2>3 DEF ProposeInStep
  <2> QED BY <1>2, <2>2, <2>3 DEF ProposeInStep
<1>3. CASE ProposeForCaller
  <2>1. /\ pc = "ready" /\ path = "draft" /\ out # <<>> /\ InReady
        /\ nPast' = prompt + Len(out) - 1 /\ gen' = gen
    BY <1>3 DEF ProposeForCaller, prefill, IInv
  <2>2. nPast' = nPast /\ prompt + Len(out) - 1 = nPast
    BY <1>0, <2>1 DEF InReady, AtTip, EmittedUpto, TypeOK
  <2>3. CASE Propose(nPast) /\ pc' = "drafted"
    <3>1. Len(draft') <= MaxDraft(nPast)
      BY <1>0, <2>1, <2>2, <2>3, ProposeGood
    <3> QED BY <1>3, <2>1, <2>2, <2>3, <3>1 DEF MaxDraft, ProposeForCaller
  <2>4. CASE pc' = "failed"
    BY <1>3, <2>2, <2>4 DEF ProposeForCaller
  <2> QED BY <1>3, <2>2, <2>3, <2>4, <2>1 DEF ProposeForCaller
<1>4. CASE Verify
  <2>1. pc = "drafted" /\ nPast' = nPast /\ draft' = draft /\ nPast <= NCtx
    BY <1>4 DEF Verify, round
  <2>2. Len(draft) <= MaxDraft(nPast) /\ MaxDraft(nPast)' = MaxDraft(nPast)
    BY <2>1 DEF MaxDraft
  <2>3. CASE nPast < NCtx
    <3>1. ~ Undecodable(VerifyBatch)
      BY <1>0, <2>2, <2>3, ClampedIsDecodable
    <3> QED BY <1>4, <2>1, <2>2, <2>3, <3>1 DEF Verify, Fail
  <2>4. CASE ~ (nPast < NCtx)
    <3>1. VerifyBatch[1].pos >= NCtx /\ 1 \in 1 .. Len(VerifyBatch)
      BY <1>0, <2>1, <2>4, VerifyBatchCells
    <3>2. Undecodable(VerifyBatch)
      BY <3>1 DEF Undecodable
    <3> QED BY <1>0, <1>4, <2>1, <2>2, <2>4, <3>2 DEF Verify
  <2> QED BY <2>3, <2>4
<1>5. ASSUME NEW n \in PromptLens, NEW way \in {"step", "draft"}, Begin(n, way)
      PROVE  Clamped'
  <2>1. n <= NCtx
    BY ConstantsAssumption
  <2> QED BY <1>5, <2>1 DEF Begin
<1>6. ASSUME NEW n \in 1 .. Chunk, DecodePrompt(n) PROVE Clamped'
  BY <1>6 DEF DecodePrompt
<1>7. ASSUME NEW k \in 0 .. Len(draft), CommitStep(k) PROVE Clamped'
  <2>1. k \in Nat /\ k <= Len(draft) /\ pc = "verified"
    BY <1>0, <1>7 DEF CommitStep
  <2>2. nPast + Len(draft) + 1 <= NCtx
    BY <1>0, <2>1, ClampLeavesRoom
  <2>3. nPast + k + 1 <= NCtx
    BY <1>0, <2>1, <2>2
  <2>4. nPast' \in {nPast, nPast + k + 1} /\ pc' \in {"ready", "stepFailed"}
    BY <1>7 DEF CommitStep
  <2> QED BY <1>7, <2>3, <2>4 DEF CommitStep
<1>8. ASSUME NEW k \in 0 .. Len(draft), NEW n \in 1 .. Len(draft) + 2,
             CommitForCaller(k, n)
      PROVE  Clamped'
  <2>1. pc = "verified" /\ n \in Nat
    BY <1>0, <1>8 DEF CommitForCaller
  <2>2. nPast + Len(draft) + 1 <= NCtx
    BY <1>0, <2>1, ClampLeavesRoom
  <2>3. /\ pc' \in {"ready", "done", "failed"}
        /\ nPast' = nPast \/ (n <= Len(draft) + 1 /\ nPast' = nPast + n)
    BY <1>8 DEF CommitForCaller, Committable
  <2>4. nPast' <= NCtx
    BY <1>0, <2>1, <2>2, <2>3
  <2> QED BY <1>8, <2>3, <2>4 DEF CommitForCaller
<1>9. CASE FinalizePrompt
  <2>1. nPast' = prompt /\ pc' \in {"ready", "failed"}
    BY <1>9 DEF FinalizePrompt
  <2>2. prompt <= NCtx
    OBVIOUS
  <2> QED BY <1>9, <2>1, <2>2 DEF FinalizePrompt
<1>10. CASE Stop \/ ClearContext \/ WarmPrompt \/ TakeFirst
  BY <1>10 DEF Stop, ClearContext, WarmPrompt, TakeFirst
<1>11. CASE UNCHANGED vars
  BY <1>11 DEF vars, round, MaxDraft
<1> QED BY <1>1, <1>2, <1>3, <1>4, <1>5, <1>6, <1>7, <1>8, <1>9, <1>10, <1>11
        DEF Next, Generation, Rounds

(* Whatever n_ctx, n_batch and n_max are, the clamp is tight enough: only the  *)
(* anchor of a round begun in a full context can reach llama_decode's          *)
(* assertion, never a draft, and n_past never passes n_ctx.                   *)
THEOREM ClampSuffices == Spec => []AbortsOnlyWhenFull
<1>1. Init => Clamped
  BY ConstantsAssumption DEF Init, Clamped, AbortsOnlyWhenFull
<1>2. IInv /\ Clamped /\ [Next]_vars => Clamped'
  BY ClampedStep
<1>3. Clamped => AbortsOnlyWhenFull
  BY DEF Clamped
<1> QED BY <1>1, <1>2, <1>3, Inductive, PTL DEF Spec

-----------------------------------------------------------------------------
(* What a commit emits. *)

LEMMA RowTyped ==
    ASSUME rows \in Seq([pos : Nat, next : Tokens]), NEW i \in 1 .. Len(rows)
    PROVE  rows[i].next \in Tokens
<1> DEFINE Row == [pos : Nat, next : Tokens]
<1>1. ASSUME NEW S, NEW s \in Seq(S), NEW j \in 1 .. Len(s) PROVE s[j] \in S
  OBVIOUS
<1>2. rows[i] \in Row
  <2> HIDE DEF Row
  <2>1. rows \in Seq(Row)
    BY DEF Row
  <2> QED BY <1>1, <2>1
<1> QED BY <1>2

(* The sampled rows of an accepted draft. *)
LEMMA PicksTyped ==
    ASSUME IInv, pc = "verified", NEW k \in 0 .. Len(draft)
    PROVE  /\ Picks(k + 1) \in Seq(Tokens) /\ Len(Picks(k + 1)) = k + 1
           /\ k \in Nat /\ k <= NMax
<1>1. /\ Len(draft) \in Nat /\ Len(draft) <= NMax /\ Len(rows) = Len(draft) + 1
      /\ rows \in Seq([pos : Nat, next : Tokens]) /\ NMax \in Nat
  BY ConstantsAssumption DEF IInv, TypeOK, GoodDraft, InVerified
<1>2. k \in Nat /\ k + 1 \in Nat /\ k <= NMax
  BY <1>1
<1>3. \A i \in 1 .. k + 1 : rows[i].next \in Tokens
  <2>1. \A i \in 1 .. k + 1 : i \in 1 .. Len(rows)
    BY <1>1
  <2> QED BY <1>1, <2>1, RowTyped
<1>4. Picks(k + 1) \in [1 .. k + 1 -> Tokens]
  BY <1>3 DEF Picks
<1> QED BY <1>2, <1>4, FunctionIsSeq

(* The output array of `step` holds whatever a round can emit.               *)
LEMMA StepFits ==
    ASSUME IInv, pc = "verified", NEW k \in 0 .. Len(draft)
    PROVE  LET emitted == (IF fromCarry THEN <<>> ELSE <<anchor>>) \o Picks(k + 1) IN
           /\ emitted \in Seq(Tokens) /\ Len(emitted) <= Cap
           /\ Len(emitted) = k + 1 + (IF fromCarry THEN 0 ELSE 1)
<1> DEFINE ids == Picks(k + 1)
           first == IF fromCarry THEN <<>> ELSE <<anchor>>
<1>1. ids \in Seq(Tokens) /\ Len(ids) = k + 1 /\ k \in Nat /\ k <= NMax
  BY PicksTyped
<1>2. first \in Seq(Tokens) /\ Len(first) = IF fromCarry THEN 0 ELSE 1
  BY DEF IInv, TypeOK
<1> HIDE DEF ids, first
<1>3. first \o ids \in Seq(Tokens) /\ Len(first \o ids) = Len(first) + Len(ids)
  BY <1>1, <1>2, ConcatProperties
<1>4. Len(first) + Len(ids) = k + 1 + (IF fromCarry THEN 0 ELSE 1)
  BY <1>1, <1>2
<1>5. k + 1 + (IF fromCarry THEN 0 ELSE 1) <= Cap
  BY <1>1, ConstantsAssumption DEF Cap
<1> QED BY <1>3, <1>4, <1>5 DEF first, ids

(* What is left behind by a commit that failed, and by one that went through. *)
Untouched == UNCHANGED <<out, nPast, seed>> /\ pc' \in {"failed", "stepFailed"}

HandedOver ==
    /\ \E n \in 1 .. Cap : Len(out') = Len(out) + n
    /\ prompt + Len(out') = nPast' + 1
    /\ nPast' = seed' + 1 /\ pc' \in {"ready", "done"}

LEMMA StepCommits ==
    ASSUME IInv, NEW k \in 0 .. Len(draft), CommitStep(k)
    PROVE  Untouched \/ HandedOver
<1> DEFINE emitted == (IF fromCarry THEN <<>> ELSE <<anchor>>) \o Picks(k + 1)
<1>1. /\ TypeOK /\ gen \in Nat /\ gen > 0 /\ nPast \in Nat /\ prompt \in Nat
      /\ Len(draft) \in Nat /\ k \in Nat /\ Len(out) \in Nat /\ out \in Seq(Tokens)
      /\ pc = "verified" /\ path = "step" /\ Accepts(k)
      /\ InRound /\ GoodDraft /\ InVerified /\ (ckpt => NeedsCkpt)
  BY DEF IInv, CommitStep, TypeOK
<1>2. /\ emitted \in Seq(Tokens) /\ Len(emitted) <= Cap
      /\ Len(emitted) = k + 1 + (IF fromCarry THEN 0 ELSE 1)
  BY <1>1, StepFits
<1>3. prompt + Len(out) = nPast + (IF fromCarry THEN 1 ELSE 0)
  BY <1>1 DEF InRound, EmittedUpto
<1> HIDE DEF emitted
<1>4. CASE /\ SpecCommit(k + 1) /\ out' = out \o emitted /\ nPast' = nPast + k + 1
           /\ pc' = "ready"
  <2>1. seed' = nPast + (k + 1) - 1
    <3>1. k + 1 \in 1 .. Len(draft) + 1 /\ (k + 1) - 1 = k
      BY <1>1
    <3>2. \A i \in 1 .. k : draft[i] = Tok(nPast + i)
      BY <1>1, AcceptedRight
    <3> QED BY <1>1, <1>4, <3>1, <3>2, CommitHolds
  <2>2. Len(out') = Len(out) + Len(emitted)
    BY <1>1, <1>2, <1>4, ConcatProperties
  <2>3. Len(emitted) \in 1 .. Cap
    BY <1>1, <1>2, ConstantsAssumption DEF Cap
  <2>4. prompt + Len(out') = nPast' + 1 /\ nPast' = seed' + 1
    <3>1. prompt \in Nat /\ nPast \in Nat /\ k \in Nat /\ Len(out) \in Nat
      BY <1>1
    <3>2. nPast' = nPast + k + 1 /\ Len(out') = Len(out) + Len(emitted)
      BY <1>4, <2>2
    <3>3. nPast' = seed' + 1
      BY <2>1, <3>1, <3>2
    <3>4. CASE fromCarry
      BY <1>2, <1>3, <3>1, <3>2, <3>3, <3>4
    <3>5. CASE ~ fromCarry
      BY <1>2, <1>3, <3>1, <3>2, <3>3, <3>5
    <3> QED BY <3>4, <3>5
  <2> QED BY <1>4, <2>2, <2>3, <2>4 DEF HandedOver
<1>5. CASE SpecCommitFails(k + 1) /\ pc' = "stepFailed" /\ UNCHANGED <<out, nPast>>
  BY <1>5 DEF Untouched, SpecCommitFails
<1> QED BY <1>2, <1>4, <1>5 DEF CommitStep, emitted

LEMMA CallerCommits ==
    ASSUME IInv, NEW k \in 0 .. Len(draft), NEW n \in 1 .. Len(draft) + 2,
           CommitForCaller(k, n)
    PROVE  Untouched \/ HandedOver
<1> DEFINE committed ==
              [i \in 1 .. n |-> IF i <= Len(rows) THEN rows[i].next ELSE Wrong]
<1>1. /\ TypeOK /\ gen \in Nat /\ gen > 0 /\ nPast \in Nat /\ prompt \in Nat
      /\ Len(draft) \in Nat /\ k \in Nat /\ n \in Nat /\ Len(out) \in Nat
      /\ out \in Seq(Tokens) /\ rows \in Seq([pos : Nat, next : Tokens])
      /\ pc = "verified" /\ path = "draft" /\ Accepts(k)
      /\ n \in (1 .. k + 1) \cup {Len(draft) + 2}
      /\ InRound /\ GoodDraft /\ InVerified /\ (ckpt => NeedsCkpt)
  BY DEF IInv, CommitForCaller, TypeOK
<1>2. prompt + Len(out) = nPast + 1
  BY <1>1 DEF InRound, EmittedUpto
<1>3. CASE /\ Committable(n) /\ SpecCommit(n)
           /\ out' = out \o committed /\ nPast' = nPast + n
           /\ pc' \in {"ready", "done"}
  <2>1. n \in 1 .. k + 1 /\ n \in 1 .. Len(draft) + 1
    BY <1>1, <1>3 DEF Committable
  <2>2. seed' = nPast + n - 1
    <3>1. \A i \in 1 .. k : draft[i] = Tok(nPast + i)
      BY <1>1, AcceptedRight
    <3>2. \A i \in 1 .. n - 1 : i \in 1 .. k
      BY <1>1, <2>1
    <3> QED BY <1>1, <1>3, <2>1, <3>1, <3>2, CommitHolds
  <2>3. committed \in Seq(Tokens) /\ Len(committed) = n
    <3>1. Wrong \in Tokens
      BY DEF Wrong, Tokens
    <3>2. \A i \in 1 .. n : i <= Len(rows) => rows[i].next \in Tokens
      <4>1. \A i \in 1 .. n : i <= Len(rows) => i \in 1 .. Len(rows)
        BY <1>1
      <4> QED BY <1>1, <4>1, RowTyped
    <3>3. committed \in [1 .. n -> Tokens]
      BY <3>1, <3>2
    <3> HIDE DEF committed
    <3> QED BY <1>1, <3>3, FunctionIsSeq
  <2> HIDE DEF committed
  <2>4. Len(out') = Len(out) + n
    BY <1>1, <1>3, <2>3, ConcatProperties
  <2>5. n \in 1 .. Cap
    <3>1. Len(draft) <= NMax /\ NMax \in Nat
      BY <1>1, ConstantsAssumption DEF GoodDraft
    <3> QED BY <1>1, <2>1, <3>1 DEF Cap
  <2>6. prompt + Len(out') = nPast' + 1 /\ nPast' = seed' + 1
    <3>1. prompt \in Nat /\ nPast \in Nat /\ n \in Nat /\ Len(out) \in Nat
      BY <1>1
    <3>2. nPast' = nPast + n
      BY <1>3
    <3> QED BY <1>2, <2>2, <2>4, <3>1, <3>2
  <2> QED BY <1>3, <2>4, <2>5, <2>6 DEF HandedOver
<1>4. CASE SpecCommitFails(n) /\ pc' = "failed" /\ UNCHANGED <<out, nPast>>
  BY <1>4 DEF Untouched, SpecCommitFails
<1>5. CASE pc' = "failed" /\ UNCHANGED <<companion, out, nPast>>
  BY <1>5 DEF Untouched, companion
<1> QED BY <1>3, <1>4, <1>5 DEF CommitForCaller

(* CommitEmits: whatever n_max and the accepted length, a commit that went    *)
(* through has handed its tokens over and advanced n_past in the same call.   *)
THEOREM CommitsEmit == Spec => CommitEmits
<1>1. ASSUME IInv, Next, Untouched \/ HandedOver, seed' # seed
      PROVE  /\ nPast' = seed' + 1
             /\ Len(out') > Len(out) /\ prompt + Len(out') = nPast' + 1
  <2>1. HandedOver /\ Len(out) \in Nat /\ prompt \in Nat
    BY <1>1 DEF Untouched, IInv, TypeOK
  <2>2. PICK n \in 1 .. Cap : Len(out') = Len(out) + n
    BY <2>1 DEF HandedOver
  <2>3. Len(out') > Len(out)
    BY <2>1, <2>2
  <2> QED BY <2>1, <2>3 DEF HandedOver
<1>2. IInv /\ [Next]_vars =>
          [ pc = "verified" /\ seed' # seed =>
              /\ nPast' = seed' + 1
              /\ Len(out') > Len(out) /\ prompt + Len(out') = nPast' + 1 ]_vars
  <2> SUFFICES ASSUME IInv, Next, pc = "verified", seed' # seed
               PROVE  /\ nPast' = seed' + 1
                      /\ Len(out') > Len(out) /\ prompt + Len(out') = nPast' + 1
    OBVIOUS
  <2>1. CASE \E k \in 0 .. Len(draft) : CommitStep(k)
    BY <1>1, <2>1, StepCommits
  <2>2. CASE \E k \in 0 .. Len(draft), n \in 1 .. Len(draft) + 2 : CommitForCaller(k, n)
    BY <1>1, <2>2, CallerCommits
  <2> QED BY <2>1, <2>2 DEF Next, Generation, Rounds, Begin, DecodePrompt, WarmPrompt,
               FinalizePrompt, SampleAnchor, TakeFirst, ProposeInStep, ProposeForCaller,
               Verify, Stop, ClearContext
<1> QED BY <1>2, Inductive, PTL DEF Spec, CommitEmits

-----------------------------------------------------------------------------
(* Plain decoding. *)

(* Two sequences that hold the right text from position p on, one n longer.    *)
LEMMA LongerText ==
    ASSUME NEW g \in Nat, NEW p \in Nat, NEW n \in Nat,
           NEW short \in Seq(Tokens), NEW long \in Seq(Tokens),
           Len(long) = Len(short) + n,
           \A i \in 1 .. Len(short) : short[i] = <<g, p + i - 1>>,
           \A i \in 1 .. Len(long) : long[i] = <<g, p + i - 1>>
    PROVE  long = short \o [i \in 1 .. n |-> <<g, p + Len(short) + i - 1>>]
<1> DEFINE more == [i \in 1 .. n |-> <<g, p + Len(short) + i - 1>>]
<1>1. Len(short) \in Nat /\ \A i \in 1 .. n : more[i] = <<g, p + Len(short) + i - 1>>
  OBVIOUS
<1>2. more \in Seq(Tokens) /\ Len(more) = n
  <2>1. \A i \in 1 .. n : <<g, p + Len(short) + i - 1>> \in Tokens
    BY <1>1 DEF Tokens
  <2>2. more \in [1 .. n -> Tokens]
    BY <2>1
  <2> HIDE DEF more
  <2> QED BY <2>2, FunctionIsSeq
<1> HIDE DEF more
<1>3. /\ short \o more \in Seq(Tokens) /\ Len(short \o more) = Len(long)
      /\ \A i \in 1 .. Len(short) + n :
            (short \o more)[i] = IF i <= Len(short) THEN short[i] ELSE more[i - Len(short)]
  BY <1>2, ConcatProperties
<1>4. ASSUME NEW i \in 1 .. Len(long) PROVE long[i] = (short \o more)[i]
  <2>1. i \in 1 .. Len(short) + n
    OBVIOUS
  <2>2. CASE i <= Len(short)
    <3>1. i \in 1 .. Len(short)
      BY <1>1, <2>1, <2>2
    <3>2. (short \o more)[i] = short[i]
      BY <1>3, <2>1, <2>2
    <3>3. short[i] = <<g, p + i - 1>> /\ long[i] = <<g, p + i - 1>>
      BY <1>4, <3>1
    <3> QED BY <3>2, <3>3
  <2>3. CASE i > Len(short)
    <3>1. i - Len(short) \in 1 .. n
      BY <1>1, <2>1, <2>3
    <3>2. p + Len(short) + (i - Len(short)) - 1 = p + i - 1
      BY <1>1, <2>1
    <3>3. (short \o more)[i] = more[i - Len(short)]
      BY <1>1, <1>3, <2>1, <2>3
    <3>4. more[i - Len(short)] = <<g, p + i - 1>>
      BY <1>1, <3>1, <3>2
    <3>5. long[i] = <<g, p + i - 1>>
      BY <1>4
    <3> QED BY <3>3, <3>4, <3>5
  <2>4. i <= Len(short) \/ i > Len(short)
    BY <1>1, <2>1
  <2> QED BY <2>2, <2>3, <2>4
<1> QED BY <1>3, <1>4, SeqEqual DEF more

(* Whatever a step adds to the output is the continuation of what was there. *)
LEMMA GrowsByContinuation ==
    ASSUME IInv, IInv', NEW n \in Nat, Len(out') = Len(out) + n,
           gen' = gen, prompt' = prompt
    PROVE  out' = out \o Plain!Continuation(n)
<1>1. out \in Seq(Tokens) /\ out' \in Seq(Tokens) /\ prompt \in Nat /\ gen \in Nat
  BY DEF IInv, TypeOK
<1>2. /\ \A i \in 1 .. Len(out) : out[i] = <<gen, prompt + i - 1>>
      /\ \A i \in 1 .. Len(out') : out'[i] = <<gen, prompt + i - 1>>
  BY DEF IInv, EmittedIsContinuation, Tok
<1> QED BY <1>1, <1>2, LongerText DEF Plain!Continuation

(* Where the driver stands seen as a phase of plain decoding. *)
Phase == IF pc = "new" THEN "idle" ELSE IF pc \in Over THEN "over" ELSE "running"

Unmoved == UNCHANGED <<gen, prompt, out>>

(* A step that emits nothing stutters or ends the generation. *)
LEMMA QuietStep ==
    ASSUME Unmoved, Phase = "running", Phase' \in {"running", "over"}
    PROVE  [Plain!DNext]_(Plain!dvars)
<1>1. CASE Phase' = Phase
  BY <1>1 DEF Phase, Unmoved, Plain!dvars
<1>2. CASE Phase' = "over"
  BY <1>2 DEF Phase, Unmoved, Plain!DNext, Plain!End
<1> QED BY <1>1, <1>2

(* A step that emits n tokens is one burst. *)
LEMMA BurstStep ==
    ASSUME IInv, IInv', NEW n \in 1 .. Cap, Len(out') = Len(out) + n,
           gen' = gen, prompt' = prompt, Phase = "running", Phase' \in {"running", "over"}
    PROVE  Plain!DNext
<1>1. n \in Nat
  BY ConstantsAssumption DEF Cap
<1>2. out' = out \o Plain!Continuation(n)
  BY <1>1, GrowsByContinuation
<1>3. Plain!Emit(n)
  BY <1>2 DEF Phase, Plain!Emit
<1> QED BY <1>3 DEF Plain!DNext

LEMMA CommitPlain ==
    ASSUME IInv, IInv', pc = "verified", Untouched \/ HandedOver,
           gen' = gen, prompt' = prompt
    PROVE  [Plain!DNext]_(Plain!dvars)
<1>1. CASE Untouched
  BY <1>1, QuietStep DEF Untouched, Unmoved, Phase, Over
<1>2. CASE HandedOver
  <2>1. PICK n \in 1 .. Cap : Len(out') = Len(out) + n
    BY <1>2 DEF HandedOver
  <2>2. Phase = "running" /\ Phase' \in {"running", "over"}
    BY <1>2 DEF HandedOver, Phase, Over
  <2> QED BY <2>1, <2>2, BurstStep
<1> QED BY <1>1, <1>2

(* The driver's initial states and steps are those of plain decoding, for     *)
(* every n_max, n_batch, context size and prompt, whichever call fails: what  *)
(* ImplementsDecoding says but for its fairness.                             *)
THEOREM SpeculationIsPlainDecoding ==
    Spec => Plain!DInit /\ [][Plain!DNext]_(Plain!dvars)
<1>1. Init => Plain!DInit
  BY DEF Init, Plain!DInit
<1>2. IInv /\ IInv' /\ [Next]_vars => [Plain!DNext]_(Plain!dvars)
  <2> SUFFICES ASSUME IInv, IInv', [Next]_vars PROVE [Plain!DNext]_(Plain!dvars)
    OBVIOUS
  <2>1. ASSUME NEW n \in PromptLens, NEW way \in {"step", "draft"}, Begin(n, way)
        PROVE  Plain!DNext
    BY <2>1 DEF Begin, Over, Plain!DNext, Plain!Start
  <2>2. ASSUME NEW n \in 1 .. Chunk, DecodePrompt(n)
        PROVE  Unmoved /\ Phase = "running" /\ Phase' \in {"running", "over"}
    BY <2>2 DEF DecodePrompt, prefill, Unmoved, Phase, Over
  <2>3. CASE WarmPrompt
    BY <2>3, QuietStep DEF WarmPrompt, Unmoved, Phase, Over
  <2>4. CASE FinalizePrompt
    BY <2>4, QuietStep DEF FinalizePrompt, prefill, Unmoved, Phase, Over
  <2>5. CASE SampleAnchor
    BY <2>5, QuietStep DEF SampleAnchor, prefill, Unmoved, Phase, Over
  <2>6. CASE TakeFirst
    <3>1. 1 \in 1 .. Cap
      BY ConstantsAssumption DEF Cap
    <3>2. Len(out') = Len(out) + 1
      BY <2>6 DEF TakeFirst
    <3> QED BY <2>6, <3>1, <3>2, BurstStep DEF TakeFirst, prefill, Phase, Over
  <2>7. CASE ProposeInStep
    BY <2>7, QuietStep DEF ProposeInStep, prefill, Unmoved, Phase, Over
  <2>8. CASE ProposeForCaller
    BY <2>8, QuietStep DEF ProposeForCaller, prefill, Unmoved, Phase, Over
  <2>9. CASE Verify
    BY <2>9, QuietStep DEF Verify, Fail, prefill, Unmoved, Phase, Over
  <2>10. ASSUME NEW k \in 0 .. Len(draft), CommitStep(k)
         PROVE  [Plain!DNext]_(Plain!dvars)
    BY <2>10, StepCommits, CommitPlain DEF CommitStep, prefill
  <2>11. ASSUME NEW k \in 0 .. Len(draft), NEW n \in 1 .. Len(draft) + 2,
                CommitForCaller(k, n)
         PROVE  [Plain!DNext]_(Plain!dvars)
    BY <2>11, CallerCommits, CommitPlain DEF CommitForCaller, prefill
  <2>12. CASE Stop
    BY <2>12, QuietStep DEF Stop, prefill, Unmoved, Phase, Over
  <2>13. CASE ClearContext
    BY <2>13 DEF ClearContext, prefill, Over, Plain!DNext, Plain!Reset
  <2>14. CASE UNCHANGED vars
    BY <2>14 DEF vars, prefill, Plain!dvars
  <2> QED BY <2>1, <2>2, <2>3, <2>4, <2>5, <2>6, <2>7, <2>8, <2>9, <2>10, <2>11,
             <2>12, <2>13, <2>14, QuietStep DEF Next, Generation, Rounds
<1> QED BY <1>1, <1>2, Inductive, PTL DEF Spec

-----------------------------------------------------------------------------
(* The sampler's history. *)

(* What has been accepted since a mark, after more is accepted. *)
LEMMA AcceptedSince ==
    ASSUME NEW s \in Seq(Tokens), NEW t \in Seq(Tokens), NEW m \in Nat, m <= Len(s)
    PROVE  /\ SubSeq(s \o t, m + 1, Len(s \o t)) = SubSeq(s, m + 1, Len(s)) \o t
           /\ m <= Len(s \o t)
<1> DEFINE all == s \o t
           since == SubSeq(s, m + 1, Len(s))
           lhs == SubSeq(all, m + 1, Len(all))
           rhs == since \o t
<1>1. /\ Len(s) \in Nat /\ Len(t) \in Nat /\ all \in Seq(Tokens)
      /\ Len(all) = Len(s) + Len(t)
      /\ \A i \in 1 .. Len(s) + Len(t) : all[i] = IF i <= Len(s) THEN s[i] ELSE t[i - Len(s)]
  BY ConcatProperties
<1>2. /\ since \in Seq(Tokens) /\ Len(since) = Len(s) - m
      /\ \A i \in 1 .. Len(s) - m : since[i] = s[m + i]
  <2>1. \A i \in m + 1 .. Len(s) : s[i] \in Tokens
    OBVIOUS
  <2>2. /\ since \in Seq(Tokens)
        /\ Len(since) = IF m + 1 <= Len(s) THEN Len(s) - (m + 1) + 1 ELSE 0
        /\ \A i \in 1 .. Len(s) - (m + 1) + 1 : since[i] = s[m + 1 + i - 1]
    BY <1>1, <2>1, SubSeqProperties
  <2> HIDE DEF since
  <2>3. Len(since) = Len(s) - m /\ Len(s) - (m + 1) + 1 = Len(s) - m
    BY <1>1, <2>2
  <2>4. \A i \in 1 .. Len(s) - m : m + 1 + i - 1 = m + i
    BY <1>1
  <2> QED BY <2>2, <2>3, <2>4
<1> HIDE DEF all, since
<1>3. /\ lhs \in Seq(Tokens) /\ Len(lhs) = Len(all) - m
      /\ \A i \in 1 .. Len(all) - m : lhs[i] = all[m + i]
  <2>1. \A i \in m + 1 .. Len(all) : all[i] \in Tokens
    BY <1>1
  <2>2. /\ lhs \in Seq(Tokens)
        /\ Len(lhs) = IF m + 1 <= Len(all) THEN Len(all) - (m + 1) + 1 ELSE 0
        /\ \A i \in 1 .. Len(all) - (m + 1) + 1 : lhs[i] = all[m + 1 + i - 1]
    BY <1>1, <2>1, SubSeqProperties
  <2> HIDE DEF lhs
  <2>3. Len(lhs) = Len(all) - m /\ Len(all) - (m + 1) + 1 = Len(all) - m
    BY <1>1, <2>2
  <2>4. \A i \in 1 .. Len(all) - m : m + 1 + i - 1 = m + i
    BY <1>1
  <2> QED BY <2>2, <2>3, <2>4
<1>4. /\ rhs \in Seq(Tokens) /\ Len(rhs) = Len(since) + Len(t)
      /\ \A i \in 1 .. Len(since) + Len(t) :
            rhs[i] = IF i <= Len(since) THEN since[i] ELSE t[i - Len(since)]
  BY <1>2, ConcatProperties
<1> HIDE DEF lhs, rhs
<1>5. Len(lhs) = Len(rhs) /\ Len(lhs) = Len(s) - m + Len(t)
  BY <1>1, <1>2, <1>3, <1>4
<1>6. ASSUME NEW i \in 1 .. Len(lhs) PROVE lhs[i] = rhs[i]
  <2>1. lhs[i] = all[m + i] /\ m + i \in 1 .. Len(s) + Len(t) /\ i \in Int
    BY <1>1, <1>3, <1>5, <1>6
  <2>2. CASE i <= Len(s) - m
    <3>1. rhs[i] = since[i] /\ since[i] = s[m + i] /\ m + i <= Len(s)
      BY <1>1, <1>2, <1>4, <1>5, <2>1, <2>2
    <3> QED BY <1>1, <2>1, <3>1
  <2>3. CASE i > Len(s) - m
    <3>1. rhs[i] = t[i - (Len(s) - m)] /\ ~ (m + i <= Len(s))
      BY <1>1, <1>2, <1>4, <1>5, <2>1, <2>3
    <3>2. i - (Len(s) - m) = m + i - Len(s)
      BY <1>1, <2>1
    <3> QED BY <1>1, <2>1, <3>1, <3>2
  <2> QED BY <1>1, <2>1, <2>2, <2>3
<1>7. lhs = rhs
  BY <1>3, <1>4, <1>5, <1>6, SeqEqual
<1>8. m <= Len(all)
  BY <1>1
<1> QED BY Zenon, <1>7, <1>8 DEF all, since, lhs, rhs

Accepted == SubSeq(smpl, mark + 1, Len(smpl))

(* The round's anchor, when the sampler has drawn it but nobody emitted it.   *)
Pending == IF fromCarry THEN <<>> ELSE <<anchor>>

(* In a `step` generation the sampler has accepted what was emitted, and in a *)
(* running round the anchor that the commit will emit first.                 *)
Synced ==
    /\ mark <= Len(smpl)
    /\ path = "step" /\ pc \in {"prefill", "warming", "ready"} => Accepted = out
    /\ path = "step" /\ pc \in {"anchored", "drafted", "verified"} =>
          Accepted = out \o Pending

LEMMA BeginSynced ==
    ASSUME IInv, NEW n \in PromptLens, NEW way \in {"step", "draft"}, Begin(n, way)
    PROVE  Synced'
<1>1. Len(smpl) \in Nat
  BY DEF IInv, TypeOK
<1>2. SubSeq(smpl, Len(smpl) + 1, Len(smpl)) = <<>>
  BY <1>1, SubSeqEmpty
<1> QED BY <1>1, <1>2 DEF Begin, Synced, Accepted

LEMMA SampleAnchorSynced ==
    ASSUME IInv, Synced, SampleAnchor
    PROVE  Synced'
<1>1. /\ smpl \in Seq(Tokens) /\ out \in Seq(Tokens) /\ mark \in Nat /\ mark <= Len(smpl)
      /\ mark' = mark /\ out' = out /\ path = "step" /\ pc' = "anchored"
      /\ Accepted = out /\ fromCarry' = haveCarry
  BY DEF IInv, TypeOK, Synced, SampleAnchor, prefill
<1>2. CASE haveCarry
  <2>1. smpl' = smpl /\ Pending' = <<>>
    BY <1>1, <1>2 DEF SampleAnchor, Pending
  <2>2. out \o <<>> = out
    BY <1>1, ConcatEmptySeq
  <2> QED BY <1>1, <2>1, <2>2 DEF Synced, Accepted
<1>3. CASE ~ haveCarry
  <2>1. LastRow.next \in Tokens
    <3>1. InReady /\ path = "step" /\ gen \in Nat /\ nPast \in Nat
      BY DEF IInv, TypeOK, SampleAnchor
    <3>2. LastRow.next = Tok(nPast)
      BY <1>3, <3>1 DEF InReady, LastPicks
    <3> QED BY <3>1, <3>2 DEF Tok, Tokens
  <2>2. smpl' = smpl \o <<LastRow.next>> /\ Pending' = <<LastRow.next>>
    BY <1>1, <1>3, <2>1, AppendIsConcat DEF SampleAnchor, Pending
  <2>3. <<LastRow.next>> \in Seq(Tokens)
    BY <2>1
  <2>4. Accepted' = Accepted \o <<LastRow.next>> /\ mark <= Len(smpl')
    <3>1. smpl \in Seq(Tokens) /\ mark \in Nat /\ mark <= Len(smpl)
      BY <1>1
    <3>2. /\ SubSeq(smpl \o <<LastRow.next>>, mark + 1, Len(smpl \o <<LastRow.next>>))
                = SubSeq(smpl, mark + 1, Len(smpl)) \o <<LastRow.next>>
          /\ mark <= Len(smpl \o <<LastRow.next>>)
      BY ONLY <2>3, <3>1, AcceptedSince
    <3> QED BY <1>1, <2>2, <3>2 DEF Accepted
  <2> QED BY <1>1, <2>2, <2>4 DEF Synced
<1> QED BY <1>2, <1>3

(* What `step` accepted is what it emits: the output array always has room. *)
LEMMA CommitStepSynced ==
    ASSUME IInv, Synced, NEW k \in 0 .. Len(draft), CommitStep(k)
    PROVE  Synced'
<1> DEFINE ids == Picks(k + 1)
<1>1. /\ pc = "verified" /\ path = "step" /\ UNCHANGED <<path, mark, fromCarry, anchor>>
      /\ smpl' = smpl \o ids /\ Accepted = out \o Pending
      /\ smpl \in Seq(Tokens) /\ out \in Seq(Tokens) /\ anchor \in Tokens
      /\ mark \in Nat /\ mark <= Len(smpl)
  BY DEF IInv, TypeOK, Synced, CommitStep, prefill, round
<1>2. ids \in Seq(Tokens)
  BY <1>1, PicksTyped
<1>3. Pending \in Seq(Tokens)
  BY <1>1 DEF Pending
<1> HIDE DEF ids
<1>4. Accepted' = Accepted \o ids /\ mark' <= Len(smpl')
  <2>1. smpl \in Seq(Tokens) /\ mark \in Nat /\ mark <= Len(smpl)
    BY <1>1
  <2>2. /\ SubSeq(smpl \o ids, mark + 1, Len(smpl \o ids))
              = SubSeq(smpl, mark + 1, Len(smpl)) \o ids
        /\ mark <= Len(smpl \o ids)
    BY ONLY <1>2, <2>1, AcceptedSince
  <2> QED BY <1>1, <2>2 DEF Accepted
<1>5. Accepted' = out \o (Pending \o ids)
  <2>1. out \in Seq(Tokens)
    BY <1>1
  <2>2. (out \o Pending) \o ids = out \o (Pending \o ids)
    BY ONLY <1>2, <1>3, <2>1, ConcatAssociative
  <2> QED BY <1>1, <1>4, <2>2
<1>6. \/ out' = out \o (Pending \o ids)
      \/ pc' = "stepFailed"
  <2>1. Len(Pending \o ids) <= Cap
    BY <1>1, StepFits DEF Pending, ids
  <2> QED BY <2>1 DEF CommitStep, Pending, ids
<1> QED BY <1>1, <1>4, <1>5, <1>6 DEF Synced, CommitStep

(* SamplerInSync: for every driver and prompt, no token the sampler accepted  *)
(* is kept from the caller, and none is emitted that the sampler has not      *)
(* accepted, whatever was drafted and however many drafts held.              *)
THEOREM SamplerHearsEveryToken == Spec => []SamplerInSync
<1>1. Init => Synced
  BY DEF Init, Synced, Accepted
<1>2. IInv /\ Synced /\ [Next]_vars => Synced'
  <2> SUFFICES ASSUME IInv, Synced, [Next]_vars PROVE Synced'
    OBVIOUS
  <2> USE DEF Synced, Accepted, Pending, prefill, round
  <2>1. CASE \E n \in PromptLens, way \in {"step", "draft"} : Begin(n, way)
    BY <2>1, BeginSynced
  <2>2. CASE \E n \in 1 .. Chunk : DecodePrompt(n)
    BY <2>2 DEF DecodePrompt
  <2>3. CASE WarmPrompt
    BY <2>3 DEF WarmPrompt
  <2>4. CASE FinalizePrompt
    BY <2>4 DEF FinalizePrompt
  <2>5. CASE SampleAnchor
    BY <2>5, SampleAnchorSynced
  <2>6. CASE TakeFirst
    BY <2>6 DEF TakeFirst
  <2>7. CASE ProposeInStep
    BY <2>7 DEF ProposeInStep
  <2>8. CASE ProposeForCaller
    BY <2>8 DEF ProposeForCaller
  <2>9. CASE Verify
    BY <2>9 DEF Verify, Fail
  <2>10. CASE \E k \in 0 .. Len(draft) : CommitStep(k)
    BY <2>10, CommitStepSynced
  <2>11. CASE \E k \in 0 .. Len(draft), n \in 1 .. Len(draft) + 2 : CommitForCaller(k, n)
    BY <2>11 DEF CommitForCaller
  <2>12. CASE Stop \/ ClearContext
    BY <2>12 DEF Stop, ClearContext
  <2>13. CASE UNCHANGED vars
    BY <2>13 DEF vars
  <2> QED BY <2>1, <2>2, <2>3, <2>4, <2>5, <2>6, <2>7, <2>8, <2>9, <2>10, <2>11,
             <2>12, <2>13 DEF Next, Generation, Rounds
<1>3. Synced => SamplerInSync
  BY DEF Synced, Accepted, SamplerInSync
<1> QED BY <1>1, <1>2, <1>3, Inductive, PTL DEF Spec

=============================================================================
