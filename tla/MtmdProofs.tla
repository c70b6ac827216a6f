----------------------------- MODULE MtmdProofs -----------------------------
(***************************************************************************)
(* Proofs about batches, chunk handles and evaluations, for any capacity,  *)
(* sequences, prompts, inputs, image size and number of handles.           *)
(***************************************************************************)
EXTENDS Mtmd, FiniteSetTheorems, SequenceTheorems, Induction

LEMMA FunctionIsSeq ==
    ASSUME NEW S, NEW n \in Nat, NEW f \in [1 .. n -> S]
    PROVE  f \in Seq(S) /\ Len(f) = n
OBVIOUS

(* What a sequence holds once another is put behind it. *)
LEMMA PutBehind ==
    ASSUME NEW S, NEW s \in Seq(S), NEW n \in Nat, NEW f \in [1 .. n -> S]
    PROVE  /\ s \o f \in Seq(S) /\ Len(s \o f) = Len(s) + n /\ Len(s) \in Nat
           /\ \A i \in 1 .. Len(s) : (s \o f)[i] = s[i]
           /\ \A i \in 1 .. n : (s \o f)[Len(s) + i] = f[i]
<1>1. f \in Seq(S) /\ Len(f) = n /\ Len(s) \in Nat
  BY FunctionIsSeq
<1>2. /\ s \o f \in Seq(S) /\ Len(s \o f) = Len(s) + n
      /\ \A i \in 1 .. Len(s) + n : (s \o f)[i] = IF i <= Len(s) THEN s[i] ELSE f[i - Len(s)]
  BY <1>1, ConcatProperties
<1>3. ASSUME NEW i \in 1 .. n PROVE (s \o f)[Len(s) + i] = f[i]
  <2>1. Len(s) + i \in 1 .. Len(s) + n /\ ~ (Len(s) + i <= Len(s)) /\ Len(s) + i - Len(s) = i
    BY <1>1
  <2> QED BY <1>2, <2>1
<1>4. ASSUME NEW i \in 1 .. Len(s) PROVE (s \o f)[i] = s[i]
  <2>1. i \in 1 .. Len(s) + n /\ i <= Len(s)
    BY <1>1
  <2> QED BY <1>2, <2>1
<1> QED BY <1>1, <1>2, <1>3, <1>4

-----------------------------------------------------------------------------
(* Batches. *)

(* The last token of every one of these prompts is in b, with a row asked for. *)
Whole(taken, b) ==
    \A p \in taken :
        /\ p.from + p.n \in 1 .. Len(b)
        /\ b[p.from + p.n] = [pos |-> p.n - 1, seqs |-> {p.seq}, logits |-> TRUE]

BatchInv ==
    /\ batch \in Seq(Entry) /\ Len(batch) <= Capacity /\ rows \in Seq(Entry)
    /\ TornIsFull
    /\ Whole(prompts, batch) /\ Whole(answered, rows)

(* How much of a prompt fits: all that there is room for. *)
LEMMA FittingFits ==
    ASSUME NEW n \in Nat, Len(batch) \in Nat, Len(batch) <= Capacity
    PROVE  /\ Fitting(n) \in 0 .. n /\ Len(batch) + Fitting(n) <= Capacity
           /\ Fitting(n) \in 1 .. n - 1 => Len(batch) + Fitting(n) = Capacity
<1> DEFINE room == Capacity - Len(batch)
           m == IF n < room THEN n ELSE room
<1>1. room \in Nat /\ m \in Nat
  BY ContextAssumption
<1>2. {i \in 0 .. n - 1 : HasRoom(Len(batch) + i)} = 0 .. m - 1
  BY <1>1, ContextAssumption DEF HasRoom
<1>3. Cardinality(0 .. m - 1) = m
  <2>1. 0 \in Int /\ m - 1 \in Int
    BY <1>1
  <2>2. Cardinality(0 .. m - 1) = IF 0 > m - 1 THEN 0 ELSE m - 1 - 0 + 1
    BY <2>1, FS_Interval
  <2> HIDE DEF m
  <2> QED BY <1>1, <2>2
<1>4. Fitting(n) = IF SeqMax = 0 THEN 0 ELSE m
  BY <1>2, <1>3 DEF Fitting
<1> QED BY <1>1, <1>4, ContextAssumption

LEMMA AddKeeps ==
    ASSUME BatchInv, NEW pos \in 0 .. MaxPos, NEW seqs \in SUBSET Seqs,
           NEW logits \in BOOLEAN, Add(pos, seqs, logits)
    PROVE  BatchInv'
<1> DEFINE slot == [pos |-> pos, seqs |-> seqs, logits |-> logits]
<1>1. slot \in Entry /\ batch \in Seq(Entry) /\ Len(batch) \in Nat
  BY ContextAssumption DEF BatchInv, Entry
<1>2. CASE UNCHANGED batch
  BY <1>2 DEF Add, BatchInv, TornIsFull, Whole
<1>3. CASE HasRoom(Len(batch)) /\ batch' = Append(batch, slot)
  <2>1. /\ batch' \in Seq(Entry) /\ Len(batch') = Len(batch) + 1
        /\ \A i \in 1 .. Len(batch) : batch'[i] = batch[i]
    <3> HIDE DEF slot
    <3> QED BY <1>1, <1>3, AppendProperties
  <2>2. ~ torn /\ Len(batch') <= Capacity
    BY <1>1, <1>3, <2>1, ContextAssumption DEF BatchInv, TornIsFull, HasRoom
  <2>3. Whole(prompts, batch')
    <3>1. 1 .. Len(batch) \subseteq 1 .. Len(batch')
      BY <1>1, <2>1
    <3> QED BY <2>1, <3>1 DEF BatchInv, Whole
  <2> QED BY <2>1, <2>2, <2>3 DEF Add, BatchInv, TornIsFull
<1> QED BY <1>2, <1>3 DEF Add

(* What was whole stays whole; a prompt that fits is whole; one that does not *)
(* fills the batch up.                                                       *)
LEMMA AddSequenceKeeps ==
    ASSUME BatchInv, NEW n \in Lengths, NEW seq \in Seqs, NEW all \in BOOLEAN,
           AddSequence(n, seq, all)
    PROVE  BatchInv'
<1> DEFINE fit == Fitting(n)
           more == [i \in 1 .. fit |->
                       [pos |-> i - 1, seqs |-> {seq}, logits |-> WantsLogits(i - 1, n, all)]]
           added == {[seq |-> seq, n |-> n, from |-> Len(batch)] : k \in 1 .. n}
<1>1. /\ n \in Nat /\ Len(batch) \in Nat /\ batch \in Seq(Entry) /\ Len(batch) <= Capacity
      /\ Capacity \in Nat
  BY ContextAssumption DEF BatchInv
<1>2. /\ fit \in 0 .. n /\ Len(batch) + fit <= Capacity
      /\ fit \in 1 .. n - 1 => Len(batch) + fit = Capacity
  BY <1>1, FittingFits
<1> HIDE DEF fit
<1>3. more \in [1 .. fit -> Entry]
  BY <1>1, <1>2 DEF Entry, WantsLogits
<1>4. /\ batch' = batch \o more
      /\ prompts' = IF fit < n THEN prompts ELSE prompts \cup added
      /\ torn' = (torn \/ fit \in 1 .. n - 1) /\ told' = (told \/ fit < n)
      /\ UNCHANGED <<rows, answered>>
  BY DEF AddSequence, Refused, fit
<1>5. \A i \in 1 .. fit : more[i] =
         [pos |-> i - 1, seqs |-> {seq}, logits |-> WantsLogits(i - 1, n, all)]
  OBVIOUS
<1> HIDE DEF more
<1>6. /\ batch' \in Seq(Entry) /\ Len(batch') = Len(batch) + fit
      /\ \A i \in 1 .. Len(batch) : batch'[i] = batch[i]
      /\ \A i \in 1 .. fit : batch'[Len(batch) + i] = more[i]
  <2>1. fit \in Nat
    BY <1>2
  <2>2. /\ batch \o more \in Seq(Entry) /\ Len(batch \o more) = Len(batch) + fit
        /\ \A i \in 1 .. Len(batch) : (batch \o more)[i] = batch[i]
        /\ \A i \in 1 .. fit : (batch \o more)[Len(batch) + i] = more[i]
    BY <1>1, <1>3, <2>1, PutBehind
  <2> QED BY <1>4, <2>2
<1>7. Whole(prompts, batch')
  <2>1. 1 .. Len(batch) \subseteq 1 .. Len(batch')
    BY <1>1, <1>2, <1>6
  <2> QED BY <1>6, <2>1 DEF BatchInv, Whole
<1>8. ASSUME ~ (fit < n), NEW p \in added
      PROVE  /\ p.from + p.n \in 1 .. Len(batch')
             /\ batch'[p.from + p.n] = [pos |-> p.n - 1, seqs |-> {p.seq}, logits |-> TRUE]
  <2>1. p = [seq |-> seq, n |-> n, from |-> Len(batch)] /\ n \in 1 .. n /\ fit = n
    BY <1>1, <1>2, <1>8
  <2>2. batch'[Len(batch) + n] = more[n] /\ Len(batch) + n \in 1 .. Len(batch')
    BY <1>1, <1>6, <2>1
  <2>3. more[n] = [pos |-> n - 1, seqs |-> {seq}, logits |-> TRUE]
    <3>1. WantsLogits(n - 1, n, all) = TRUE
      BY <1>1 DEF WantsLogits
    <3> QED BY <1>5, <2>1, <3>1
  <2> QED BY <2>1, <2>2, <2>3
<1>9. Whole(prompts', batch')
  BY <1>4, <1>7, <1>8 DEF Whole
<1>10. TornIsFull'
  <2>1. CASE torn
    <3>1. Len(batch) = Capacity /\ told
      BY <2>1 DEF BatchInv, TornIsFull
    <3>2. Len(batch') = Capacity
      BY <1>1, <1>2, <1>6, <3>1
    <3> QED BY <1>4, <3>1, <3>2 DEF TornIsFull
  <2>2. CASE fit \in 1 .. n - 1
    <3>1. Len(batch') = Capacity /\ fit < n
      BY <1>1, <1>2, <1>6, <2>2
    <3> QED BY <1>4, <3>1 DEF TornIsFull
  <2> QED BY <1>4, <2>1, <2>2 DEF TornIsFull
<1> QED BY <1>2, <1>4, <1>6, <1>9, <1>10 DEF BatchInv

LEMMA DecodeKeeps ==
    ASSUME BatchInv, Decode
    PROVE  BatchInv'
<1>1. <<>> \in Seq(Entry)
  OBVIOUS
<1> QED BY <1>1 DEF BatchInv, Decode, Outputs, batchVars, Whole, TornIsFull

LEMMA BatchesKeep == ASSUME BatchInv, Batches PROVE BatchInv'
<1>1. CASE Clear
  <2>1. <<>> \in Seq(Entry) /\ Len(<<>>) = 0
    OBVIOUS
  <2> QED BY <1>1, <2>1, ContextAssumption DEF Clear, BatchInv, Whole, TornIsFull
<1>2. CASE \E pos \in 0 .. MaxPos, seqs \in (SUBSET Seqs) \ {{}}, logits \in BOOLEAN :
              Add(pos, seqs, logits)
  BY <1>2, AddKeeps
<1>3. CASE \E n \in Lengths, seq \in Seqs, all \in BOOLEAN : AddSequence(n, seq, all)
  BY <1>3, AddSequenceKeeps
<1> QED BY <1>1, <1>2, <1>3, DecodeKeeps DEF Batches

(* A read changes nothing but the slice, an evaluation nothing of the batch.  *)
LEMMA OverwrittenKeeps ==
    ASSUME BatchInv, UNCHANGED contextVars \/ Overwritten
    PROVE  BatchInv'
<1>1. ASSUME NEW logits \in BOOLEAN
      PROVE  <<[pos |-> 0, seqs |-> Seqs, logits |-> logits]>> \in Seq(Entry)
  BY DEF Entry
<1>2. CASE UNCHANGED contextVars
  BY <1>2 DEF BatchInv, contextVars, batchVars, Whole, TornIsFull
<1>3. CASE Overwritten
  <2>1. rows' \in Seq(Entry)
    BY <1>1, <1>3 DEF Overwritten
  <2> QED BY <1>3, <2>1 DEF BatchInv, Overwritten, batchVars, Whole, TornIsFull
<1> QED BY <1>2, <1>3

LEMMA BatchNext == ASSUME BatchInv, [Next]_vars PROVE BatchInv'
<1>1. CASE Reads
  BY <1>1 DEF Reads, GetLogitsIth, EmbeddingsIth, EmbeddingsSeqIth, Release, Borrow,
              batchVars, BatchInv, Whole, TornIsFull
<1>2. CASE Batches
  BY <1>2, BatchesKeep
<1>3. CASE MtmdNext
  <2> USE OverwrittenKeeps
  <2>1. CASE NewBitmap
    BY <2>1 DEF NewBitmap
  <2>2. CASE DropBitmap \/ DropChunks \/ EvalChunks \/ EncodeImage
    BY <2>2 DEF DropBitmap, DropChunks, EvalChunks, EncodeImage
  <2>3. CASE \E input \in Inputs : Tokenize(input)
    BY <2>3 DEF Tokenize
  <2>4. CASE \E i \in 0 .. 3 : Get(i)
    BY <2>4 DEF Get
  <2>5. CASE \E h \in handles : DropHandle(h)
                                \/ \E i \in 1 .. MaxHandles : Copy(h, <<"copy", i>>)
    BY <2>5 DEF DropHandle, Copy
  <2>6. CASE EvalText \/ EvalImage
    BY <2>6 DEF EvalText, EvalImage, Decoded
  <2>7. CASE EvalFails \/ EvalReturns \/ \E n \in 0 .. MaxPast : Trim(n)
    BY <2>7 DEF EvalFails, EvalReturns, Trim
  <2> QED BY <1>3, <2>1, <2>2, <2>3, <2>4, <2>5, <2>6, <2>7 DEF MtmdNext
<1>4. CASE UNCHANGED vars
  BY <1>4, OverwrittenKeeps DEF vars
<1> QED BY <1>1, <1>2, <1>3, <1>4 DEF Next

LEMMA BatchInvHolds == Spec => []BatchInv
<1>1. MtmdInit => BatchInv
  <2>1. <<>> \in Seq(Entry) /\ Len(<<>>) = 0
    OBVIOUS
  <2> QED BY <2>1, ContextAssumption
          DEF MtmdInit, ContextInit, BatchInv, Whole, TornIsFull
<1> QED BY <1>1, BatchNext, PTL DEF Spec

(* TornIsFull: add_sequence leaves a part of a prompt behind only by filling  *)
(* the batch, and then it said so.                                          *)
THEOREM TornOnlyWhenFull == Spec => []TornIsFull
<1>1. BatchInv => TornIsFull
  BY DEF BatchInv
<1> QED BY <1>1, BatchInvHolds, PTL

(* PromptCanContinue: whatever shares the batch, and whatever was added       *)
(* before or after it, a prompt that was added whole has its last row.        *)
THEOREM PromptsContinue == Spec => []PromptCanContinue
<1>1. ASSUME BatchInv PROVE PromptCanContinue
  <2> SUFFICES ASSUME NEW p \in answered
               PROVE  \E j \in DOMAIN rows :
                         /\ Row(j - 1) # {} /\ j = p.from + p.n
                         /\ rows[j].seqs = {p.seq} /\ rows[j].pos = p.n - 1
    BY DEF PromptCanContinue
  <2> DEFINE j == p.from + p.n
  <2>1. j \in DOMAIN rows /\ rows[j] = [pos |-> p.n - 1, seqs |-> {p.seq}, logits |-> TRUE]
        /\ j \in Int
    BY <1>1 DEF BatchInv, Whole
  <2>2. rows[j] \in Row(j - 1)
    <3>1. j = (j - 1) + 1
      BY <2>1
    <3> HIDE DEF j
    <3> QED BY <2>1, <3>1 DEF Row
  <2> QED BY <2>1, <2>2
<1> QED BY <1>1, BatchInvHolds, PTL

-----------------------------------------------------------------------------
(* Handles. *)

(* Who owns what: the collection its own chunks, an owned handle a copy that   *)
(* no other handle is on, a borrowed one a chunk of the living collection.     *)
HandleInv ==
    /\ HandlesAlive
    /\ chunks \subseteq Inputs /\ \A a, b \in chunks : a = b
    /\ \A h \in handles :
          IF h.owned THEN \E i \in Nat : h.chunk = <<"copy", i>>
          ELSE \E input \in chunks : \E i \in DOMAIN input : h.chunk = <<"ours", i>>
    /\ handles \in SUBSET [chunk : {"ours", "copy"} \X Int, owned : BOOLEAN]
    /\ \A g, h \in handles : h.owned /\ g.chunk = h.chunk => g = h

LEMMA TokenizeHandles ==
    ASSUME HandleInv, NEW input \in Inputs, Tokenize(input)
    PROVE  HandleInv'
BY DEF HandleInv, Tokenize, HandlesAlive

LEMMA GetHandles ==
    ASSUME HandleInv, NEW i \in 0 .. 3, Get(i)
    PROVE  HandleInv'
<1>1. PICK input \in chunks :
        handles' = handles \cup {[chunk |-> <<"ours", j>>, owned |-> FALSE] :
                                    j \in {j \in DOMAIN input : j = i + 1}}
  BY DEF Get
<1>2. UNCHANGED <<chunks, allocated, twice>>
  BY DEF Get
<1>3. ASSUME NEW h \in handles', h \notin handles
      PROVE  h = [chunk |-> <<"ours", i + 1>>, owned |-> FALSE] /\ i + 1 \in DOMAIN input
  BY <1>1, <1>3
<1>4. HandlesAlive'
  BY <1>2, <1>3 DEF HandleInv, HandlesAlive
<1>5. ASSUME NEW h \in handles'
      PROVE  /\ IF h.owned THEN \E k \in Nat : h.chunk = <<"copy", k>>
                ELSE \E given \in chunks : \E k \in DOMAIN given : h.chunk = <<"ours", k>>
             /\ h \in [chunk : {"ours", "copy"} \X Int, owned : BOOLEAN]
  <2>1. CASE h \in handles
    BY <2>1 DEF HandleInv
  <2>2. CASE h \notin handles
    <3>1. h = [chunk |-> <<"ours", i + 1>>, owned |-> FALSE] /\ i + 1 \in DOMAIN input
      BY <1>3, <1>5, <2>2
    <3>2. <<"ours", i + 1>> \in {"ours", "copy"} \X Int
      OBVIOUS
    <3> QED BY <1>1, <3>1, <3>2
  <2> QED BY <2>1, <2>2
<1>6. ASSUME NEW g \in handles', NEW h \in handles', h.owned, g.chunk = h.chunk
      PROVE  g = h
  <2>1. h \in handles /\ \E k \in Nat : h.chunk = <<"copy", k>>
    BY <1>3, <1>6 DEF HandleInv
  <2>2. g \in handles
    BY <1>3, <1>6, <2>1
  <2> QED BY <1>6, <2>1, <2>2 DEF HandleInv
<1> QED BY <1>2, <1>4, <1>5, <1>6 DEF HandleInv

LEMMA CopyHandles ==
    ASSUME HandleInv, NEW h \in handles, NEW i \in 1 .. MaxHandles, Copy(h, <<"copy", i>>)
    PROVE  HandleInv'
<1> DEFINE copy == [chunk |-> <<"copy", i>>, owned |-> TRUE]
<1>1. /\ handles' = handles \cup {copy} /\ allocated' = allocated \cup {<<"copy", i>>}
      /\ <<"copy", i>> \notin allocated /\ UNCHANGED <<chunks, twice>> /\ i \in Nat
  BY MtmdAssumption DEF Copy
<1>2. HandlesAlive'
  BY <1>1 DEF HandleInv, HandlesAlive
<1>3. \A g \in handles : g.chunk # copy.chunk
  BY <1>1 DEF HandleInv, HandlesAlive
<1>4. <<"copy", i>> \in {"ours", "copy"} \X Int
  BY <1>1
<1>5. /\ copy \in [chunk : {"ours", "copy"} \X Int, owned : BOOLEAN] /\ copy.owned
      /\ copy.chunk = <<"copy", i>>
  BY <1>4
<1> HIDE DEF copy
<1>6. \A g \in handles' :
         IF g.owned THEN \E k \in Nat : g.chunk = <<"copy", k>>
         ELSE \E input \in chunks : \E k \in DOMAIN input : g.chunk = <<"ours", k>>
  BY <1>1, <1>5 DEF HandleInv
<1>7. \A f, g \in handles' : g.owned /\ f.chunk = g.chunk => f = g
  BY <1>1, <1>3 DEF HandleInv
<1> QED BY <1>1, <1>2, <1>5, <1>6, <1>7 DEF HandleInv

LEMMA DropHandleHandles ==
    ASSUME HandleInv, NEW h \in handles, DropHandle(h)
    PROVE  HandleInv'
<1>1. handles' = handles \ {h} /\ UNCHANGED chunks
  BY DEF DropHandle
<1>2. CASE ~ h.owned
  BY <1>1, <1>2 DEF DropHandle, Free, HandleInv, HandlesAlive
<1>3. CASE h.owned
  <2>1. allocated' = allocated \ {h.chunk} /\ h.chunk \in allocated /\ ~ twice'
    BY <1>3 DEF DropHandle, Free, HandleInv, HandlesAlive
  <2>2. PICK k \in Nat : h.chunk = <<"copy", k>>
    BY <1>3 DEF HandleInv
  <2>3. \A g \in handles' : g.chunk # h.chunk
    BY <1>1, <1>3 DEF HandleInv
  <2>4. \A i : <<"ours", i>> # h.chunk
    BY <2>2
  <2>5. HandlesAlive'
    BY <1>1, <2>1, <2>3, <2>4 DEF HandleInv, HandlesAlive
  <2> QED BY <1>1, <2>5 DEF HandleInv
<1> QED BY <1>2, <1>3

LEMMA DropChunksHandles ==
    ASSUME HandleInv, DropChunks
    PROVE  HandleInv'
<1> DEFINE freed == {<<"ours", i>> : i \in UNION {DOMAIN input : input \in chunks}}
<1>1. /\ chunks' = {} /\ handles' = handles /\ allocated' = allocated \ freed
      /\ twice' = (twice \/ ~ freed \subseteq allocated) /\ \A h \in handles : h.owned
  BY DEF DropChunks, Free, Unborrowed
<1>2. freed \subseteq allocated
  BY DEF HandleInv, HandlesAlive
<1>3. \A h \in handles : h.chunk \notin freed
  BY <1>1 DEF HandleInv
<1> HIDE DEF freed
<1>4. HandlesAlive'
  BY <1>1, <1>2, <1>3 DEF HandleInv, HandlesAlive
<1> QED BY <1>1, <1>4 DEF HandleInv

LEMMA HandleNext == ASSUME HandleInv, [Next]_vars PROVE HandleInv'
<1>1. ASSUME UNCHANGED <<chunks, handles, allocated, twice>> PROVE HandleInv'
  BY <1>1 DEF HandleInv, HandlesAlive
<1>2. CASE UNCHANGED chunkVars
  BY <1>1, <1>2 DEF chunkVars
<1>3. CASE MtmdNext
  <2>1. CASE NewBitmap
    BY <1>1, <2>1 DEF NewBitmap
  <2>2. CASE DropBitmap
    BY <1>1, <2>2 DEF DropBitmap
  <2>3. CASE \E input \in Inputs : Tokenize(input)
    BY <2>3, TokenizeHandles
  <2>4. CASE \E i \in 0 .. 3 : Get(i)
    BY <2>4, GetHandles
  <2>5. CASE \E h \in handles : DropHandle(h)
                                \/ \E i \in 1 .. MaxHandles : Copy(h, <<"copy", i>>)
    BY <1>2, <2>5, DropHandleHandles, CopyHandles
  <2>6. CASE DropChunks
    BY <2>6, DropChunksHandles
  <2>7. CASE EvalChunks \/ EncodeImage \/ EvalText \/ EvalImage
    BY <1>2, <2>7 DEF EvalChunks, EncodeImage, EvalText, EvalImage, Decoded
  <2>8. CASE EvalFails \/ EvalReturns \/ \E n \in 0 .. MaxPast : Trim(n)
    BY <1>2, <2>8 DEF EvalFails, EvalReturns, Trim
  <2> QED BY <1>3, <2>1, <2>2, <2>3, <2>4, <2>5, <2>6, <2>7, <2>8 DEF MtmdNext
<1> QED BY <1>2, <1>3 DEF Next, vars

(* HandlesAlive: whatever order handles, copies and collections are made and   *)
(* dropped in, every chunk is freed once and no handle outlives its chunk.     *)
THEOREM HandlesFreedOnce == Spec => []HandlesAlive
<1>1. MtmdInit => HandleInv
  BY DEF MtmdInit, HandleInv, HandlesAlive
<1>2. HandleInv => HandlesAlive
  BY DEF HandleInv
<1> QED BY <1>1, <1>2, HandleNext, PTL DEF Spec

-----------------------------------------------------------------------------
(* Evaluations. *)

LEMMA PositionsAreNat ==
    ASSUME NEW kind \in {"text", "image"}, NEW use_mrope
    PROVE  NPositions(kind, use_mrope) \in Nat \ {0}
BY MtmdAssumption DEF NPositions, NTokens

-----------------------------------------------------------------------------
(* Types. *)

AtMostOne(S) == \A a, b \in S : a = b

LEMMA AtMostOneCounted ==
    ASSUME NEW S, AtMostOne(S)
    PROVE  Cardinality(S) <= 1
<1>1. CASE S = {}
  <2>1. Cardinality(S) = 0
    BY <1>1, FS_EmptySet
  <2> QED BY <2>1
<1>2. CASE S # {}
  <2>1. PICK x \in S : S = {x}
    BY <1>2 DEF AtMostOne
  <2>2. Cardinality({x}) = 1
    BY FS_Singleton
  <2> QED BY <2>1, <2>2
<1> QED BY <1>1, <1>2

(* Beside the batch: no entry has too many sequences, and there is one slice. *)
BatchTyped ==
    /\ params \in [embeddings : BOOLEAN, pooling : {"none", "mean"}]
    /\ torn \in BOOLEAN /\ told \in BOOLEAN
    /\ \A j \in 1 .. Len(batch) : Cardinality(batch[j].seqs) <= SeqMax
    /\ AtMostOne(slice)

LEMMA AddTyped ==
    ASSUME BatchInv, BatchTyped, NEW pos \in 0 .. MaxPos, NEW seqs \in SUBSET Seqs,
           NEW logits \in BOOLEAN, Add(pos, seqs, logits)
    PROVE  BatchTyped'
<1>1. CASE UNCHANGED batch
  BY <1>1 DEF Add, BatchTyped
<1>2. CASE /\ Cardinality(seqs) <= SeqMax
           /\ batch' = Append(batch, [pos |-> pos, seqs |-> seqs, logits |-> logits])
  <2> DEFINE slot == [pos |-> pos, seqs |-> seqs, logits |-> logits]
  <2>1. slot \in Entry /\ batch \in Seq(Entry) /\ slot.seqs = seqs
    BY ContextAssumption DEF BatchInv, Entry
  <2>2. batch' = Append(batch, slot)
    BY <1>2
  <2> HIDE DEF slot
  <2>3. /\ Len(batch') = Len(batch) + 1 /\ batch'[Len(batch) + 1] = slot /\ Len(batch) \in Nat
        /\ \A i \in 1 .. Len(batch) : batch'[i] = batch[i]
    BY <2>1, <2>2, AppendProperties, LenProperties
  <2>4. \A j \in 1 .. Len(batch') : Cardinality(batch'[j].seqs) <= SeqMax
    BY <1>2, <2>1, <2>3 DEF BatchTyped
  <2> QED BY <2>4 DEF Add, BatchTyped
<1> QED BY <1>1, <1>2 DEF Add

LEMMA AddSequenceTyped ==
    ASSUME BatchInv, BatchTyped, NEW n \in Lengths, NEW seq \in Seqs, NEW all \in BOOLEAN,
           AddSequence(n, seq, all)
    PROVE  BatchTyped'
<1> DEFINE fit == Fitting(n)
           more == [i \in 1 .. fit |->
                       [pos |-> i - 1, seqs |-> {seq}, logits |-> WantsLogits(i - 1, n, all)]]
<1>1. n \in Nat /\ Len(batch) \in Nat /\ batch \in Seq(Entry) /\ Len(batch) <= Capacity
  BY ContextAssumption DEF BatchInv
<1>2. fit \in 0 .. n
  BY <1>1, FittingFits
<1>3. fit # 0 => SeqMax # 0
  BY DEF Fitting
<1>4. batch' = batch \o more
  BY DEF AddSequence
<1> HIDE DEF fit
<1>5. more \in [1 .. fit -> Entry] /\ fit \in Nat /\ \A i \in 1 .. fit : more[i].seqs = {seq}
  BY <1>1, <1>2 DEF Entry, WantsLogits
<1> HIDE DEF more
<1>6. /\ Len(batch \o more) = Len(batch) + fit
      /\ \A i \in 1 .. Len(batch) : (batch \o more)[i] = batch[i]
      /\ \A i \in 1 .. fit : (batch \o more)[Len(batch) + i] = more[i]
  BY ONLY <1>1, <1>5, PutBehind
<1>7. Cardinality({seq}) = 1
  BY FS_Singleton
<1>8. ASSUME NEW j \in 1 .. Len(batch') PROVE Cardinality(batch'[j].seqs) <= SeqMax
  <2>1. CASE j \in 1 .. Len(batch)
    BY <1>4, <1>6, <2>1 DEF BatchTyped
  <2>2. CASE j \notin 1 .. Len(batch)
    <3>1. j - Len(batch) \in 1 .. fit /\ Len(batch) + (j - Len(batch)) = j
      BY <1>1, <1>2, <1>4, <1>6, <2>2
    <3>2. batch'[j].seqs = {seq}
      BY <1>4, <1>5, <1>6, <3>1
    <3>3. SeqMax >= 1
      BY <1>2, <1>3, <3>1, ContextAssumption
    <3> QED BY <1>7, <3>2, <3>3
  <2> QED BY <2>1, <2>2
<1>9. torn' \in BOOLEAN /\ told' \in BOOLEAN /\ UNCHANGED <<params, slice>>
  BY DEF AddSequence, BatchTyped
<1> QED BY <1>8, <1>9 DEF BatchTyped

(* What a caller is lent is one row, or nothing.                             *)
LEMMA BorrowTyped ==
    ASSUME BatchTyped, NEW what, NEW i, NEW found, AtMostOne(found), Borrow(what, i, found)
    PROVE  BatchTyped'
<1>1. AtMostOne(slice')
  BY DEF Borrow, AtMostOne
<1> QED BY <1>1 DEF Borrow, BatchTyped, batchVars

LEMMA ReadsTyped == ASSUME BatchTyped, Reads PROVE BatchTyped'
<1>1. \A i : AtMostOne(Row(i))
  BY DEF AtMostOne, Row
<1>2. \A q : AtMostOne(Pooled(q))
  BY DEF AtMostOne, Pooled
<1>3. AtMostOne({})
  BY DEF AtMostOne
<1>4. CASE \E i \in 0 .. Capacity : GetLogitsIth(i) \/ EmbeddingsIth(i)
  BY <1>1, <1>3, <1>4, BorrowTyped DEF GetLogitsIth, EmbeddingsIth
<1>5. CASE \E q \in Seqs : EmbeddingsSeqIth(q)
  BY <1>2, <1>3, <1>5, BorrowTyped DEF EmbeddingsSeqIth
<1>6. CASE Release
  BY <1>3, <1>6 DEF Release, BatchTyped, batchVars
<1> QED BY <1>4, <1>5, <1>6 DEF Reads

LEMMA OverwrittenTyped ==
    ASSUME BatchTyped, UNCHANGED contextVars \/ Overwritten
    PROVE  BatchTyped'
<1>1. CASE UNCHANGED contextVars
  BY <1>1 DEF contextVars, batchVars, BatchTyped
<1>2. CASE Overwritten
  <2>1. AtMostOne(slice')
    BY <1>2 DEF Overwritten, BatchTyped, AtMostOne
  <2> QED BY <1>2, <2>1 DEF Overwritten, batchVars, BatchTyped
<1> QED BY <1>1, <1>2

LEMMA BatchesTyped == ASSUME BatchInv, BatchTyped, Batches PROVE BatchTyped'
<1>1. CASE Clear
  <2>1. 1 .. Len(<<>>) = {}
    OBVIOUS
  <2> QED BY <1>1, <2>1 DEF Clear, BatchTyped
<1>2. CASE \E pos \in 0 .. MaxPos, seqs \in (SUBSET Seqs) \ {{}}, logits \in BOOLEAN :
              Add(pos, seqs, logits)
  BY <1>2, AddTyped
<1>3. CASE \E n \in Lengths, seq \in Seqs, all \in BOOLEAN : AddSequence(n, seq, all)
  BY <1>3, AddSequenceTyped
<1>4. CASE Decode
  BY <1>4 DEF Decode, batchVars, BatchTyped, AtMostOne
<1> QED BY <1>1, <1>2, <1>3, <1>4 DEF Batches

LEMMA BatchTypedNext == ASSUME BatchInv, BatchTyped, [Next]_vars PROVE BatchTyped'
<1>1. CASE Reads
  BY <1>1, ReadsTyped
<1>2. CASE Batches
  BY <1>2, BatchesTyped
<1>3. CASE MtmdNext
  <2> USE OverwrittenTyped
  <2>1. CASE NewBitmap
    BY <2>1 DEF NewBitmap
  <2>2. CASE DropBitmap \/ DropChunks \/ EvalChunks \/ EncodeImage
    BY <2>2 DEF DropBitmap, DropChunks, EvalChunks, EncodeImage
  <2>3. CASE \E input \in Inputs : Tokenize(input)
    BY <2>3 DEF Tokenize
  <2>4. CASE \E i \in 0 .. 3 : Get(i)
    BY <2>4 DEF Get
  <2>5. CASE \E h \in handles : DropHandle(h)
                                \/ \E i \in 1 .. MaxHandles : Copy(h, <<"copy", i>>)
    BY <2>5 DEF DropHandle, Copy
  <2>6. CASE EvalText \/ EvalImage
    BY <2>6 DEF EvalText, EvalImage, Decoded
  <2>7. CASE EvalFails \/ EvalReturns \/ \E n \in 0 .. MaxPast : Trim(n)
    BY <2>7 DEF EvalFails, EvalReturns, Trim
  <2> QED BY <1>3, <2>1, <2>2, <2>3, <2>4, <2>5, <2>6, <2>7 DEF MtmdNext
<1>4. CASE UNCHANGED vars
  BY <1>4, OverwrittenTyped DEF vars
<1> QED BY <1>1, <1>2, <1>3, <1>4 DEF Next

-----------------------------------------------------------------------------
(* Positions. *)

LEMMA BeforeDef ==
    ASSUME NEW input \in Seq({"text", "image"}), NEW use_mrope
    PROVE  \E f \in [0 .. Len(input) -> Nat] :
              /\ f[0] = 0
              /\ \A k \in 1 .. Len(input) : f[k] = f[k - 1] + NPositions(input[k], use_mrope)
              /\ \A k \in 0 .. Len(input) : Before(input, k, use_mrope) = f[k]
<1> DEFINE n == Len(input)
           E(k, x) == x + NPositions(input[k], use_mrope)
           P(f) == f = [k \in 0 .. n |-> IF k = 0 THEN 0 ELSE E(k, f[k - 1])]
           step == [k \in 1 .. n |-> [x \in Nat |-> E(k, x)]]
           c == CHOOSE f : P(f)
<1>1. n \in Nat /\ \A k \in 1 .. n, x \in Nat : E(k, x) \in Nat
  <2>1. \A k \in 1 .. n : input[k] \in {"text", "image"}
    OBVIOUS
  <2>2. \A k \in 1 .. n : NPositions(input[k], use_mrope) \in Nat
    BY <2>1, PositionsAreNat
  <2> QED BY <2>2
<1>2. \A k : Before(input, k, use_mrope) = c[k]
  BY DEF Before
<1> HIDE DEF n, E
<1>3. P(c)
  <2>1. step \in [1 .. n -> [Nat -> Nat]]
    BY <1>1
  <2>2. PICK f \in [0 .. n -> Nat] :
           f[0] = 0 /\ \A k \in 1 .. n : f[k] = step[k][f[k - 1]]
    <3> HIDE DEF step
    <3>1. Definable(n, Nat, 0, step)
      BY <1>1, <2>1, RecursiveFcn
    <3> QED BY <3>1 DEF Definable
  <2>3. \A k \in 1 .. n : k - 1 \in 0 .. n /\ f[k - 1] \in Nat
    BY <1>1
  <2>4. \A k \in 1 .. n : f[k] = E(k, f[k - 1])
    BY <2>2, <2>3
  <2>5. \A k \in 0 .. n : f[k] = IF k = 0 THEN 0 ELSE E(k, f[k - 1])
    BY <1>1, <2>2, <2>4
  <2>6. P(f)
    BY <2>5
  <2> HIDE DEF P
  <2> QED BY <2>6
<1> HIDE DEF c
<1>4. c[0] = 0 /\ \A k \in 1 .. n : c[k] = E(k, c[k - 1])
  <2>1. \A k \in 0 .. n : c[k] = IF k = 0 THEN 0 ELSE E(k, c[k - 1])
    BY ONLY <1>3
  <2>2. 0 \in 0 .. n /\ \A k \in 1 .. n : k \in 0 .. n /\ k # 0
    BY <1>1
  <2> QED BY ONLY <2>1, <2>2
<1>5. c \in [0 .. n -> Nat]
  <2>1. c = [k \in 0 .. n |-> c[k]] /\ c[0] \in Nat
    BY <1>1, <1>3, <1>4
  <2>2. \A k \in 1 .. n : c[k - 1] \in Nat => c[k] \in Nat
    BY <1>1, <1>4
  <2> QED BY ONLY <1>1, <2>1, <2>2, TypedFcn
<1> QED BY <1>2, <1>4, <1>5 DEF n, E

(* Each chunk adds its positions, so what is left to evaluate fits if all does. *)
LEMMA BeforeGrows ==
    ASSUME NEW input \in Seq({"text", "image"}), NEW use_mrope
    PROVE  /\ Before(input, 0, use_mrope) = 0
           /\ \A k \in 0 .. Len(input) : /\ Before(input, k, use_mrope) \in Nat
                                         /\ Before(input, k, use_mrope) <=
                                                Before(input, Len(input), use_mrope)
           /\ \A k \in 1 .. Len(input) :
                 /\ NPositions(input[k], use_mrope) \in Nat \ {0}
                 /\ Before(input, k, use_mrope) =
                        Before(input, k - 1, use_mrope) + NPositions(input[k], use_mrope)
<1> DEFINE n == Len(input)
<1>1. PICK f \in [0 .. n -> Nat] :
              /\ f[0] = 0
              /\ \A k \in 1 .. n : f[k] = f[k - 1] + NPositions(input[k], use_mrope)
              /\ \A k \in 0 .. n : Before(input, k, use_mrope) = f[k]
  BY BeforeDef
<1>2. n \in Nat /\ \A k \in 1 .. n : NPositions(input[k], use_mrope) \in Nat \ {0}
  <2>1. \A k \in 1 .. n : input[k] \in {"text", "image"}
    OBVIOUS
  <2> QED BY <2>1, PositionsAreNat
<1> HIDE DEF n
<1> DEFINE short == {k \in 0 .. n : f[n - k] <= f[n]}
<1>3. \A k \in 0 .. n : k \in short
  <2>1. 0 \in short
    BY <1>2
  <2>2. ASSUME NEW k \in 0 .. n - 1, k \in short PROVE k + 1 \in short
    <3>1. n - k \in 1 .. n /\ (n - k) - 1 = n - (k + 1) /\ k + 1 \in 0 .. n
          /\ n - (k + 1) \in 0 .. n /\ n - k \in 0 .. n /\ n \in 0 .. n
      BY <1>2
    <3>2. f[n - k] = f[n - (k + 1)] + NPositions(input[n - k], use_mrope)
      BY <1>1, <3>1
    <3>3. /\ f[n - k] <= f[n] /\ f[n - k] \in Nat /\ f[n - (k + 1)] \in Nat /\ f[n] \in Nat
          /\ NPositions(input[n - k], use_mrope) \in Nat
      BY <1>1, <1>2, <2>2, <3>1
    <3>4. f[n - (k + 1)] <= f[n]
      BY ONLY <3>2, <3>3
    <3> QED BY <3>1, <3>4
  <2> HIDE DEF short
  <2>3. \A k \in 0 .. n - 1 : k \in short => k + 1 \in short
    BY <2>2
  <2> QED BY ONLY <1>2, <2>1, <2>3, UpTo
<1>4. \A k \in 0 .. n : f[k] \in Nat /\ f[k] <= f[n]
  <2>1. ASSUME NEW k \in 0 .. n PROVE f[k] <= f[n]
    <3>1. n - k \in 0 .. n /\ n - (n - k) = k
      BY <1>2
    <3> QED BY <1>3, <3>1
  <2> QED BY <2>1
<1>5. \A k \in 1 .. n : k \in 0 .. n /\ k - 1 \in 0 .. n
  BY <1>2
<1>6. 0 \in 0 .. n /\ n \in 0 .. n
  BY <1>2
<1> QED BY <1>1, <1>2, <1>4, <1>5, <1>6 DEF n

(* Between its chunks an evaluation is where the caller's n_past and the      *)
(* positions of the chunks before put it, with room for the rest.             *)
Underway(input) ==
    /\ at \in 1 .. Len(input) + 1
    /\ position = n_past + Before(input, at - 1, mrope)
    /\ n_past + Total(input) <= MaxPast

(* Up to where the caller or the evaluation counts there is no gap, and what   *)
(* lies beyond was left behind.                                              *)
End == IF Idle THEN n_past ELSE position
CacheInv ==
    /\ left \subseteq cache /\ cache \subseteq 0 .. MaxPast - 1
    /\ 0 .. End - 1 \subseteq cache /\ cache \subseteq (0 .. End - 1) \cup left

PastInv ==
    /\ AtMostOne(bitmap)
    /\ chunks \subseteq Inputs /\ AtMostOne(chunks)
    /\ running \in {"idle", "evaluating", "encoded"}
    /\ n_past \in 0 .. MaxPast /\ position \in 0 .. MaxPast
    /\ Idle => position = 0
    /\ ~ Idle => n_past <= position /\ \E input \in chunks : Underway(input)
    /\ CacheInv

LEMMA CurrentUnderway ==
    ASSUME PastInv, ~ Idle
    PROVE  \E input \in chunks :
              /\ Underway(input) /\ input \in Seq({"text", "image"}) /\ Len(input) \in Nat
              /\ \A kind : Current(kind) <=> at \in 1 .. Len(input) /\ input[at] = kind
<1>1. PICK input \in chunks : Underway(input)
  BY DEF PastInv
<1>2. input \in Seq({"text", "image"})
  BY MtmdAssumption DEF PastInv
<1>3. Len(input) \in Nat /\ DOMAIN input = 1 .. Len(input)
  BY <1>2
<1>4. \A other \in chunks : other = input
  BY DEF PastInv, AtMostOne
<1> QED BY <1>1, <1>2, <1>3, <1>4 DEF Current

(* The positions before a chunk, with it, and of all.                        *)
LEMMA UnderwayPositions ==
    ASSUME NEW input \in Seq({"text", "image"}), at \in 1 .. Len(input), Underway(input),
           n_past \in Nat
    PROVE  LET n == NPositions(input[at], mrope) IN
           /\ n \in Nat \ {0} /\ position \in Nat
           /\ position + n = n_past + Before(input, (at + 1) - 1, mrope)
           /\ position + n <= MaxPast
<1> DEFINE n == NPositions(input[at], mrope)
           b == Before(input, at - 1, mrope)
           c == Before(input, at, mrope)
           d == Before(input, Len(input), mrope)
<1>1. at - 1 \in 0 .. Len(input) /\ at \in 0 .. Len(input) /\ (at + 1) - 1 = at
      /\ Len(input) \in 0 .. Len(input)
  OBVIOUS
<1>2. n \in Nat \ {0} /\ b \in Nat /\ c \in Nat /\ c = b + n /\ c <= d /\ d \in Nat
  BY <1>1, BeforeGrows
<1>3. position = n_past + b /\ n_past + d <= MaxPast
  BY DEF Underway, Total
<1> HIDE DEF n, b, c, d
<1>4. position + n = n_past + c /\ position + n <= MaxPast /\ position \in Nat
  BY <1>2, <1>3, MtmdAssumption
<1> QED BY <1>1, <1>2, <1>4 DEF n, c

LEMMA PastDecoded ==
    ASSUME PastInv, ~ Idle, NEW kind \in {"text", "image"}, Decoded(kind)
    PROVE  PastInv'
<1> DEFINE n == NPositions(kind, mrope)
<1>1. PICK input \in chunks :
         /\ Underway(input) /\ input \in Seq({"text", "image"}) /\ Len(input) \in Nat
         /\ at \in 1 .. Len(input) /\ input[at] = kind
  BY CurrentUnderway DEF Decoded
<1>2. /\ n \in Nat \ {0} /\ position \in Nat
      /\ position + n = n_past + Before(input, (at + 1) - 1, mrope)
      /\ position + n <= MaxPast
  BY <1>1, UnderwayPositions DEF PastInv
<1>3. /\ cache' = cache \cup (position .. position + n - 1)
      /\ position' = position + n /\ at' = at + 1 /\ running' = "evaluating"
      /\ UNCHANGED <<chunks, mrope, bitmap, n_past, left>>
  BY DEF Decoded, chunkVars
<1> HIDE DEF n
<1>4. Underway(input)'
  <2>1. at + 1 \in 1 .. Len(input) + 1
    BY <1>1
  <2>2. n_past + Total(input)' <= MaxPast
    BY <1>1, <1>3 DEF Underway, Total
  <2> QED BY <1>2, <1>3, <2>1, <2>2 DEF Underway
<1>5. CacheInv'
  <2>1. End = position /\ End' = position + n
    BY <1>3 DEF End, Idle
  <2>2. 0 .. position + n - 1 = (0 .. position - 1) \cup (position .. position + n - 1)
    BY <1>2
  <2>3. position .. position + n - 1 \subseteq 0 .. MaxPast - 1
    BY <1>2, MtmdAssumption
  <2>4. /\ left \subseteq cache /\ cache \subseteq 0 .. MaxPast - 1
        /\ 0 .. position - 1 \subseteq cache /\ cache \subseteq (0 .. position - 1) \cup left
    BY <2>1 DEF PastInv, CacheInv
  <2> DEFINE old == 0 .. position - 1  new == position .. position + n - 1
             both == 0 .. position + n - 1  all == 0 .. MaxPast - 1
  <2>5. /\ left \subseteq cache /\ cache \subseteq all /\ old \subseteq cache
        /\ cache \subseteq old \cup left /\ cache' = cache \cup new /\ left' = left
        /\ both = old \cup new /\ new \subseteq all
    BY <1>3, <2>2, <2>3, <2>4
  <2> HIDE DEF old, new, both, all
  <2>6. left' \subseteq cache' /\ cache' \subseteq all /\ both \subseteq cache' /\ cache' \subseteq both \cup left'
    BY ONLY <2>5
  <2>7. 0 .. End' - 1 = both
    <3>1. End' = position + n
      BY <2>1
    <3> QED BY ONLY <3>1, <1>2 DEF both
  <2> QED BY <2>6, <2>7 DEF CacheInv, all
<1>6. n_past' <= position' /\ position' \in 0 .. MaxPast /\ n_past' \in 0 .. MaxPast
  BY <1>2, <1>3, MtmdAssumption DEF PastInv
<1> QED BY <1>1, <1>3, <1>4, <1>5, <1>6 DEF PastInv, Idle

LEMMA PastFails == ASSUME PastInv, EvalFails PROVE PastInv'
<1>1. PICK kind \in {"text", "image"} :
         /\ Current(kind)
         /\ \E n \in 0 .. (IF running = "evaluating" /\ kind = "image" THEN 0
                           ELSE NPositions(kind, mrope)) :
                /\ cache' = cache \cup (n_past .. position + n - 1)
                /\ left' = left \cup (n_past .. position + n - 1)
  BY DEF EvalFails
<1>2. PICK n \in 0 .. NPositions(kind, mrope) :
         /\ cache' = cache \cup (n_past .. position + n - 1)
         /\ left' = left \cup (n_past .. position + n - 1)
  <2>1. NPositions(kind, mrope) \in Nat
    BY PositionsAreNat
  <2> QED BY <1>1, <2>1
<1>3. /\ ~ Idle /\ running' = "idle" /\ position' = 0
      /\ UNCHANGED <<chunks, bitmap, n_past>>
  BY DEF EvalFails, Over, chunkVars
<1>4. position + n <= MaxPast /\ position + n \in Nat /\ n \in Nat
  <2>1. PICK input \in chunks :
           /\ Underway(input) /\ input \in Seq({"text", "image"})
           /\ at \in 1 .. Len(input) /\ input[at] = kind
    BY <1>1, <1>3, CurrentUnderway
  <2>2. position + NPositions(kind, mrope) <= MaxPast /\ position \in Nat
    BY <2>1, UnderwayPositions DEF PastInv
  <2>3. n <= NPositions(kind, mrope) /\ NPositions(kind, mrope) \in Nat /\ n \in Nat
    BY PositionsAreNat
  <2> QED BY ONLY <2>2, <2>3, MtmdAssumption
<1>5. CacheInv'
  <2>1. End = position /\ End' = n_past /\ n_past <= position /\ n_past \in Nat
        /\ position \in Nat
    BY <1>3 DEF End, Idle, PastInv
  <2>2. 0 .. position - 1 \subseteq (0 .. n_past - 1) \cup (n_past .. position + n - 1)
    BY <1>4, <2>1
  <2>3. n_past .. position + n - 1 \subseteq 0 .. MaxPast - 1
    BY <1>4, <2>1, MtmdAssumption
  <2>4. 0 .. n_past - 1 \subseteq 0 .. position - 1
    BY <2>1
  <2> QED BY <1>2, <2>1, <2>2, <2>3, <2>4 DEF PastInv, CacheInv
<1>6. 0 \in 0 .. MaxPast
  BY MtmdAssumption
<1> QED BY <1>3, <1>5, <1>6 DEF PastInv, Idle

LEMMA PastTrimmed == ASSUME PastInv, NEW n \in 0 .. MaxPast, Trim(n) PROVE PastInv'
<1>1. /\ cache' = {p \in cache : p < n} /\ left' = {p \in left : p < n} /\ n_past' = n
      /\ Idle /\ n <= n_past /\ n \in Nat /\ n_past \in Nat
      /\ UNCHANGED <<chunks, bitmap, running, position>>
  BY MtmdAssumption DEF Trim, PastInv, chunkVars
<1>2. CacheInv'
  <2>1. End = n_past /\ End' = n
    BY <1>1 DEF End, Idle
  <2>2. 0 .. n - 1 \subseteq 0 .. n_past - 1 /\ \A p \in 0 .. n - 1 : p < n
    BY <1>1
  <2>3. \A p \in 0 .. n_past - 1 : p < n => p \in 0 .. n - 1
    BY <1>1
  <2> QED BY <1>1, <2>1, <2>2, <2>3 DEF PastInv, CacheInv
<1> QED BY <1>1, <1>2 DEF PastInv, Idle

(* All of the input is evaluated when no chunk is left.                       *)
LEMMA PastReturned ==
    ASSUME PastInv, EvalReturns
    PROVE  /\ \A input \in chunks : n_past' = n_past + Total(input)
           /\ 0 .. n_past' - 1 \subseteq cache
           /\ left = {} => cache = 0 .. n_past' - 1
<1>1. ~ Idle /\ ~ Current("text") /\ ~ Current("image") /\ n_past' = position
  BY DEF EvalReturns, Idle
<1>2. PICK input \in chunks :
         /\ Underway(input) /\ input \in Seq({"text", "image"}) /\ Len(input) \in Nat
         /\ \A kind : Current(kind) <=> at \in 1 .. Len(input) /\ input[at] = kind
  BY <1>1, CurrentUnderway
<1>3. at = Len(input) + 1
  <2>1. at \notin 1 .. Len(input)
    BY <1>1, <1>2
  <2> QED BY <1>2, <2>1 DEF Underway
<1>4. at - 1 = Len(input)
  BY <1>2, <1>3
<1>5. position = n_past + Total(input)
  BY <1>2, <1>4 DEF Underway, Total
<1>6. \A other \in chunks : other = input
  BY DEF PastInv, AtMostOne
<1>7. End = position
  BY <1>1 DEF End
<1> QED BY <1>1, <1>5, <1>6, <1>7 DEF PastInv, CacheInv

LEMMA PastNext == ASSUME PastInv, [Next]_vars PROVE PastInv'
<1>1. ASSUME UNCHANGED <<chunks, bitmap, mrope, evalVars>> PROVE PastInv'
  BY <1>1 DEF PastInv, CacheInv, End, Idle, Underway, Total, evalVars
<1>2. CASE UNCHANGED evalVars /\ UNCHANGED chunkVars
  BY <1>1, <1>2 DEF chunkVars
<1>3. CASE MtmdNext
  <2>1. CASE NewBitmap \/ DropBitmap
    <3>1. AtMostOne(bitmap') /\ UNCHANGED <<chunks, mrope, evalVars>>
      BY <2>1 DEF NewBitmap, DropBitmap, AtMostOne
    <3> QED BY <3>1 DEF PastInv, CacheInv, End, Idle, Underway, Total, evalVars
  <2>2. CASE \E input \in Inputs : Tokenize(input)
    <3>1. Idle /\ chunks' \subseteq Inputs /\ AtMostOne(chunks') /\ UNCHANGED <<bitmap, evalVars>>
      BY <2>2 DEF Tokenize, PastInv, AtMostOne
    <3> QED BY <3>1 DEF PastInv, CacheInv, End, Idle, evalVars
  <2>3. CASE \E i \in 0 .. 3 : Get(i)
    BY <1>1, <2>3 DEF Get
  <2>4. CASE \E h \in handles : DropHandle(h)
                                \/ \E i \in 1 .. MaxHandles : Copy(h, <<"copy", i>>)
    BY <1>1, <2>4 DEF DropHandle, Copy
  <2>5. CASE DropChunks
    BY <2>5 DEF DropChunks, PastInv, CacheInv, End, AtMostOne, Idle, evalVars
  <2>6. CASE EvalChunks
    <3>1. PICK input \in chunks : n_past + Total(input) <= MaxPast
      BY <2>6 DEF EvalChunks
    <3>2. input \in Seq({"text", "image"}) /\ Before(input, 0, mrope) = 0
      BY <3>1, BeforeGrows, MtmdAssumption DEF PastInv
    <3>3. /\ at' = 1 /\ position' = n_past /\ running' = "evaluating" /\ Idle
          /\ UNCHANGED <<chunks, bitmap, mrope, cache, left, n_past>>
      BY <2>6 DEF EvalChunks, chunkVars
    <3>4. n_past + Total(input)' <= MaxPast
      BY <3>1, <3>3 DEF Total
    <3>5. 1 \in 1 .. Len(input) + 1 /\ 1 - 1 = 0 /\ n_past = n_past + 0 /\ n_past \in Nat
      BY <3>2 DEF PastInv
    <3>6. Underway(input)'
      BY <3>2, <3>3, <3>4, <3>5 DEF Underway
    <3>7. CacheInv'
      BY <3>3 DEF PastInv, CacheInv, End, Idle
    <3>8. n_past' <= position'
      BY <3>3, <3>5
    <3> QED BY <3>1, <3>3, <3>6, <3>7, <3>8 DEF PastInv, Idle
  <2>7. CASE EvalText
    BY <2>7, PastDecoded DEF EvalText, Idle
  <2>8. CASE EncodeImage
    <3>1. /\ running = "evaluating" /\ running' = "encoded"
          /\ UNCHANGED <<chunks, mrope, bitmap, at, position, cache, left, n_past>>
      BY <2>8 DEF EncodeImage, chunkVars
    <3> QED BY <3>1 DEF PastInv, CacheInv, End, Idle, Underway, Total
  <2>9. CASE EvalImage
    BY <2>9, PastDecoded DEF EvalImage, Idle
  <2>10. CASE EvalReturns
    <3>1. /\ running' = "idle" /\ position' = 0 /\ n_past' = position /\ ~ Idle
          /\ UNCHANGED <<chunks, bitmap, cache, left>>
      BY <2>10 DEF EvalReturns, Over, Idle, chunkVars
    <3>2. CacheInv'
      BY <3>1 DEF PastInv, CacheInv, End, Idle
    <3>3. 0 \in 0 .. MaxPast
      BY MtmdAssumption
    <3> QED BY <3>1, <3>2, <3>3 DEF PastInv, Idle
  <2>11. CASE EvalFails \/ \E n \in 0 .. MaxPast : Trim(n)
    BY <2>11, PastFails, PastTrimmed
  <2> QED BY <1>3, <2>1, <2>2, <2>3, <2>4, <2>5, <2>6, <2>7, <2>8, <2>9, <2>10,
             <2>11 DEF MtmdNext
<1> QED BY <1>2, <1>3 DEF Next, vars

LEMMA PastInvHolds == Spec => []PastInv
<1>1. MtmdInit => PastInv
  <2>1. 0 .. 0 - 1 = {} /\ 0 \in 0 .. MaxPast
    BY MtmdAssumption
  <2> QED BY <2>1 DEF MtmdInit, PastInv, CacheInv, End, AtMostOne, Idle
<1> QED BY <1>1, PastNext, PTL DEF Spec

(* PastCountsCache: the n_past that eval_chunks hands out is the caller's      *)
(* advanced by total_positions, with no gap below it, for any inputs, with     *)
(* M-RoPE or without and through failed evaluations; it is where the cache     *)
(* ends once what those left behind has been trimmed.                        *)
THEOREM PastCounts == Spec => PastCountsCache
<1> DEFINE A == EvalReturns =>
                   /\ \A input \in chunks : n_past' = n_past + Total(input)
                   /\ 0 .. n_past' - 1 \subseteq cache
                   /\ left = {} => cache = 0 .. n_past' - 1
<1>1. PastInv /\ [Next]_vars => [A]_vars
  BY PastReturned
<1>2. PastCountsCache <=> [][A]_vars
  BY DEF PastCountsCache
<1> HIDE DEF A
<1> QED BY <1>1, <1>2, PastInvHolds, PTL DEF Spec

(* The types of the state, and that eval_chunks never goes past the positions  *)
(* it was given room for.                                                    *)
THEOREM TypesHold == Spec => []TypeOK
<1> DEFINE Inv == BatchInv /\ BatchTyped /\ PastInv
<1>1. Spec => []BatchTyped
  <2>1. MtmdInit => BatchTyped
    <3>1. 1 .. Len(<<>>) = {}
      OBVIOUS
    <3> QED BY <3>1 DEF MtmdInit, ContextInit, BatchTyped, AtMostOne
  <2>2. BatchInv /\ BatchTyped /\ [Next]_vars => BatchTyped'
    BY BatchTypedNext
  <2> QED BY <2>1, <2>2, BatchInvHolds, PTL DEF Spec
<1>2. ASSUME Inv PROVE TypeOK
  <2>1. ContextTypeOK
    <3>1. Cardinality(slice) <= 1
      BY <1>2, AtMostOneCounted DEF BatchTyped
    <3>2. DOMAIN batch = 1 .. Len(batch)
      BY <1>2 DEF BatchInv
    <3> QED BY <1>2, <3>1, <3>2 DEF ContextTypeOK, BatchInv, BatchTyped
  <2>2. Cardinality(bitmap) <= 1 /\ Cardinality(chunks) <= 1
    BY <1>2, AtMostOneCounted DEF PastInv
  <2> QED BY <1>2, <2>1, <2>2 DEF TypeOK, PastInv, CacheInv
<1> QED BY <1>1, <1>2, BatchInvHolds, PastInvHolds, PTL

=============================================================================
