----------------------------- MODULE ModelProofs -----------------------------
(* Proofs about Backend, for every set of threads, and about Model, for every *)
(* set of threads, models, contexts and adapters.                            *)
EXTENDS Model, SequenceTheorems, Induction, TLAPS

-----------------------------------------------------------------------------
(* The backend alone. *)

(* Every step of every thread keeps the inductive invariant: a thread only   *)
(* becomes busy by a swap that found the flag down, when nobody was.         *)
LEMMA StepIInv == IInv /\ [Next]_vars => IInv'
<1> SUFFICES ASSUME IInv, [Next]_vars PROVE IInv'
  OBVIOUS
<1> USE DEF IInv, TypeOK, OneAtATime, HandleMeansUp, Busy, Goto
<1>1. CASE UNCHANGED vars
  BY <1>1 DEF vars
<1>2. ASSUME NEW t \in Threads, Swap(t) PROVE IInv'
  BY <1>2 DEF Swap
<1>3. ASSUME NEW t \in Threads, NEW u \in Threads, Send(t, u) PROVE IInv'
  <2>1. t # u /\ Busy(u)' /\ ~ Busy(t)'
    BY <1>3 DEF Send
  <2>2. \A v \in Threads : Busy(v)' <=> v = u
    BY <1>3, <2>1 DEF Send
  <2> QED BY <1>3, <2>2 DEF Send
<1>4. ASSUME NEW t \in Threads, Drop(t) \/ Finish(t) PROVE IInv'
  <2>1. CASE Drop(t)
    BY <2>1 DEF Drop
  <2>2. CASE BackendInit(t)
    BY <2>2 DEF BackendInit
  <2>3. CASE BackendFree(t)
    BY <2>3 DEF BackendFree
  <2>4. CASE Clear(t)
    BY <2>4 DEF Clear
  <2> QED BY <1>4, <2>1, <2>2, <2>3, <2>4 DEF Finish
<1> QED BY <1>1, <1>2, <1>3, <1>4 DEF Next

(* The flag is up exactly while one thread owns the backend's life cycle.    *)
THEOREM Inductive == Spec => []IInv
<1>1. Init => IInv
  BY DEF Init, IInv, TypeOK, OneAtATime, HandleMeansUp, Busy
<1> QED BY <1>1, StepIInv, PTL DEF Spec

(* However init and drop interleave, llama_backend_init and                  *)
(* llama_backend_free run one at a time, and never under a live handle.      *)
THEOREM MutualExclusion == Spec => []OneAtATime
<1>1. IInv => OneAtATime
  BY DEF IInv
<1> QED BY <1>1, Inductive, PTL

(* A handle guarantees an initialized library.                               *)
THEOREM HandleImpliesUp == Spec => []HandleMeansUp
<1>1. IInv => HandleMeansUp
  BY DEF IInv
<1> QED BY <1>1, Inductive, PTL

(* init never reports BackendAlreadyInitialized without somebody to blame.   *)
THEOREM RefusalsAreTrue == Spec => RefusedOnlyIfTaken
<1>1. ASSUME IInv, [Next]_vars
      PROVE  [\A t \in Threads : pc'[t] = "refused" /\ pc[t] # "refused"
                 => \E u \in Threads : Busy(u)]_vars
  <2> SUFFICES ASSUME NEW t \in Threads, pc'[t] = "refused", pc[t] # "refused", Next
               PROVE  \E u \in Threads : Busy(u)
    BY <1>1 DEF vars
  <2>1. PICK s \in Threads : \/ Swap(s) \/ Drop(s) \/ Finish(s)
                             \/ \E u \in Threads : Send(s, u)
    BY DEF Next
  <2> USE <1>1 DEF IInv, TypeOK, Busy, Goto
  <2>2. CASE Swap(s)
    BY <2>2 DEF Swap
  <2>3. CASE Drop(s) \/ Finish(s) \/ \E u \in Threads : Send(s, u)
    BY <2>3 DEF Drop, Finish, BackendInit, BackendFree, Clear, Send
  <2> QED BY <2>1, <2>2, <2>3
<1> QED BY <1>1, Inductive, PTL DEF Spec, RefusedOnlyIfTaken

-----------------------------------------------------------------------------
(* Models, contexts and adapters on it. *)

(* What is built on the backend leaves its protocol alone.                   *)
LEMMA BackendStep == [ModelNext]_modelVars => [Next]_vars
<1> SUFFICES ASSUME [ModelNext]_modelVars PROVE [Next]_vars
  OBVIOUS
<1>1. CASE UNCHANGED modelVars
  BY <1>1 DEF modelVars, vars
<1>2. CASE OnBackend
  BY <1>2 DEF OnBackend, DropBackend, Next
<1>3. CASE UNCHANGED vars
  BY <1>3
<1> QED BY <1>1, <1>2, <1>3 DEF ModelNext

(* A step leaves a handle somewhere as long as a model is loaded.            *)
LEMMA LifeStep == IInv /\ LifeInv /\ [ModelNext]_modelVars => LifeInv'
<1> SUFFICES ASSUME IInv, LifeInv, [ModelNext]_modelVars PROVE LifeInv'
  OBVIOUS
<1> USE DEF LifeInv, HoldsBackend
<1>1. CASE UNCHANGED modelVars
  BY <1>1 DEF modelVars
<1>2. CASE OnBackend /\ UNCHANGED lives
  <2>1. SUFFICES ASSUME models # {} PROVE HoldsBackend'
    BY <1>2 DEF lives
  <2>2. PICK h \in Threads : pc[h] = "live"
    BY <2>1
  <2> USE DEF IInv, TypeOK, Goto
  <2>3. ASSUME NEW t \in Threads, Swap(t) PROVE HoldsBackend'
    BY <2>2, <2>3 DEF Swap
  <2>4. ASSUME NEW t \in Threads, NEW u \in Threads, Send(t, u) PROVE HoldsBackend'
    BY <2>4 DEF Send
  <2>5. ASSUME NEW t \in Threads, Finish(t) PROVE HoldsBackend'
    BY <2>2, <2>5 DEF Finish, BackendInit, BackendFree, Clear
  <2> QED BY <1>2, <2>1, <2>3, <2>4, <2>5 DEF OnBackend, DropBackend
<1>3. CASE OnModels /\ UNCHANGED vars
  <2>1. HoldsBackend' = HoldsBackend
    BY <1>3 DEF vars
  <2>2. CASE \E m \in Models : LoadFromFile(m)
    BY <2>1, <2>2 DEF LoadFromFile
  <2>3. CASE models' \subseteq models
    BY <2>1, <2>3
  <2>4. (\E m \in Models : LoadFromFile(m)) \/ models' \subseteq models
    BY <1>3 DEF OnModels, DropModel, NewContext, DropContext, LoraAdapterClear,
                LoraAdapterInit, DropAdapter, LoraAdapterSet, LoraAdapterRemove
  <2> QED BY <2>2, <2>3, <2>4
<1>4. CASE UNCHANGED vars /\ UNCHANGED lives
  BY <1>4 DEF vars, lives
<1> QED BY <1>1, <1>2, <1>3, <1>4 DEF ModelNext

(* The library is up for as long as a model is loaded, provided every caller *)
(* drops the backend last.                                                  *)
THEOREM ModelsOutlivedByLibrary == ModelSpec => []LoadedWhileUp
<1>1. ModelInit => IInv /\ LifeInv
  BY DEF ModelInit, Init, LifeInv, IInv, TypeOK, OneAtATime, HandleMeansUp, Busy
<1>2. IInv /\ LifeInv /\ [ModelNext]_modelVars => IInv' /\ LifeInv'
  BY BackendStep, StepIInv, LifeStep
<1>3. IInv /\ LifeInv => LoadedWhileUp
  BY DEF IInv, HandleMeansUp, LifeInv, HoldsBackend, LoadedWhileUp
<1> QED BY <1>1, <1>2, <1>3, PTL DEF ModelSpec

-----------------------------------------------------------------------------
(* Every call keeps the books on who owns and who freed an adapter.          *)
LEMMA AdapterStep == AdapterInv /\ [ModelNext]_modelVars => AdapterInv'
<1> SUFFICES ASSUME AdapterInv, [ModelNext]_modelVars PROVE AdapterInv'
  OBVIOUS
<1> USE NoModelAssumption DEF AdapterInv
<1>1. CASE UNCHANGED lives
  BY <1>1 DEF lives
<1>2. CASE OnModels
  <2>1. ASSUME NEW m \in Models, LoadFromFile(m) PROVE AdapterInv'
    BY <2>1 DEF LoadFromFile
  <2>2. ASSUME NEW m \in Models, DropModel(m) PROVE AdapterInv'
    BY <2>2 DEF DropModel, OwnedBy
  <2>3. ASSUME NEW c \in Contexts, NEW m \in Models, NewContext(c, m) PROVE AdapterInv'
    BY <2>3 DEF NewContext
  <2>4. ASSUME NEW c \in Contexts, DropContext(c) PROVE AdapterInv'
    BY <2>4 DEF DropContext
  <2>5. ASSUME NEW c \in Contexts, LoraAdapterClear(c) PROVE AdapterInv'
    BY <2>5 DEF LoraAdapterClear
  <2>6. ASSUME NEW a \in Adapters, NEW m \in Models, LoraAdapterInit(a, m) PROVE AdapterInv'
    BY <2>6 DEF LoraAdapterInit
  <2>7. ASSUME NEW a \in Adapters, DropAdapter(a) PROVE AdapterInv'
    BY <2>7 DEF DropAdapter
  <2>8. ASSUME NEW c \in Contexts, NEW a \in Adapters, LoraAdapterSet(c, a) PROVE AdapterInv'
    BY <2>8 DEF LoraAdapterSet
  <2>9. ASSUME NEW c \in Contexts, NEW a \in Adapters, LoraAdapterRemove(c, a) PROVE AdapterInv'
    BY <2>9 DEF LoraAdapterRemove
  <2> QED BY <1>2, <2>1, <2>2, <2>3, <2>4, <2>5, <2>6, <2>7, <2>8, <2>9 DEF OnModels
<1> QED BY <1>1, <1>2 DEF ModelNext, modelVars, lives

(* An adapter is freed once, by its model, and never under a context of that *)
(* model.                                                                   *)
THEOREM FreedOnce == ModelSpec => []AdaptersFreedOnce
<1>1. ModelInit => AdapterInv
  BY NoModelAssumption DEF ModelInit, AdapterInv
<1>2. AdapterInv => AdaptersFreedOnce
  BY NoModelAssumption DEF AdapterInv, AdaptersFreedOnce
<1> QED BY <1>1, <1>2, AdapterStep, PTL DEF ModelSpec

-----------------------------------------------------------------------------
(* What the readers of Text return.                                          *)

(* What a count reads back of a buffer that holds a text is the text.        *)
LEMMA CutPadded ==
    ASSUME NEW S, NEW s \in Seq(S), NEW cap \in Nat, Len(s) <= cap
    PROVE  /\ Cut(s, cap) = s
           /\ Padded(s, cap) \in Seq(S \cup {0})
           /\ Len(Padded(s, cap)) = cap
           /\ Cut(Padded(s, cap), Len(s)) = s
<1> DEFINE n == Len(s)  z == Zeros(cap - n)
<1>1. n \in Nat /\ n <= cap
  OBVIOUS
<1>2. Cut(s, cap) = s
  <2>1. SubSeq(s, 1, Len(s)) = s
    OBVIOUS
  <2>2. (IF cap < Len(s) THEN cap ELSE Len(s)) = Len(s)
    OBVIOUS
  <2> QED BY ONLY <2>1, <2>2 DEF Cut
<1>3. Padded(s, cap) = s \o z
  BY ONLY <1>2 DEF Padded
<1>4. z \in Seq(S \cup {0}) /\ Len(z) = cap - n
  <2>1. cap - n \in Nat
    BY <1>1
  <2> QED BY <2>1 DEF Zeros
<1>5. s \in Seq(S \cup {0})
  OBVIOUS
<1> HIDE DEF z
<1>6. s \o z \in Seq(S \cup {0}) /\ Len(s \o z) = cap
  BY <1>1, <1>4, <1>5
<1>7. SubSeq(s \o z, 1, n) = s
  BY <1>4, <1>5
<1>8. Cut(s \o z, n) = SubSeq(s \o z, 1, n)
  <2>1. (IF n < Len(s \o z) THEN n ELSE Len(s \o z)) = n
    BY <1>1, <1>6
  <2> QED BY ONLY <2>1 DEF Cut
<1> QED BY <1>2, <1>3, <1>6, <1>7, <1>8

(* The library's calls, with the text and without one.                       *)
LEMMA FillsOrNeeds ==
    ASSUME NEW S, NEW s \in Seq(S), NEW cap \in Nat
    PROVE  /\ Len(s) > cap => FillOrNeed({s}, cap).n = -Len(s)
           /\ Len(s) <= cap => /\ FillOrNeed({s}, cap).n = Len(s)
                               /\ Truncated(FillOrNeed({s}, cap)) = {s}
<1>1. (CHOOSE x \in {s} : TRUE) = s /\ {s} # {} /\ Len(s) \in Nat
  OBVIOUS
<1>2. CASE Len(s) > cap
  <2>1. FillOrNeed({s}, cap) = [n |-> -Len(s), buf |-> Zeros(cap)]
    BY ONLY <1>1, <1>2 DEF FillOrNeed
  <2> QED BY <1>1, <1>2, <2>1
<1>3. CASE Len(s) <= cap
  <2>1. FillOrNeed({s}, cap) = [n |-> Len(s), buf |-> Padded(s, cap)]
    <3>1. ~ (Len(s) > cap)
      BY <1>1, <1>3
    <3> QED BY ONLY <1>1, <3>1 DEF FillOrNeed
  <2>2. Cut(Padded(s, cap), Len(s)) = s
    BY <1>3, CutPadded
  <2>3. ~ (Len(s) > cap) /\ ~ (Len(s) < 0)
    BY <1>1, <1>3
  <2>4. FillOrNeed({s}, cap).n = Len(s) /\ FillOrNeed({s}, cap).buf = Padded(s, cap)
    BY ONLY <2>1
  <2>5. Truncated(FillOrNeed({s}, cap)) = {s}
    BY ONLY <2>2, <2>3, <2>4 DEF Truncated
  <2> QED BY ONLY <2>3, <2>4, <2>5
<1> QED BY <1>1, <1>2, <1>3

LEMMA RefusesToFill ==
    ASSUME NEW cap \in Nat
    PROVE  /\ FillOrNeed({}, cap).n = -1 /\ Truncated(FillOrNeed({}, cap)) = {}
           /\ Snprintf({}, cap).n = -1 /\ Truncated(Snprintf({}, cap)) = {}
           /\ FillWhatFits({}, cap).n = -1 /\ Truncated(FillWhatFits({}, cap)) = {}
BY DEF FillOrNeed, Snprintf, FillWhatFits, Truncated

(* The retry of a reader that is told how much room it needs.                *)
LEMMA RetryFills ==
    ASSUME NEW S, NEW s \in Seq(S), NEW cap \in Nat
    PROVE  LET first == FillOrNeed({s}, cap)
           IN  Truncated(IF first.n < 0 THEN FillOrNeed({s}, Needed(first.n)) ELSE first) = {s}
<1> DEFINE first == FillOrNeed({s}, cap)
           Result(r) == Truncated(IF r.n < 0 THEN FillOrNeed({s}, Needed(r.n)) ELSE r) = {s}
<1>1. Len(s) \in Nat
  OBVIOUS
<1>2. ASSUME Len(s) > cap PROVE Result(first)
  <2>1. first.n = -Len(s)
    BY <1>2, FillsOrNeeds
  <2>2. Len(s) > 0
    BY <1>1, <1>2
  <2>3. -Len(s) < 0 /\ -(-Len(s)) = Len(s)
    BY ONLY <1>1, <2>2
  <2>4. first.n < 0 /\ Needed(first.n) = Len(s)
    BY ONLY <2>1, <2>3 DEF Needed
  <2>5. Truncated(FillOrNeed({s}, Len(s))) = {s}
    BY <1>1, FillsOrNeeds
  <2> HIDE DEF first
  <2>6. (IF first.n < 0 THEN FillOrNeed({s}, Needed(first.n)) ELSE first)
            = FillOrNeed({s}, Len(s))
    BY ONLY <2>4
  <2>7. Truncated(IF first.n < 0 THEN FillOrNeed({s}, Needed(first.n)) ELSE first) = {s}
    BY ONLY <2>5, <2>6
  <2> QED BY ONLY <2>7 DEF first
<1>3. ASSUME Len(s) <= cap PROVE Result(first)
  <2>1. first.n = Len(s) /\ Truncated(first) = {s}
    BY <1>3, FillsOrNeeds
  <2>2. ~ (first.n < 0)
    BY <1>1, <2>1
  <2> HIDE DEF first
  <2>3. (IF first.n < 0 THEN FillOrNeed({s}, Needed(first.n)) ELSE first) = first
    BY ONLY <2>2
  <2>4. Truncated(IF first.n < 0 THEN FillOrNeed({s}, Needed(first.n)) ELSE first) = {s}
    BY ONLY <2>1, <2>3
  <2> QED BY ONLY <2>4 DEF first
<1>4. Len(s) > cap \/ Len(s) <= cap
  BY <1>1
<1>5. Result(first)
  <2> HIDE DEF first, Result
  <2> QED BY ONLY <1>2, <1>3, <1>4
<1> QED BY ONLY <1>5

(* Every reader of a text gives what the library holds.                      *)
LEMMA TokenizeReads ==
    ASSUME NEW bytes \in Nat
    PROVE  /\ Tokenize({}, bytes) = {}
           /\ \A S : \A s \in Seq(S) : Tokenize({s}, bytes) = {s}
<1>1. bytes + Slack \in Nat
  BY SizesAssumption
<1>2. Tokenize({}, bytes) = {}
  <2>0. Needed(-1) = 1 /\ -1 < 0
    <3>1. \A k \in Int : -(0 - k) = k
      OBVIOUS
    <3>2. -1 = 0 - 1 /\ 1 \in Int
      OBVIOUS
    <3>3. -(-1) = 1
      BY ONLY <3>1, <3>2
    <3> QED BY ONLY <3>3 DEF Needed
  <2>1. FillOrNeed({}, bytes + Slack).n = -1 /\ Needed(-1) = 1 /\ -1 < 0
    BY <1>1, <2>0, RefusesToFill
  <2>2. Truncated(FillOrNeed({}, 1)) = {}
    BY RefusesToFill
  <2> QED BY <2>1, <2>2 DEF Tokenize
<1>3. ASSUME NEW S, NEW s \in Seq(S) PROVE Tokenize({s}, bytes) = {s}
  BY <1>1, RetryFills DEF Tokenize
<1> QED BY <1>2, <1>3

LEMMA FfiStringReads ==
    /\ ReadFfiString({}) = {}
    /\ \A S : \A s \in Seq(S) : ReadFfiString({s}) = {s}
<1>1. ReadFfiString({}) = {}
  BY RefusesToFill DEF ReadFfiString
<1>2. ASSUME NEW S, NEW s \in Seq(S) PROVE ReadFfiString({s}) = {s}
  <2>1. (CHOOSE x \in {s} : TRUE) = s /\ {s} # {} /\ Len(s) \in Nat
    OBVIOUS
  <2>2. Snprintf({s}, 0).n = Len(s)
    BY <2>1 DEF Snprintf
  <2>3. Snprintf({s}, Len(s) + 1) = [n |-> Len(s), buf |-> Padded(Cut(s, Len(s)), Len(s) + 1)]
    <3>1. Len(s) + 1 # 0 /\ (Len(s) + 1) - 1 = Len(s)
      BY <2>1
    <3> QED BY ONLY <2>1, <3>1 DEF Snprintf
  <2>4. Cut(s, Len(s)) = s /\ Cut(Padded(s, Len(s) + 1), Len(s)) = s
    <3>1. Len(s) <= Len(s) /\ Len(s) <= Len(s) + 1 /\ Len(s) + 1 \in Nat
      BY <2>1
    <3> QED BY <2>1, <3>1, CutPadded
  <2>5. Truncated(Snprintf({s}, Len(s) + 1)) = {s}
    <3>1. ~ (Len(s) < 0)
      BY <2>1
    <3> QED BY ONLY <2>3, <2>4, <3>1 DEF Truncated
  <2>6. ~ (Len(s) < 0)
    BY <2>1
  <2> QED BY ONLY <2>2, <2>5, <2>6 DEF ReadFfiString
<1> QED BY <1>1, <1>2

LEMMA TemplateReads ==
    ASSUME NEW bytes \in Nat
    PROVE  /\ ApplyChatTemplate({}, bytes) = {}
           /\ \A S : \A s \in Seq(S) : ApplyChatTemplate({s}, bytes) = {s}
<1>1. 2 * bytes \in Nat
  OBVIOUS
<1>2. ApplyChatTemplate({}, bytes) = {}
  <2>1. FillWhatFits({}, 2 * bytes).n = -1 /\ Truncated(FillWhatFits({}, 2 * bytes)) = {}
    BY <1>1, RefusesToFill
  <2>2. ~ (-1 > 2 * bytes)
    BY <1>1
  <2> QED BY ONLY <2>1, <2>2 DEF ApplyChatTemplate
<1>3. ASSUME NEW S, NEW s \in Seq(S) PROVE ApplyChatTemplate({s}, bytes) = {s}
  <2>1. (CHOOSE x \in {s} : TRUE) = s /\ {s} # {} /\ Len(s) \in Nat
    OBVIOUS
  <2>2. ASSUME NEW cap
        PROVE  FillWhatFits({s}, cap).n = Len(s) /\ FillWhatFits({s}, cap).buf = Padded(s, cap)
    <3>1. FillWhatFits({s}, cap) = [n |-> Len(s), buf |-> Padded(s, cap)]
      BY ONLY <2>1 DEF FillWhatFits
    <3> QED BY ONLY <3>1
  <2>3. \A cap \in Nat : Len(s) <= cap => Truncated(FillWhatFits({s}, cap)) = {s}
    <3>1. \A cap \in Nat : Len(s) <= cap => Cut(Padded(s, cap), Len(s)) = s
      BY CutPadded
    <3>2. ~ (Len(s) < 0)
      BY <2>1
    <3>3. ASSUME NEW cap \in Nat, Len(s) <= cap
          PROVE  Truncated(FillWhatFits({s}, cap)) = {s}
      <4>1. FillWhatFits({s}, cap).n = Len(s) /\ FillWhatFits({s}, cap).buf = Padded(s, cap)
        BY ONLY <2>2
      <4>2. Cut(Padded(s, cap), Len(s)) = s
        BY <3>1, <3>3
      <4> QED BY ONLY <3>2, <4>1, <4>2 DEF Truncated
    <3> QED BY <3>3
  <2>4. CASE Len(s) > 2 * bytes
    <3>1. Truncated(FillWhatFits({s}, Len(s))) = {s}
      <4>1. Len(s) \in Nat /\ Len(s) <= Len(s)
        BY <2>1
      <4> QED BY ONLY <2>3, <4>1
    <3>2. FillWhatFits({s}, 2 * bytes).n = Len(s)
      BY ONLY <2>2
    <3> QED BY ONLY <2>4, <3>1, <3>2 DEF ApplyChatTemplate
  <2>5. CASE ~ (Len(s) > 2 * bytes)
    <3>1. Truncated(FillWhatFits({s}, 2 * bytes)) = {s}
      <4>1. 2 * bytes \in Nat /\ Len(s) <= 2 * bytes
        BY <1>1, <2>1, <2>5
      <4> QED BY ONLY <2>3, <4>1
    <3>2. FillWhatFits({s}, 2 * bytes).n = Len(s)
      BY ONLY <2>2
    <3> QED BY ONLY <2>5, <3>1, <3>2 DEF ApplyChatTemplate
  <2> QED BY <2>4, <2>5
<1> QED BY <1>2, <1>3

(* The bytes of pieces, and the state of a decoder.                          *)
Byte == {Letter, Lead, Continuation}
Decoder == [out : Seq(Nat), open : BOOLEAN, size : Nat, bad : Nat]
Open(d) == IF d.open THEN 1 ELSE 0

LEMMA PieceReads ==
    ASSUME NEW t \in Int, NEW bufSize \in Nat
    PROVE  Piece(t, bufSize) = (IF Known(t) THEN {Vocab[t + 1]} ELSE {})
<1>1. Len(Vocab) \in Nat /\ \A k \in 1 .. Len(Vocab) : Vocab[k] \in Seq(Byte)
  <2>1. Vocab \in Seq(Seq(Byte))
    BY VocabAssumption DEF Byte
  <2>2. ASSUME NEW S, NEW s \in Seq(S), NEW j \in 1 .. Len(s) PROVE s[j] \in S
    OBVIOUS
  <2>3. Len(Vocab) \in Nat
    BY <2>1
  <2> QED BY <2>1, <2>2, <2>3
<1>2. CASE Known(t)
  <2>1. t + 1 \in 1 .. Len(Vocab) /\ ~ (t < 0 \/ t >= Len(Vocab))
    BY <1>1, <1>2 DEF Known
  <2>2. (IF bufSize = 0 THEN 1 ELSE bufSize) \in Nat
    OBVIOUS
  <2>3. Vocab[t + 1] \in Seq(Byte)
    BY <1>1, <2>1
  <2> DEFINE cap == IF bufSize = 0 THEN 1 ELSE bufSize
             s == Vocab[t + 1]
             first == FillOrNeed({s}, cap)
  <2>4. Truncated(IF first.n < 0 THEN FillOrNeed({s}, Needed(first.n)) ELSE first) = {s}
    <3> HIDE DEF cap, s
    <3>1. cap \in Nat /\ s \in Seq(Byte)
      BY <2>2, <2>3 DEF cap, s
    <3> QED BY ONLY <3>1, RetryFills
  <2> QED BY ONLY <1>2, <2>1, <2>4 DEF Piece
<1>3. CASE ~ Known(t)
  <2>1. t < 0 \/ t >= Len(Vocab)
    BY <1>1, <1>3 DEF Known
  <2> QED BY ONLY <1>3, <2>1 DEF Piece
<1> QED BY <1>2, <1>3

(* An index within a table gives its element, any other one nothing.         *)
LEMMA TableReads ==
    ASSUME NEW table, table \in Seq(ToSet(table)), NEW i \in Int
    PROVE  (IF Within(i, Len(table)) THEN {LibAt(table, i)} ELSE {})
               = {table[j] : j \in (DOMAIN table) \cap {i + 1}}
<1>1. DOMAIN table = 1 .. Len(table) /\ Len(table) \in Nat
  OBVIOUS
<1>2. CASE Within(i, Len(table))
  <2>1. i + 1 \in DOMAIN table
    BY <1>1, <1>2 DEF Within
  <2>2. LibAt(table, i) = table[i + 1]
    BY ONLY <2>1 DEF LibAt
  <2>3. (DOMAIN table) \cap {i + 1} = {i + 1}
    BY ONLY <2>1
  <2> QED BY ONLY <1>2, <2>2, <2>3
<1>3. CASE ~ Within(i, Len(table))
  <2>1. i + 1 \notin DOMAIN table
    BY <1>1, <1>3 DEF Within
  <2>2. (DOMAIN table) \cap {i + 1} = {}
    BY ONLY <2>1
  <2> QED BY ONLY <1>3, <2>2
<1> QED BY <1>2, <1>3

LEMMA TensorReads ==
    ASSUME NEW i \in Int
    PROVE  Tensor(i) = {Header.tensors[j] : j \in (DOMAIN Header.tensors) \cap {i + 1}}
<1> DEFINE table == Header.tensors
<1>1. table \in Seq(ToSet(table))
  BY HeaderAssumption
<1> HIDE DEF table
<1>2. (IF Within(i, Len(table)) THEN {LibAt(table, i)} ELSE {})
          = {table[j] : j \in (DOMAIN table) \cap {i + 1}}
  BY ONLY <1>1, i \in Int, TableReads
<1> QED BY ONLY <1>2 DEF Tensor, table

(* The index of a key's own name leads to a key of that name.                *)
LEMMA FoundKey ==
    ASSUME NEW k \in DOMAIN Header.keys, NEW found, found = FindKey(Header.keys[k].name)
    PROVE  /\ found \in Nat /\ found + 1 \in DOMAIN Header.keys
           /\ LibKey(found) = Header.keys[found + 1]
           /\ KeyAt(found) = Header.keys[k].name
<1> DEFINE name == Header.keys[k].name
           at == {i \in DOMAIN Header.keys : Header.keys[i].name = name}
<1>1. DOMAIN Header.keys \in SUBSET (Nat \ {0})
  <2>1. Header.keys \in Seq(ToSet(Header.keys))
    BY HeaderAssumption
  <2> QED BY <2>1
<1>2. k \in at /\ at \in SUBSET Nat /\ \A i \in at : i \in Nat \ {0}
  BY <1>1
<1>3. found = (CHOOSE i \in at : \A j \in at : i <= j) - 1
  <2>1. at # {}
    BY <1>2
  <2> QED BY ONLY <2>1, found = FindKey(Header.keys[k].name) DEF FindKey
<1> HIDE DEF at
<1>4. PICK i \in at : found = i - 1
  <2>1. \E i \in at : \A j \in at : i <= j
    BY <1>2, LeastNat
  <2> QED BY <1>3, <2>1
<1>5. i \in DOMAIN Header.keys /\ Header.keys[i].name = name
  BY <1>4 DEF at
<1>6. found \in Nat /\ found + 1 = i
  BY <1>2, <1>4
<1>7. LibKey(found) = Header.keys[i]
  BY ONLY <1>5, <1>6 DEF LibKey
<1> QED BY ONLY <1>5, <1>6, <1>7 DEF KeyAt

LEMMA ElementReads ==
    ASSUME NEW k \in DOMAIN Header.keys, NEW found, found = FindKey(Header.keys[k].name),
           NEW i \in Int
    PROVE  LET items == Header.keys[found + 1].items
           IN  ArrStr(found, i) = {items[j] : j \in (DOMAIN items) \cap {i + 1}}
<1> DEFINE table == Header.keys[found + 1].items
<1>1. found + 1 \in DOMAIN Header.keys /\ LibKey(found) = Header.keys[found + 1]
  BY ONLY k \in DOMAIN Header.keys, found = FindKey(Header.keys[k].name), FoundKey
<1>2. table \in Seq(ToSet(table)) /\ LibKey(found).items = table
  BY <1>1, HeaderAssumption
<1> HIDE DEF table
<1>3. (IF Within(i, Len(table)) THEN {LibAt(table, i)} ELSE {})
          = {table[j] : j \in (DOMAIN table) \cap {i + 1}}
  <2>1. table \in Seq(ToSet(table))
    BY <1>2
  <2> QED BY ONLY <2>1, i \in Int, TableReads
<1>4. ArrStr(found, i) = {table[j] : j \in (DOMAIN table) \cap {i + 1}}
  BY ONLY <1>2, <1>3 DEF ArrStr, ArrLen
<1> QED BY ONLY <1>4 DEF table

(* What a byte adds to the room taken is one, and two more if it gives up a    *)
(* byte, but for the character it leaves unfinished or completes.            *)
LEMMA EmittedType ==
    ASSUME NEW open \in BOOLEAN, NEW byte \in Byte
    PROVE  LET e == Emitted(open, byte)
           IN  /\ e.text \in Seq(Nat) /\ e.size \in Nat /\ e.bad \in Nat
               /\ e.size + (IF byte = Lead THEN 1 ELSE 0)
                     = (IF open THEN 1 ELSE 0) + 1 + 2 * e.bad
<1> DEFINE e == Emitted(open, byte)
           Right(x) == /\ x.text \in Seq(Nat) /\ x.size \in Nat /\ x.bad \in Nat
                       /\ x.size + (IF byte = Lead THEN 1 ELSE 0)
                             = (IF open THEN 1 ELSE 0) + 1 + 2 * x.bad
<1>1. /\ Letter # Lead /\ Letter # Continuation /\ Lead # Continuation
      /\ Letter \in Nat /\ Character \in Nat /\ Replacement \in Nat
  BY DEF Letter, Lead, Continuation, Character, Replacement
<1>2. /\ \A x \in Nat : <<x>> \in Seq(Nat)
      /\ \A x, y \in Nat : <<x, y>> \in Seq(Nat)
      /\ << >> \in Seq(Nat)
  OBVIOUS
<1>3. ASSUME byte = Letter /\ ~ open PROVE Right(e)
  <2>1. e = [text |-> <<Letter>>, size |-> 1, bad |-> 0]
    BY <1>1, <1>3 DEF Emitted
  <2>2. (IF byte = Lead THEN 1 ELSE 0) = 0 /\ (IF open THEN 1 ELSE 0) = 0
    BY <1>1, <1>3
  <2>3. <<Letter>> \in Seq(Nat)
    BY <1>1, <1>2
  <2>4. e.text = <<Letter>> /\ e.size = 1 /\ e.bad = 0
    BY ONLY <2>1
  <2> HIDE DEF e
  <2> QED BY ONLY <2>2, <2>3, <2>4
<1>4. ASSUME byte = Letter /\ open PROVE Right(e)
  <2>1. e = [text |-> <<Replacement, Letter>>, size |-> 4, bad |-> 1]
    BY <1>1, <1>4 DEF Emitted
  <2>2. (IF byte = Lead THEN 1 ELSE 0) = 0 /\ (IF open THEN 1 ELSE 0) = 1
    BY <1>1, <1>4
  <2>3. <<Replacement, Letter>> \in Seq(Nat)
    BY <1>1, <1>2
  <2>4. e.text = <<Replacement, Letter>> /\ e.size = 4 /\ e.bad = 1
    BY ONLY <2>1
  <2> HIDE DEF e
  <2> QED BY ONLY <2>2, <2>3, <2>4
<1>5. ASSUME byte = Lead /\ ~ open PROVE Right(e)
  <2>1. e = [text |-> << >>, size |-> 0, bad |-> 0]
    BY <1>1, <1>5 DEF Emitted
  <2>2. (IF byte = Lead THEN 1 ELSE 0) = 1 /\ (IF open THEN 1 ELSE 0) = 0
    BY <1>1, <1>5
  <2>3. << >> \in Seq(Nat)
    BY <1>1, <1>2
  <2>4. e.text = << >> /\ e.size = 0 /\ e.bad = 0
    BY ONLY <2>1
  <2> HIDE DEF e
  <2> QED BY ONLY <2>2, <2>3, <2>4
<1>6. ASSUME byte = Lead /\ open PROVE Right(e)
  <2>1. e = [text |-> <<Replacement>>, size |-> 3, bad |-> 1]
    BY <1>1, <1>6 DEF Emitted
  <2>2. (IF byte = Lead THEN 1 ELSE 0) = 1 /\ (IF open THEN 1 ELSE 0) = 1
    BY <1>1, <1>6
  <2>3. <<Replacement>> \in Seq(Nat)
    BY <1>1, <1>2
  <2>4. e.text = <<Replacement>> /\ e.size = 3 /\ e.bad = 1
    BY ONLY <2>1
  <2> HIDE DEF e
  <2> QED BY ONLY <2>2, <2>3, <2>4
<1>7. ASSUME byte = Continuation /\ open PROVE Right(e)
  <2>1. e = [text |-> <<Character>>, size |-> 2, bad |-> 0]
    BY <1>1, <1>7 DEF Emitted
  <2>2. (IF byte = Lead THEN 1 ELSE 0) = 0 /\ (IF open THEN 1 ELSE 0) = 1
    BY <1>1, <1>7
  <2>3. <<Character>> \in Seq(Nat)
    BY <1>1, <1>2
  <2>4. e.text = <<Character>> /\ e.size = 2 /\ e.bad = 0
    BY ONLY <2>1
  <2> HIDE DEF e
  <2> QED BY ONLY <2>2, <2>3, <2>4
<1>8. ASSUME byte = Continuation /\ ~ open PROVE Right(e)
  <2>1. e = [text |-> <<Replacement>>, size |-> 3, bad |-> 1]
    BY <1>1, <1>8 DEF Emitted
  <2>2. (IF byte = Lead THEN 1 ELSE 0) = 0 /\ (IF open THEN 1 ELSE 0) = 0
    BY <1>1, <1>8
  <2>3. <<Replacement>> \in Seq(Nat)
    BY <1>1, <1>2
  <2>4. e.text = <<Replacement>> /\ e.size = 3 /\ e.bad = 1
    BY ONLY <2>1
  <2> HIDE DEF e
  <2> QED BY ONLY <2>2, <2>3, <2>4
<1> HIDE DEF e
<1>9. Right(e)
  <2> HIDE DEF Right
  <2> QED BY <1>3, <1>4, <1>5, <1>6, <1>7, <1>8 DEF Byte
<1> QED BY <1>9 DEF e

LEMMA DecodeByteType ==
    ASSUME NEW d \in Decoder, NEW byte \in Byte
    PROVE  /\ DecodeByte(d, byte) \in Decoder
           /\ DecodeByte(d, byte).open = (byte = Lead)
           /\ DecodeByte(d, byte).bad = d.bad + Emitted(d.open, byte).bad
           /\ DecodeByte(d, byte).size = d.size + Emitted(d.open, byte).size
<1> DEFINE e == Emitted(d.open, byte)
<1>1. d.out \in Seq(Nat) /\ d.open \in BOOLEAN /\ d.size \in Nat /\ d.bad \in Nat
  BY DEF Decoder
<1>2. e.text \in Seq(Nat) /\ e.size \in Nat /\ e.bad \in Nat
  BY <1>1, EmittedType
<1>3. DecodeByte(d, byte) = [out |-> d.out \o e.text, open |-> byte = Lead,
                             size |-> d.size + e.size, bad |-> d.bad + e.bad]
  BY DEF DecodeByte
<1> HIDE DEF e
<1>4. d.out \o e.text \in Seq(Nat)
  BY <1>1, <1>2
<1>5. d.size + e.size \in Nat /\ d.bad + e.bad \in Nat /\ (byte = Lead) \in BOOLEAN
  BY <1>1, <1>2
<1>6. DecodeByte(d, byte) \in Decoder
  BY ONLY <1>3, <1>4, <1>5 DEF Decoder
<1> QED BY <1>3, <1>6 DEF e

(* Decoding, byte by byte.                                                   *)
LEMMA DecodeToStringDef ==
    ASSUME NEW d \in Decoder, NEW bytes \in Seq(Byte)
    PROVE  \E f \in [0 .. Len(bytes) -> Decoder] :
              /\ f[0] = d
              /\ \A k \in 1 .. Len(bytes) : f[k] = DecodeByte(f[k - 1], bytes[k])
              /\ DecodeToString(d, bytes) = f[Len(bytes)]
<1> DEFINE n == Len(bytes)  S == Decoder  base == d
           E(k, x) == DecodeByte(x, bytes[k])
           P(f) == f = [k \in 0 .. n |-> IF k = 0 THEN base ELSE E(k, f[k - 1])]
           step == [k \in 1 .. n |-> [x \in S |-> E(k, x)]]
           c == CHOOSE f : P(f)
<1>1. n \in Nat /\ base \in S /\ \A k \in 1 .. n, x \in S : E(k, x) \in S
  BY DecodeByteType
<1>2. DecodeToString(d, bytes) = c[n]
  BY DEF DecodeToString
<1> HIDE DEF n, S, base, E
<1>3. P(c)
  <2>1. step \in [1 .. n -> [S -> S]]
    BY <1>1
  <2>2. PICK f \in [0 .. n -> S] :
           f[0] = base /\ \A k \in 1 .. n : f[k] = step[k][f[k - 1]]
    <3> HIDE DEF step
    <3>1. Definable(n, S, base, step)
      BY <1>1, <2>1, RecursiveFcn
    <3> QED BY <3>1 DEF Definable
  <2>3. \A k \in 1 .. n : k - 1 \in 0 .. n /\ f[k - 1] \in S
    BY <1>1
  <2>4. \A k \in 1 .. n : f[k] = E(k, f[k - 1])
    BY <2>2, <2>3
  <2>5. \A k \in 0 .. n : f[k] = IF k = 0 THEN base ELSE E(k, f[k - 1])
    BY <1>1, <2>2, <2>4
  <2>6. P(f)
    BY <2>5
  <2> HIDE DEF P
  <2> QED BY <2>6
<1> HIDE DEF c
<1>4. c[0] = base /\ \A k \in 1 .. n : c[k] = E(k, c[k - 1])
  BY <1>1, <1>3
<1>5. c \in [0 .. n -> S]
  <2>1. c = [k \in 0 .. n |-> c[k]] /\ c[0] \in S
    BY <1>1, <1>3, <1>4
  <2>2. \A k \in 1 .. n : c[k - 1] \in S => c[k] \in S
    BY <1>1, <1>4
  <2> QED BY ONLY <1>1, <2>1, <2>2, TypedFcn
<1> QED BY <1>2, <1>4, <1>5 DEF n, S, base, E

LEMMA DecodeToStringType ==
    ASSUME NEW d \in Decoder, NEW bytes \in Seq(Byte)
    PROVE  DecodeToString(d, bytes) \in Decoder
<1>1. PICK f \in [0 .. Len(bytes) -> Decoder] : DecodeToString(d, bytes) = f[Len(bytes)]
  BY DecodeToStringDef
<1> QED BY <1>1

LEMMA DecodeToStringAppend ==
    ASSUME NEW d \in Decoder, NEW bytes \in Seq(Byte), NEW byte \in Byte
    PROVE  DecodeToString(d, Append(bytes, byte)) = DecodeByte(DecodeToString(d, bytes), byte)
<1> DEFINE n == Len(bytes)  more == Append(bytes, byte)
<1>1. /\ more \in Seq(Byte) /\ n \in Nat /\ Len(more) = n + 1
      /\ \A k \in 1 .. n : more[k] = bytes[k]
      /\ more[n + 1] = byte
  BY SeqAppend
<1> HIDE DEF more
<1>3. PICK f \in [0 .. n -> Decoder] :
              /\ f[0] = d
              /\ \A k \in 1 .. n : f[k] = DecodeByte(f[k - 1], bytes[k])
              /\ DecodeToString(d, bytes) = f[n]
  BY DecodeToStringDef
<1>4. PICK g \in [0 .. Len(more) -> Decoder] :
              /\ g[0] = d
              /\ \A k \in 1 .. Len(more) : g[k] = DecodeByte(g[k - 1], more[k])
              /\ DecodeToString(d, more) = g[Len(more)]
  BY <1>1, DecodeToStringDef
<1> HIDE DEF n
<1>5. \A k \in 0 .. n : f[k] = g[k]
  <2>1. ASSUME NEW k \in 1 .. n, f[k - 1] = g[k - 1] PROVE f[k] = g[k]
    <3>1. k \in 1 .. n + 1
      BY <1>1
    <3> QED BY ONLY <1>1, <1>3, <1>4, <2>1, <3>1, k \in 1 .. n
  <2>2. f[0] = g[0]
    BY <1>3, <1>4
  <2>3. InStep(n, f, g)
    BY <2>1, <2>2 DEF InStep
  <2>4. Alike(n, f, g)
    BY ONLY <1>1, <2>3, SameRun
  <2> QED BY <2>4 DEF Alike
<1>6. f[n] = g[n] /\ n + 1 \in 1 .. n + 1 /\ (n + 1) - 1 = n
  BY <1>1, <1>5
<1>7. g[n + 1] = DecodeByte(g[n], byte)
  BY <1>1, <1>4, <1>6
<1> QED BY <1>3, <1>4, <1>6, <1>7 DEF more, n

LEMMA DecodeNothing ==
    ASSUME NEW d \in Decoder
    PROVE  DecodeToString(d, <<>>) = d
<1>1. <<>> \in Seq(Byte) /\ Len(<<>>) = 0
  OBVIOUS
<1>2. PICK f \in [0 .. Len(<<>>) -> Decoder] :
         f[0] = d /\ DecodeToString(d, <<>>) = f[Len(<<>>)]
  BY <1>1, DecodeToStringDef
<1> QED BY <1>1, <1>2

(* Bytes decoded in two pieces decode to what they do in one: the decoder     *)
(* carries the character that the first piece leaves unfinished.              *)
LEMMA DecodeToStringConcat ==
    ASSUME NEW d \in Decoder, NEW a \in Seq(Byte)
    PROVE  \A b \in Seq(Byte) : DecodeToString(d, a \o b) = DecodeToString(DecodeToString(d, a), b)
<1> DEFINE X == {b \in Seq(Byte) : DecodeToString(d, a \o b) = DecodeToString(DecodeToString(d, a), b)}
<1>0. DecodeToString(d, a) \in Decoder
  BY DecodeToStringType
<1>1. <<>> \in X
  <2>1. a \o <<>> = a /\ <<>> \in Seq(Byte)
    OBVIOUS
  <2>2. DecodeToString(DecodeToString(d, a), <<>>) = DecodeToString(d, a)
    BY <1>0, DecodeNothing
  <2> QED BY <2>1, <2>2
<1>2. ASSUME NEW b \in Seq(Byte), NEW e \in Byte, b \in X PROVE Append(b, e) \in X
  <2>1. Append(b, e) \in Seq(Byte) /\ a \o b \in Seq(Byte)
        /\ a \o Append(b, e) = Append(a \o b, e)
    BY AppendConcat
  <2>2. DecodeToString(d, a \o b) = DecodeToString(DecodeToString(d, a), b)
    BY <1>2
  <2>3. DecodeToString(d, Append(a \o b, e)) = DecodeByte(DecodeToString(d, a \o b), e)
    BY ONLY <2>1, d \in Decoder, e \in Byte, DecodeToStringAppend
  <2>4. DecodeToString(DecodeToString(d, a), Append(b, e)) = DecodeByte(DecodeToString(DecodeToString(d, a), b), e)
    BY ONLY <1>0, b \in Seq(Byte), e \in Byte, DecodeToStringAppend
  <2> QED BY <2>1, <2>2, <2>3, <2>4
<1>3. \A b \in Seq(Byte) : b \in X
  <2> HIDE DEF X
  <2>1. \A b \in Seq(Byte), e \in Byte : b \in X => Append(b, e) \in X
    BY <1>2
  <2> QED BY ONLY <1>1, <2>1, AppendInduction
<1> QED BY <1>3

(* The sums of the two lemmas below, on plain numbers.                         *)
LEMMA BalanceStep ==
    ASSUME NEW xs \in Nat, NEW xo \in Nat, NEW xb \in Nat, NEW ds \in Nat, NEW dOpen \in Nat,
           NEW db \in Nat, NEW n \in Nat, NEW s \in Nat, NEW b \in Nat, NEW yo \in Nat,
           xs + xo + 2 * db = ds + dOpen + n + 2 * xb,
           s + yo = xo + 1 + 2 * b
    PROVE  (xs + s) + yo + 2 * db = ds + dOpen + (n + 1) + 2 * (xb + b)
OBVIOUS

LEMMA BalanceFits ==
    ASSUME NEW ys \in Nat, NEW yo \in Nat, NEW db \in Nat, NEW ds \in Nat, NEW dOpen \in Nat,
           NEW n \in Nat, NEW zb \in Nat, NEW room \in Nat, dOpen <= 1, 2 * zb < room,
           ys + yo + 2 * db = ds + dOpen + n + 2 * (db + zb)
    PROVE  ys - ds <= n + room
OBVIOUS

(* How much room the text of some bytes takes in all.                       *)
LEMMA RoomTaken ==
    ASSUME NEW d \in Decoder
    PROVE  \A b \in Seq(Byte) :
              LET x == DecodeToString(d, b)
              IN  x.size + Open(x) + 2 * d.bad = d.size + Open(d) + Len(b) + 2 * x.bad
<1> DEFINE Balanced(x, n) == x.size + Open(x) + 2 * d.bad = d.size + Open(d) + n + 2 * x.bad
           X == {b \in Seq(Byte) : Balanced(DecodeToString(d, b), Len(b))}
<1>0. d.size \in Nat /\ d.bad \in Nat /\ Open(d) \in Nat
  BY DEF Decoder, Open
<1>1. <<>> \in X
  <2>1. DecodeToString(d, <<>>) = d /\ Len(<<>>) = 0 /\ <<>> \in Seq(Byte)
    BY DecodeNothing
  <2>2. Balanced(d, 0)
    BY <1>0
  <2> HIDE DEF Balanced
  <2> QED BY <2>1, <2>2
<1>2. ASSUME NEW b \in Seq(Byte), NEW e \in Byte, b \in X PROVE Append(b, e) \in X
  <2> DEFINE x == DecodeToString(d, b)  y == DecodeByte(x, e)
  <2>1. x \in Decoder
    BY DecodeToStringType
  <2>2. Balanced(x, Len(b))
    BY <1>2
  <2>3. DecodeToString(d, Append(b, e)) = y
    BY DecodeToStringAppend
  <2>4. Append(b, e) \in Seq(Byte) /\ Len(Append(b, e)) = Len(b) + 1 /\ Len(b) \in Nat
    OBVIOUS
  <2> HIDE DEF x
  <2> DEFINE added == Emitted(x.open, e)
  <2>5. /\ x.size \in Nat /\ x.bad \in Nat /\ x.open \in BOOLEAN
    BY <2>1 DEF Decoder
  <2>6. /\ added.size \in Nat /\ added.bad \in Nat
        /\ added.size + (IF e = Lead THEN 1 ELSE 0)
              = (IF x.open THEN 1 ELSE 0) + 1 + 2 * added.bad
    BY <2>5, EmittedType
  <2>7. y.size = x.size + added.size /\ y.bad = x.bad + added.bad /\ y.open = (e = Lead)
    BY <2>1, DecodeByteType
  <2> HIDE DEF added, y
  <2>8. /\ Open(y) = IF e = Lead THEN 1 ELSE 0
        /\ Open(x) = IF x.open THEN 1 ELSE 0
    BY <2>7 DEF Open
  <2>9. Open(x) \in Nat /\ Open(y) \in Nat /\ added.size + Open(y) = Open(x) + 1 + 2 * added.bad
    BY <2>6, <2>8
  <2>10. Balanced(y, Len(b) + 1)
    <3>1. /\ x.size + Open(x) + 2 * d.bad = d.size + Open(d) + Len(b) + 2 * x.bad
          /\ y.size = x.size + added.size /\ y.bad = x.bad + added.bad
          /\ added.size + Open(y) = Open(x) + 1 + 2 * added.bad
      BY <2>2, <2>7, <2>9
    <3>2. /\ x.size \in Nat /\ x.bad \in Nat /\ added.size \in Nat /\ added.bad \in Nat
          /\ Open(x) \in Nat /\ Open(y) \in Nat /\ Len(b) \in Nat
      BY <2>4, <2>5, <2>6, <2>9
    <3>3. y.size + Open(y) + 2 * d.bad = d.size + Open(d) + (Len(b) + 1) + 2 * y.bad
      <4> DEFINE xs == x.size  xo == Open(x)  xb == x.bad  ds == d.size  dOpen == Open(d)
                 db == d.bad  n == Len(b)  s == added.size  a == added.bad  yo == Open(y)
      <4>1. /\ xs \in Nat /\ xo \in Nat /\ xb \in Nat /\ ds \in Nat /\ dOpen \in Nat
            /\ db \in Nat /\ n \in Nat /\ s \in Nat /\ a \in Nat /\ yo \in Nat
        BY <1>0, <3>2
      <4>2. xs + xo + 2 * db = ds + dOpen + n + 2 * xb /\ s + yo = xo + 1 + 2 * a
        BY <3>1
      <4>3. y.size = xs + s /\ y.bad = xb + a
        BY <3>1
      <4> HIDE DEF xs, xo, xb, ds, dOpen, db, n, s, a, yo
      <4>4. (xs + s) + yo + 2 * db = ds + dOpen + (n + 1) + 2 * (xb + a)
        BY ONLY <4>1, <4>2, BalanceStep
      <4> QED BY ONLY <4>3, <4>4 DEF ds, dOpen, db, n, yo
    <3> QED BY <3>3
  <2> HIDE DEF Balanced
  <2> QED BY <2>3, <2>4, <2>10
<1>3. \A b \in Seq(Byte) : b \in X
  <2> HIDE DEF X
  <2>1. \A b \in Seq(Byte), e \in Byte : b \in X => Append(b, e) \in X
    BY <1>2
  <2> QED BY ONLY <1>1, <2>1, AppendInduction
<1> QED BY <1>3

LEMMA FreshType == ASSUME NEW open \in BOOLEAN PROVE Fresh(open) \in Decoder
<1>1. Fresh(open) = [out |-> << >>, open |-> open, size |-> 0, bad |-> 0]
  BY DEF Fresh
<1>2. << >> \in Seq(Nat)
  OBVIOUS
<1> QED BY <1>1, <1>2 DEF Decoder

(* The bytes given up depend on the decoder by the unfinished character only. *)
LEMMA GivenUp ==
    ASSUME NEW d \in Decoder
    PROVE  \A b \in Seq(Byte) :
              LET x == DecodeToString(d, b)  y == DecodeToString(Fresh(d.open), b)
              IN  x.open = y.open /\ x.bad = d.bad + y.bad
<1> DEFINE f == Fresh(d.open)
           Same(x, y) == x.open = y.open /\ x.bad = d.bad + y.bad
           X == {b \in Seq(Byte) : Same(DecodeToString(d, b), DecodeToString(f, b))}
<1>0. d.bad \in Nat /\ d.open \in BOOLEAN /\ f \in Decoder /\ f.open = d.open /\ f.bad = 0
  <2>1. d.bad \in Nat /\ d.open \in BOOLEAN
    BY DEF Decoder
  <2>2. f \in Decoder
    BY <2>1, FreshType
  <2>3. f.open = d.open /\ f.bad = 0
    BY DEF Fresh
  <2> QED BY <2>1, <2>2, <2>3
<1> HIDE DEF f
<1>1. <<>> \in X
  <2>1. DecodeToString(d, <<>>) = d /\ DecodeToString(f, <<>>) = f /\ <<>> \in Seq(Byte)
    BY <1>0, DecodeNothing
  <2>2. Same(d, f)
    BY <1>0
  <2> HIDE DEF Same
  <2> QED BY <2>1, <2>2
<1>2. ASSUME NEW b \in Seq(Byte), NEW e \in Byte, b \in X PROVE Append(b, e) \in X
  <2> DEFINE x == DecodeToString(d, b)  y == DecodeToString(f, b)
  <2>1. x \in Decoder /\ y \in Decoder
    BY <1>0, DecodeToStringType
  <2>2. Same(x, y)
    BY <1>2
  <2>3. /\ DecodeToString(d, Append(b, e)) = DecodeByte(x, e)
        /\ DecodeToString(f, Append(b, e)) = DecodeByte(y, e)
    BY <1>0, DecodeToStringAppend
  <2> HIDE DEF x, y
  <2>4. x.bad \in Nat /\ y.bad \in Nat /\ x.open \in BOOLEAN
    BY <2>1 DEF Decoder
  <2>5. Emitted(x.open, e).bad \in Nat
    BY <2>4, EmittedType
  <2>6. /\ DecodeByte(x, e).open = (e = Lead) /\ DecodeByte(y, e).open = (e = Lead)
        /\ DecodeByte(x, e).bad = x.bad + Emitted(x.open, e).bad
        /\ DecodeByte(y, e).bad = y.bad + Emitted(y.open, e).bad
    BY <2>1, DecodeByteType
  <2>7. x.open = y.open /\ x.bad = d.bad + y.bad
    BY <2>2
  <2>8. Emitted(x.open, e).bad = Emitted(y.open, e).bad
    BY <2>7
  <2> DEFINE n == Emitted(y.open, e).bad
  <2>9. n \in Nat /\ DecodeByte(x, e).bad = x.bad + n /\ DecodeByte(y, e).bad = y.bad + n
    BY <2>5, <2>6, <2>8
  <2> HIDE DEF n
  <2>10. DecodeByte(x, e).bad = d.bad + DecodeByte(y, e).bad
    BY <1>0, <2>4, <2>7, <2>9
  <2>11. Same(DecodeByte(x, e), DecodeByte(y, e))
    BY <2>6, <2>10
  <2> HIDE DEF Same
  <2>12. Append(b, e) \in Seq(Byte)
    OBVIOUS
  <2> QED BY <2>3, <2>11, <2>12
<1>3. \A b \in Seq(Byte) : b \in X
  <2> HIDE DEF X
  <2>1. \A b \in Seq(Byte), e \in Byte : b \in X => Append(b, e) \in X
    BY <1>2
  <2> QED BY ONLY <1>1, <2>1, AppendInduction
<1> QED BY <1>3 DEF f

(* The greatest of a set that has one.                                       *)
LEMMA MaxIs ==
    ASSUME NEW S, NEW m \in S, m \in Nat, \A k \in S : k \in Nat /\ k <= m
    PROVE  Max(S) = m
<1>1. m \in S /\ \A k \in S : m >= k
  OBVIOUS
<1>2. Max(S) \in S /\ \A k \in S : Max(S) >= k
  BY <1>1 DEF Max
<1>3. Max(S) \in Nat /\ Max(S) >= m /\ m >= Max(S)
  BY <1>1, <1>2
<1> QED BY <1>3

(* Text that has the room for it is decoded whole; what has not is cut.       *)
LEMMA DecodeIntoReads ==
    ASSUME NEW d \in Decoder, NEW bytes \in Seq(Byte), NEW capacity \in Nat
    PROVE  /\ DecodeInto(d, bytes, capacity) \in Decoder
           /\ DecodeToString(d, bytes).size - d.size <= capacity
                => DecodeInto(d, bytes, capacity) = DecodeToString(d, bytes)
<1> DEFINE n == Len(bytes)
           After(k) == DecodeToString(d, SubSeq(bytes, 1, k))
           fits == {k \in 0 .. n : After(k).size - d.size <= capacity}
<1>1. n \in Nat /\ \A k \in 0 .. n : SubSeq(bytes, 1, k) \in Seq(Byte)
  OBVIOUS
<1>2. \A k \in 0 .. n : After(k) \in Decoder
  BY <1>1, DecodeToStringType
<1>3. DecodeInto(d, bytes, capacity) = After(Max(fits))
  BY DEF DecodeInto
<1>4. 0 \in fits
  <2>1. SubSeq(bytes, 1, 0) = <<>>
    OBVIOUS
  <2>2. After(0) = d
    BY <2>1, DecodeNothing
  <2>3. d.size \in Nat
    BY DEF Decoder
  <2> HIDE DEF After
  <2> QED BY <1>1, <2>2, <2>3
<1>5. SubSeq(bytes, 1, n) = bytes
  OBVIOUS
<1>6. fits \subseteq 0 .. n
  OBVIOUS
<1> HIDE DEF After
<1>7. Max(fits) \in 0 .. n
  <2>1. \E m \in fits : \A k \in fits : k <= m
    <3>1. fits \in SUBSET (0 .. n)
      BY <1>6
    <3> HIDE DEF fits, n
    <3> DEFINE low == {i \in Nat : n - i \in fits}
    <3>2. \A k \in fits : k \in 0 .. n /\ n - k \in low
      BY <1>1, <3>1
    <3>3. low # {} /\ low \in SUBSET Nat
      BY <1>4, <3>2
    <3> HIDE DEF low
    <3>4. PICK i \in low : \A j \in low : i <= j
      BY <3>3, LeastNat
    <3>5. i \in Nat /\ n - i \in fits
      BY <3>4 DEF low
    <3>6. \A k \in fits : k <= n - i
      BY <1>1, <3>2, <3>4, <3>5
    <3> QED BY <3>5, <3>6
  <2>2. PICK m \in fits : \A k \in fits : k <= m
    BY <2>1
  <2>3. m \in Nat /\ \A k \in fits : k \in Nat /\ k <= m
    BY <1>1, <1>6, <2>2
  <2> HIDE DEF fits
  <2>4. Max(fits) = m
    BY ONLY <2>3, m \in fits, MaxIs
  <2> QED BY <1>6, <2>4
<1>8. ASSUME DecodeToString(d, bytes).size - d.size <= capacity
      PROVE  After(Max(fits)) = DecodeToString(d, bytes)
  <2>1. After(n) = DecodeToString(d, bytes)
    BY <1>5 DEF After
  <2>2. n \in fits
    BY <1>1, <1>8, <2>1
  <2>3. \A k \in fits : k \in Nat /\ k <= n
    BY <1>1, <1>6
  <2> HIDE DEF fits, n
  <2>4. Max(fits) = n
    BY ONLY <1>1, <2>2, <2>3, MaxIs
  <2> QED BY <2>1, <2>4
<1> QED BY <1>2, <1>3, <1>7, <1>8

LEMMA PieceTyped ==
    ASSUME NEW t \in Int, Known(t)
    PROVE  Vocab[t + 1] \in Seq(Byte)
<1>1. Vocab \in Seq(Seq(Byte))
  BY VocabAssumption DEF Byte
<1>2. t + 1 \in 1 .. Len(Vocab)
  BY <1>1 DEF Known
<1> QED BY <1>1, <1>2, ElementTyped

LEMMA NewDecoderType == NewDecoder \in Decoder
BY FreshType DEF NewDecoder

(* A known token's piece is decoded, whole if it gives up few bytes.          *)
LEMMA TokenToPieceReads ==
    ASSUME NEW d \in Decoder, NEW t \in Int
    PROVE  /\ ~ Known(t) => TokenToPiece(d, t) = {}
           /\ Known(t) => \E x \in Decoder :
                 /\ TokenToPiece(d, t) = {x}
                 /\ FewReplaced(t) => x = DecodeToString(d, Vocab[t + 1])
<1>1. Piece(t, Guess) = (IF Known(t) THEN {Vocab[t + 1]} ELSE {})
  BY SizesAssumption, PieceReads
<1>2. ASSUME Known(t)
      PROVE  \E x \in Decoder : /\ TokenToPiece(d, t) = {x}
                                /\ FewReplaced(t) => x = DecodeToString(d, Vocab[t + 1])
  <2> DEFINE b == Vocab[t + 1]  x == DecodeInto(d, b, Len(b) + Room)
             y == DecodeToString(d, b)  z == DecodeToString(Fresh(d.open), b)
  <2>1. b \in Seq(Byte) /\ Len(b) \in Nat /\ Len(b) + Room \in Nat /\ Room \in Nat
    BY <1>2, PieceTyped, SizesAssumption
  <2>2. Piece(t, Guess) = {b}
    BY ONLY <1>1, <1>2
  <2>3. TokenToPiece(d, t) = {x}
    BY ONLY <2>2 DEF TokenToPiece
  <2>4. x \in Decoder /\ (y.size - d.size <= Len(b) + Room => x = y)
    BY <2>1, DecodeIntoReads
  <2>5. ASSUME FewReplaced(t) PROVE y.size - d.size <= Len(b) + Room
    <3>1. y \in Decoder /\ d.open \in BOOLEAN
      BY <2>1, DecodeToStringType DEF Decoder
    <3>2. 2 * z.bad < Room
      BY <2>5, <3>1 DEF FewReplaced
    <3>3. y.bad = d.bad + z.bad
      BY <2>1, GivenUp
    <3>4. y.size + Open(y) + 2 * d.bad = d.size + Open(d) + Len(b) + 2 * y.bad
      BY <2>1, RoomTaken
    <3>5. z \in Decoder
      BY <2>1, <3>1, FreshType, DecodeToStringType
    <3> HIDE DEF y, z, b
    <3>6. /\ y.size \in Nat /\ y.bad \in Nat /\ d.size \in Nat /\ d.bad \in Nat
          /\ Open(y) \in Nat /\ Open(d) \in Nat /\ Open(d) <= 1 /\ z.bad \in Nat
      BY <3>1, <3>5 DEF Decoder, Open
    <3>7. Len(b) \in Nat /\ Room \in Nat
      BY <2>1
    <3>8. y.size + Open(y) + 2 * d.bad = d.size + Open(d) + Len(b) + 2 * (d.bad + z.bad)
      BY ONLY <3>3, <3>4
    <3> QED BY ONLY <3>2, <3>6, <3>7, <3>8, BalanceFits
  <2> HIDE DEF x
  <2> QED BY <2>3, <2>4, <2>5
<1>3. ASSUME ~ Known(t) PROVE TokenToPiece(d, t) = {}
  <2>1. Piece(t, Guess) = {}
    BY ONLY <1>1, <1>3
  <2> QED BY ONLY <2>1 DEF TokenToPiece
<1> QED BY <1>2, <1>3

(* The bytes of known tokens, and what is decoded of any, token by token.     *)
LEMMA BytesOfDef ==
    ASSUME NEW tokens \in Seq(Int), \A i \in 1 .. Len(tokens) : Known(tokens[i])
    PROVE  \E f \in [0 .. Len(tokens) -> Seq(Byte)] :
              /\ f[0] = <<>>
              /\ \A k \in 1 .. Len(tokens) : f[k] = f[k - 1] \o Vocab[tokens[k] + 1]
              /\ BytesOf(tokens) = f[Len(tokens)]
<1> DEFINE n == Len(tokens)  S == Seq(Byte)  base == <<>>
           E(k, x) == x \o Vocab[tokens[k] + 1]
           P(f) == f = [k \in 0 .. n |-> IF k = 0 THEN base ELSE E(k, f[k - 1])]
           step == [k \in 1 .. n |-> [x \in S |-> E(k, x)]]
           c == CHOOSE f : P(f)
<1>1. n \in Nat /\ base \in S /\ \A k \in 1 .. n, x \in S : E(k, x) \in S
  <2>1. \A k \in 1 .. n : Vocab[tokens[k] + 1] \in Seq(Byte)
    BY ElementTyped, PieceTyped
  <2>2. \A x, y \in Seq(Byte) : x \o y \in Seq(Byte)
    OBVIOUS
  <2>3. n \in Nat /\ base \in S
    OBVIOUS
  <2> QED BY <2>1, <2>2, <2>3
<1>2. BytesOf(tokens) = c[n]
  BY DEF BytesOf
<1> HIDE DEF n, S, base, E
<1>3. P(c)
  <2>1. step \in [1 .. n -> [S -> S]]
    BY <1>1
  <2>2. PICK f \in [0 .. n -> S] :
           f[0] = base /\ \A k \in 1 .. n : f[k] = step[k][f[k - 1]]
    <3> HIDE DEF step
    <3>1. Definable(n, S, base, step)
      BY <1>1, <2>1, RecursiveFcn
    <3> QED BY <3>1 DEF Definable
  <2>3. \A k \in 1 .. n : k - 1 \in 0 .. n /\ f[k - 1] \in S
    BY <1>1
  <2>4. \A k \in 1 .. n : f[k] = E(k, f[k - 1])
    BY <2>2, <2>3
  <2>5. \A k \in 0 .. n : f[k] = IF k = 0 THEN base ELSE E(k, f[k - 1])
    BY <1>1, <2>2, <2>4
  <2>6. P(f)
    BY <2>5
  <2> HIDE DEF P
  <2> QED BY <2>6
<1> HIDE DEF c
<1>4. c[0] = base /\ \A k \in 1 .. n : c[k] = E(k, c[k - 1])
  BY <1>1, <1>3
<1>5. c \in [0 .. n -> S]
  <2>1. c = [k \in 0 .. n |-> c[k]] /\ c[0] \in S
    BY <1>1, <1>3, <1>4
  <2>2. \A k \in 1 .. n : c[k - 1] \in S => c[k] \in S
    BY <1>1, <1>4
  <2> QED BY ONLY <1>1, <2>1, <2>2, TypedFcn
<1> QED BY <1>2, <1>4, <1>5 DEF n, S, base, E

LEMMA DetokenizeDef ==
    ASSUME NEW tokens \in Seq(Int)
    PROVE  \E f \in [0 .. Len(tokens) -> SUBSET Decoder] :
              /\ f[0] = {NewDecoder}
              /\ \A k \in 1 .. Len(tokens) :
                    f[k] = UNION {TokenToPiece(d, tokens[k]) : d \in f[k - 1]}
              /\ Detokenize(tokens) = {d.out : d \in f[Len(tokens)]}
<1> DEFINE n == Len(tokens)  S == SUBSET Decoder  base == {NewDecoder}
           E(k, x) == UNION {TokenToPiece(d, tokens[k]) : d \in x}
           P(f) == f = [k \in 0 .. n |-> IF k = 0 THEN base ELSE E(k, f[k - 1])]
           step == [k \in 1 .. n |-> [x \in S |-> E(k, x)]]
           c == CHOOSE f : P(f)
<1>1. n \in Nat /\ base \in S /\ \A k \in 1 .. n, x \in S : E(k, x) \in S
  <2>1. \A k \in 1 .. n : tokens[k] \in Int
    BY ElementTyped
  <2>2. \A k \in 1 .. n, d \in Decoder : TokenToPiece(d, tokens[k]) \in SUBSET Decoder
    BY <2>1, TokenToPieceReads
  <2>3. n \in Nat /\ base \in S
    BY NewDecoderType
  <2>4. \A k \in 1 .. n, x \in S : E(k, x) \in S
    BY <2>2
  <2> QED BY <2>3, <2>4
<1>2. Detokenize(tokens) = {d.out : d \in c[n]}
  BY DEF Detokenize
<1> HIDE DEF n, S, base, E
<1>3. P(c)
  <2>1. step \in [1 .. n -> [S -> S]]
    BY <1>1
  <2>2. PICK f \in [0 .. n -> S] :
           f[0] = base /\ \A k \in 1 .. n : f[k] = step[k][f[k - 1]]
    <3> HIDE DEF step
    <3>1. Definable(n, S, base, step)
      BY <1>1, <2>1, RecursiveFcn
    <3> QED BY <3>1 DEF Definable
  <2>3. \A k \in 1 .. n : k - 1 \in 0 .. n /\ f[k - 1] \in S
    BY <1>1
  <2>4. \A k \in 1 .. n : f[k] = E(k, f[k - 1])
    BY <2>2, <2>3
  <2>5. \A k \in 0 .. n : f[k] = IF k = 0 THEN base ELSE E(k, f[k - 1])
    BY <1>1, <2>2, <2>4
  <2>6. P(f)
    BY <2>5
  <2> HIDE DEF P
  <2> QED BY <2>6
<1> HIDE DEF c
<1>4. c[0] = base /\ \A k \in 1 .. n : c[k] = E(k, c[k - 1])
  BY <1>1, <1>3
<1>5. c \in [0 .. n -> S]
  <2>1. c = [k \in 0 .. n |-> c[k]] /\ c[0] \in S
    BY <1>1, <1>3, <1>4
  <2>2. \A k \in 1 .. n : c[k - 1] \in S => c[k] \in S
    BY <1>1, <1>4
  <2> QED BY ONLY <1>1, <2>1, <2>2, TypedFcn
<1> QED BY <1>2, <1>4, <1>5 DEF n, S, base, E

(* Detokenizing decodes the bytes of the whole text, however its characters    *)
(* are split over the tokens, unless a piece gives up too many bytes; and     *)
(* fails on an unknown token only.                                           *)
LEMMA DetokenizeReads ==
    ASSUME NEW tokens \in Seq(Int)
    PROVE  LET known == \A i \in DOMAIN tokens : Known(tokens[i])
           IN  /\ Detokenize(tokens) = {} <=> ~ known
               /\ known /\ (\A i \in DOMAIN tokens : FewReplaced(tokens[i])) =>
                     Detokenize(tokens) = {DecodeToString(NewDecoder, BytesOf(tokens)).out}
<1> DEFINE n == Len(tokens)
<1>1. n \in Nat /\ DOMAIN tokens = 1 .. n /\ \A k \in 1 .. n : tokens[k] \in Int
  BY ElementTyped
<1>2. PICK f \in [0 .. n -> SUBSET Decoder] :
              /\ f[0] = {NewDecoder}
              /\ \A k \in 1 .. n : f[k] = UNION {TokenToPiece(d, tokens[k]) : d \in f[k - 1]}
              /\ Detokenize(tokens) = {d.out : d \in f[n]}
  BY DetokenizeDef
<1>3. ASSUME \A i \in 1 .. n : Known(tokens[i]), \A i \in 1 .. n : FewReplaced(tokens[i])
      PROVE  Detokenize(tokens) = {DecodeToString(NewDecoder, BytesOf(tokens)).out}
  <2>1. PICK b \in [0 .. n -> Seq(Byte)] :
              /\ b[0] = <<>>
              /\ \A k \in 1 .. n : b[k] = b[k - 1] \o Vocab[tokens[k] + 1]
              /\ BytesOf(tokens) = b[n]
    BY <1>3, BytesOfDef
  <2> DEFINE good == {k \in 0 .. n : f[k] = {DecodeToString(NewDecoder, b[k])}}
  <2>2. 0 \in good
    BY <1>1, <1>2, <2>1, NewDecoderType, DecodeNothing
  <2>3. ASSUME NEW k \in 0 .. n - 1, k \in good PROVE k + 1 \in good
    <3> DEFINE d == DecodeToString(NewDecoder, b[k])  t == tokens[k + 1]
    <3>1. k + 1 \in 1 .. n /\ (k + 1) - 1 = k /\ k \in 0 .. n
      BY <1>1
    <3>2. t \in Int /\ Known(t) /\ FewReplaced(t)
      BY <1>1, <1>3, <3>1
    <3>3. b[k] \in Seq(Byte) /\ Vocab[t + 1] \in Seq(Byte)
      BY <2>1, <3>1, <3>2, PieceTyped
    <3>4. DecodeToString(NewDecoder, b[k] \o Vocab[t + 1]) = DecodeToString(d, Vocab[t + 1])
      BY ONLY <3>3, NewDecoderType, DecodeToStringConcat
    <3>5. b[k + 1] = b[k] \o Vocab[t + 1]
      BY <2>1, <3>1
    <3>6. f[k] = {d}
      BY <2>3
    <3>7. f[k + 1] = UNION {TokenToPiece(x, t) : x \in f[k]}
      BY <1>2, <3>1
    <3>11. d \in Decoder
      BY <3>3, NewDecoderType, DecodeToStringType
    <3> HIDE DEF d, t
    <3>8. TokenToPiece(d, t) = {DecodeToString(d, Vocab[t + 1])}
      BY ONLY <3>2, <3>11, TokenToPieceReads
    <3>9. f[k + 1] = {DecodeToString(d, Vocab[t + 1])}
      BY ONLY <3>6, <3>7, <3>8
    <3>10. f[k + 1] = {DecodeToString(NewDecoder, b[k + 1])}
      BY ONLY <3>4, <3>5, <3>9
    <3> QED BY <3>1, <3>10
  <2>4. \A k \in 0 .. n : k \in good
    <3> HIDE DEF good, n
    <3>1. \A k \in 0 .. n - 1 : k \in good => k + 1 \in good
      BY <2>3
    <3> QED BY ONLY <1>1, <2>2, <3>1, UpTo
  <2>5. f[n] = {DecodeToString(NewDecoder, BytesOf(tokens))}
    BY <1>1, <2>1, <2>4
  <2>6. Detokenize(tokens) = {DecodeToString(NewDecoder, BytesOf(tokens)).out}
    BY ONLY <1>2, <2>5
  <2> QED BY ONLY <2>6
<1>4. ASSUME ~ \A i \in 1 .. n : Known(tokens[i]) PROVE Detokenize(tokens) = {}
  <2>1. PICK i \in 1 .. n : ~ Known(tokens[i])
    BY <1>4
  <2> DEFINE failed == {k \in 0 .. n : k >= i => f[k] = {}}
  <2>2. 0 \in failed
    BY <1>1
  <2>3. ASSUME NEW k \in 0 .. n - 1, k \in failed PROVE k + 1 \in failed
    <3>1. k + 1 \in 1 .. n /\ (k + 1) - 1 = k /\ k \in Int /\ i \in Int
      BY <1>1
    <3>2. f[k + 1] = UNION {TokenToPiece(d, tokens[k + 1]) : d \in f[k]}
      BY <1>2, <3>1
    <3>3. CASE k + 1 = i
      <4>1. \A d \in Decoder : TokenToPiece(d, tokens[k + 1]) = {}
        BY <1>1, <2>1, <3>1, <3>3, TokenToPieceReads
      <4>3. f[k] \in SUBSET Decoder
        BY <1>2
      <4>2. f[k + 1] = {}
        BY ONLY <3>2, <4>1, <4>3
      <4> QED BY <3>1, <4>2
    <3>4. CASE k >= i
      <4>1. f[k] = {}
        BY <2>3, <3>4
      <4>2. f[k + 1] = {}
        BY ONLY <3>2, <4>1
      <4> QED BY <3>1, <4>2
    <3>5. CASE k + 1 < i
      BY <3>1, <3>5
    <3> QED BY <3>1, <3>3, <3>4, <3>5
  <2>4. \A k \in 0 .. n : k \in failed
    <3> HIDE DEF failed, n
    <3>1. \A k \in 0 .. n - 1 : k \in failed => k + 1 \in failed
      BY <2>3
    <3> QED BY ONLY <1>1, <2>2, <3>1, UpTo
  <2>5. f[n] = {}
    BY <1>1, <2>1, <2>4
  <2>6. Detokenize(tokens) = {}
    BY ONLY <1>2, <2>5
  <2> QED BY ONLY <2>6
<1>5. ASSUME \A i \in 1 .. n : Known(tokens[i]) PROVE Detokenize(tokens) # {}
  <2> DEFINE alive == {k \in 0 .. n : f[k] # {}}
  <2>1. 0 \in alive
    <3>1. f[0] = {NewDecoder}
      BY ONLY <1>2
    <3>2. f[0] # {}
      BY ONLY <3>1
    <3>3. 0 \in 0 .. n
      BY ONLY <1>1
    <3> QED BY ONLY <3>2, <3>3
  <2>2. ASSUME NEW k \in 0 .. n - 1, k \in alive PROVE k + 1 \in alive
    <3>1. k + 1 \in 1 .. n /\ (k + 1) - 1 = k /\ k \in 0 .. n
      BY <1>1
    <3>2. f[k + 1] = UNION {TokenToPiece(d, tokens[k + 1]) : d \in f[k]}
      BY <1>2, <3>1
    <3>3. PICK d \in f[k] : d \in Decoder
      <4>1. f[k] # {}
        BY ONLY <2>2
      <4>2. f[k] \in SUBSET Decoder
        BY ONLY <1>2, <3>1
      <4> QED BY ONLY <4>1, <4>2
    <3>4. tokens[k + 1] \in Int /\ Known(tokens[k + 1])
      BY <1>1, <1>5, <3>1
    <3>5. TokenToPiece(d, tokens[k + 1]) # {}
      BY <3>3, <3>4, TokenToPieceReads
    <3>6. f[k + 1] # {}
      BY ONLY <3>2, <3>3, <3>5
    <3> QED BY <3>1, <3>6
  <2>3. \A k \in 0 .. n : k \in alive
    <3> HIDE DEF alive, n
    <3>1. \A k \in 0 .. n - 1 : k \in alive => k + 1 \in alive
      BY <2>2
    <3> QED BY ONLY <1>1, <2>1, <3>1, UpTo
  <2>4. f[n] # {}
    BY <1>1, <2>3
  <2>5. PICK d \in f[n] : TRUE
    BY <2>4
  <2>6. d.out \in Detokenize(tokens)
    BY <1>2
  <2> QED BY <2>6
<1> QED BY <1>1, <1>3, <1>4, <1>5

-----------------------------------------------------------------------------
(* What a step leaves as the answer is what the library holds.               *)

LEMMA TextRead == ReadText => answer'.got = answer'.want
<1> SUFFICES ASSUME ReadText PROVE answer'.got = answer'.want
  OBVIOUS
<1>1. \A source \in Sources : source = {} \/ \E s \in Seq(Nat) : source = {s}
  <2>1. \A n \in 0 .. MaxText : Text(n) \in Seq(Nat)
    BY MaxTextAssumption DEF Text
  <2> QED BY <2>1 DEF Sources
<1>2. \A bytes \in 0 .. MaxText : bytes \in Nat
  BY MaxTextAssumption
<1>3. \A source \in Sources :
         /\ ReadFfiString(source) = source
         /\ \A bytes \in 0 .. MaxText : /\ Tokenize(source, bytes) = source
                                        /\ ApplyChatTemplate(source, bytes) = source
  <2> SUFFICES ASSUME NEW source \in Sources
      PROVE  /\ ReadFfiString(source) = source
             /\ \A bytes \in 0 .. MaxText : /\ Tokenize(source, bytes) = source
                                            /\ ApplyChatTemplate(source, bytes) = source
    OBVIOUS
  <2>1. CASE source = {}
    BY <1>2, <2>1, TokenizeReads, FfiStringReads, TemplateReads
  <2>2. ASSUME NEW s \in Seq(Nat), source = {s}
        PROVE  /\ ReadFfiString(source) = source
               /\ \A bytes \in 0 .. MaxText : /\ Tokenize(source, bytes) = source
                                              /\ ApplyChatTemplate(source, bytes) = source
    <3>1. ReadFfiString({s}) = {s}
      BY ONLY s \in Seq(Nat), FfiStringReads
    <3>2. \A bytes \in 0 .. MaxText : Tokenize({s}, bytes) = {s}
      BY ONLY <1>2, s \in Seq(Nat), TokenizeReads
    <3>3. \A bytes \in 0 .. MaxText : ApplyChatTemplate({s}, bytes) = {s}
      BY ONLY <1>2, s \in Seq(Nat), TemplateReads
    <3> QED BY ONLY <2>2, <3>1, <3>2, <3>3
  <2> QED BY <1>1, <2>1, <2>2
<1> QED BY <1>3 DEF ReadText, Answered

LEMMA PieceRead == ReadPiece => answer'.got = answer'.want
<1> SUFFICES ASSUME ReadPiece PROVE answer'.got = answer'.want
  OBVIOUS
<1>1. Len(Vocab) \in Nat
  BY VocabAssumption
<1>2. PICK t \in Ids, bufSize \in 0 .. MaxText :
         answer' = [ask |-> "text", want |-> IF Known(t) THEN {Vocab[t + 1]} ELSE {},
                    got |-> Piece(t, bufSize)]
  BY DEF ReadPiece, Answered
<1>3. t \in Int /\ bufSize \in Nat
  BY <1>1, MaxTextAssumption DEF Ids
<1>4. Piece(t, bufSize) = (IF Known(t) THEN {Vocab[t + 1]} ELSE {})
  BY ONLY <1>3, PieceReads
<1> QED BY ONLY <1>2, <1>4

LEMMA TokensRead == ReadTokens => ReadsWhole'
<1> SUFFICES ASSUME ReadTokens PROVE ReadsWhole'
  OBVIOUS
<1>1. PICK tokens \in SeqOf(Ids, MaxText) :
         LET known == \A i \in DOMAIN tokens : Known(tokens[i])
             ask == IF known /\ \E i \in DOMAIN tokens : ~ FewReplaced(tokens[i])
                    THEN "overfull" ELSE "text"
         IN  Answered(ask,
                      IF known THEN {DecodeToString(NewDecoder, BytesOf(tokens)).out} ELSE {},
                      Detokenize(tokens))
  BY DEF ReadTokens
<1> DEFINE known == \A i \in DOMAIN tokens : Known(tokens[i])
           few == \A i \in DOMAIN tokens : FewReplaced(tokens[i])
           text == DecodeToString(NewDecoder, BytesOf(tokens)).out
<1>2. tokens \in Seq(Int)
  <2>1. PICK m \in 0 .. MaxText : tokens \in [1 .. m -> Ids]
    BY DEF SeqOf
  <2>2. Ids \subseteq Int /\ m \in Nat
    BY MaxTextAssumption DEF Ids
  <2>3. tokens \in [1 .. m -> Int]
    BY ONLY <2>1, <2>2
  <2> QED BY ONLY <2>2, <2>3
<1>3. /\ Detokenize(tokens) = {} <=> ~ known
      /\ known /\ few => Detokenize(tokens) = {text}
  BY ONLY <1>2, DetokenizeReads
<1>4. answer' = [ask |-> IF known /\ ~ few THEN "overfull" ELSE "text",
                 want |-> IF known THEN {text} ELSE {}, got |-> Detokenize(tokens)]
  BY <1>1 DEF Answered
<1> HIDE DEF known, few, text
<1>5. /\ answer'.ask = IF known /\ ~ few THEN "overfull" ELSE "text"
      /\ answer'.want = IF known THEN {text} ELSE {}
      /\ answer'.got = Detokenize(tokens)
  BY ONLY <1>4
<1> QED BY ONLY <1>3, <1>5 DEF ReadsWhole

LEMMA HeaderRead == ReadHeader => answer'.got = answer'.want
<1> SUFFICES ASSUME ReadHeader PROVE answer'.got = answer'.want
  OBVIOUS
<1>1. CASE \E i \in -1..Len(Header.tensors) :
              Answered("header", {Header.tensors[j] : j \in (DOMAIN Header.tensors) \cap {i + 1}}, Tensor(i))
  <2>1. PICK i \in -1..Len(Header.tensors) :
           answer' = [ask |-> "header",
                      want |-> {Header.tensors[j] : j \in (DOMAIN Header.tensors) \cap {i + 1}},
                      got |-> Tensor(i)]
    BY <1>1 DEF Answered
  <2>2. i \in Int
    OBVIOUS
  <2>3. Tensor(i) = {Header.tensors[j] : j \in (DOMAIN Header.tensors) \cap {i + 1}}
    BY ONLY <2>2, TensorReads
  <2> QED BY ONLY <2>1, <2>3
<1>2. ASSUME NEW k \in DOMAIN Header.keys, NEW found, found = FindKey(Header.keys[k].name),
             Answered("header", {Header.keys[k].name}, {KeyAt(found)})
      PROVE  answer'.got = answer'.want
  BY <1>2, FoundKey DEF Answered
<1>3. ASSUME NEW k \in DOMAIN Header.keys, NEW found, found = FindKey(Header.keys[k].name),
             NEW i \in Int, NEW items, items = Header.keys[found + 1].items,
             Answered("header", {items[j] : j \in (DOMAIN items) \cap {i + 1}}, ArrStr(found, i))
      PROVE  answer'.got = answer'.want
  <2>1. ArrStr(found, i) = {items[j] : j \in (DOMAIN items) \cap {i + 1}}
    BY ONLY <1>3, ElementReads
  <2>2. answer' = [ask |-> "header", want |-> {items[j] : j \in (DOMAIN items) \cap {i + 1}},
                   got |-> ArrStr(found, i)]
    BY ONLY <1>3 DEF Answered
  <2> QED BY ONLY <2>1, <2>2
<1>4. CASE \E k \in DOMAIN Header.keys :
              LET name == Header.keys[k].name
                  found == FindKey(name)
              IN
              /\ found >= 0
              /\ \/ Answered("header", {name}, {KeyAt(found)})
                 \/ LET items == Header.keys[found + 1].items IN
                    \E i \in -1..Len(items) :
                       Answered("header", {items[j] : j \in (DOMAIN items) \cap {i + 1}},
                                ArrStr(found, i))
  <2>1. PICK k \in DOMAIN Header.keys :
              LET name == Header.keys[k].name
                  found == FindKey(name)
              IN
              \/ Answered("header", {name}, {KeyAt(found)})
              \/ LET items == Header.keys[found + 1].items IN
                 \E i \in -1..Len(items) :
                    Answered("header", {items[j] : j \in (DOMAIN items) \cap {i + 1}},
                             ArrStr(found, i))
    BY <1>4
  <2> DEFINE found == FindKey(Header.keys[k].name)
             items == Header.keys[found + 1].items
  <2>2. CASE Answered("header", {Header.keys[k].name}, {KeyAt(found)})
    BY <1>2, <2>2
  <2>3. CASE \E i \in -1..Len(items) :
                Answered("header", {items[j] : j \in (DOMAIN items) \cap {i + 1}},
                         ArrStr(found, i))
    <3>1. PICK i \in -1..Len(items) :
                Answered("header", {items[j] : j \in (DOMAIN items) \cap {i + 1}},
                         ArrStr(found, i))
      BY <2>3
    <3>2. i \in Int
      OBVIOUS
    <3> QED BY <1>3, <3>1, <3>2
  <2> QED BY <2>1, <2>2, <2>3
<1> QED BY <1>1, <1>4 DEF ReadHeader

(* Every read comes back whole, whatever the library holds and whatever the   *)
(* first buffer was: the retry of model.rs and model/chat.rs, the probe of    *)
(* model/meta.rs and the range checks of gguf.rs lose and add nothing; and   *)
(* the string a piece is decoded into is large enough as long as few of its   *)
(* bytes are given up for U+FFFD.                                            *)
THEOREM WholeReads == ModelSpec => []ReadsWhole
<1>1. ModelInit => ReadsWhole
  BY DEF ModelInit, Nothing, ReadsWhole
<1>2. ReadsWhole /\ [ModelNext]_modelVars => ReadsWhole'
  <2> SUFFICES ASSUME ReadsWhole, [ModelNext]_modelVars PROVE ReadsWhole'
    OBVIOUS
  <2>1. CASE UNCHANGED modelVars
    BY <2>1 DEF modelVars, ReadsWhole
  <2>2. CASE answer' = Nothing
    BY <2>2 DEF Nothing, ReadsWhole
  <2>3. CASE Read
    <3>1. answer'.got = answer'.want => ReadsWhole'
      BY DEF ReadsWhole
    <3> QED BY <2>3, <3>1, TextRead, PieceRead, TokensRead, HeaderRead DEF Read
  <2> QED BY <2>1, <2>2, <2>3 DEF ModelNext
<1> QED BY <1>1, <1>2, PTL DEF ModelSpec

=============================================================================
