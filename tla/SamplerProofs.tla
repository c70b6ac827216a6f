---------------------------- MODULE SamplerProofs ----------------------------
(* Proofs about Sampler, for every vocabulary, language, chain of stages and  *)
(* bound.                                                                    *)
EXTENDS Sampler, Induction

USE DEF generation

Candidate == [id : Token, logit : 0 .. Levels]
Distinct(a) == \A i, j \in 1 .. Len(a) : i # j => a[i].id # a[j].id

(* What an array of candidates always is.                                    *)
IsArray(a) == a \in Seq(Candidate) /\ Distinct(a)

-----------------------------------------------------------------------------
(* What a rearrangement, a prefix and new logits do to a candidate array.    *)

(* What a candidate is.                                                      *)
LEMMA CandidateType ==
    ASSUME NEW a, IsArray(a)
    PROVE  /\ Len(a) \in Nat /\ Levels \in Nat \ {0}
           /\ \A i \in 1 .. Len(a) : a[i].id \in Token /\ a[i].logit \in 0 .. Levels
<1>1. a \in Seq(Candidate) /\ Levels \in Nat \ {0}
  BY SamplerAssumption DEF IsArray
<1>2. \A i \in 1 .. Len(a) : a[i] \in Candidate
  BY <1>1
<1>3. \A c \in Candidate : c.id \in Token /\ c.logit \in 0 .. Levels
  BY DEF Candidate
<1> QED BY <1>1, <1>2, <1>3

(* A shuffle holds the same candidates, each once.                           *)
LEMMA Shuffled ==
    ASSUME NEW a, IsArray(a), NEW b \in Shuffles(a)
    PROVE  /\ IsArray(b) /\ Len(b) = Len(a)
           /\ \A i \in 1 .. Len(b) : \E j \in 1 .. Len(a) : b[i] = a[j]
           /\ \A i \in 1 .. Len(a) : \E j \in 1 .. Len(b) : a[i] = b[j]
<1> DEFINE n == Len(a)
<1>1. n \in Nat /\ \A i \in 1 .. n : a[i] \in Candidate
  BY DEF IsArray
<1>2. PICK p \in Bijection(1 .. n, 1 .. n) : b = [i \in 1 .. n |-> a[p[i]]]
  BY DEF Shuffles
<1>3. /\ \A i \in 1 .. n : p[i] \in 1 .. n
      /\ \A i, j \in 1 .. n : p[i] = p[j] => i = j
      /\ \A j \in 1 .. n : \E i \in 1 .. n : p[i] = j
  <2>1. p \in [1 .. n -> 1 .. n] /\ IsInjective(p)
    BY DEF Bijection, Injection
  <2>2. \A j \in 1 .. n : \E i \in 1 .. n : p[i] = j
    BY DEF Bijection, Surjection
  <2> QED BY <2>1, <2>2 DEF IsInjective
<1>4. b \in Seq(Candidate) /\ Len(b) = n
  <2>1. b \in [1 .. n -> Candidate]
    BY <1>1, <1>2, <1>3
  <2> QED BY <1>1, <2>1
<1>5. ASSUME NEW i \in 1 .. n, NEW j \in 1 .. n, i # j PROVE b[i].id # b[j].id
  <2>1. b[i] = a[p[i]] /\ b[j] = a[p[j]]
    BY <1>2
  <2>2. p[i] \in 1 .. n /\ p[j] \in 1 .. n /\ p[i] # p[j]
    BY <1>3, <1>5
  <2> QED BY <2>1, <2>2 DEF IsArray, Distinct
<1>6. IsArray(b) /\ Len(b) = n
  BY <1>4, <1>5 DEF IsArray, Distinct
<1> QED BY <1>2, <1>3, <1>4, <1>6

(* A prefix holds some of the candidates.                                    *)
LEMMA Prefixed ==
    ASSUME NEW a, IsArray(a), NEW n \in 1 .. Len(a)
    PROVE  LET b == SubSeq(a, 1, n)
           IN  /\ IsArray(b) /\ Len(b) = n
               /\ \A i \in 1 .. n : b[i] = a[i]
BY DEF IsArray, Distinct

(* New logits leave the candidates where they are.                           *)
LEMMA Relogged ==
    ASSUME NEW a, IsArray(a), NEW l \in [1 .. Len(a) -> 0 .. Levels],
           NEW b, b = [i \in 1 .. Len(a) |-> [a[i] EXCEPT !.logit = l[i]]]
    PROVE  /\ IsArray(b) /\ Len(b) = Len(a)
           /\ \A i \in 1 .. Len(a) : b[i].id = a[i].id /\ b[i].logit = l[i]
<1>1. Len(a) \in Nat /\ \A i \in 1 .. Len(a) : a[i] \in Candidate
  BY DEF IsArray
<1>2. \A i \in 1 .. Len(a) : b[i] \in Candidate /\ b[i].id = a[i].id /\ b[i].logit = l[i]
  BY <1>1 DEF Candidate
<1>3. b \in [1 .. Len(a) -> Candidate]
  BY <1>2
<1>4. b \in Seq(Candidate) /\ Len(b) = Len(a)
  BY <1>1, <1>3
<1> QED BY <1>2, <1>4 DEF IsArray, Distinct

(* Masking touches the logits only: what the grammar permits keeps its own.   *)
LEMMA Masking ==
    ASSUME NEW a, IsArray(a)
    PROVE  /\ IsArray(Mask(a)) /\ Len(Mask(a)) = Len(a)
           /\ \A i \in 1 .. Len(a) :
                /\ Mask(a)[i].id = a[i].id
                /\ Mask(a)[i].logit = IF a[i].id \in Permitted(gram) THEN a[i].logit
                                                                     ELSE Masked
<1> DEFINE b == Mask(a)
           l == [i \in 1 .. Len(a) |-> IF a[i].id \in Permitted(gram) THEN a[i].logit ELSE 0]
<1>1. b = [i \in 1 .. Len(a) |-> [a[i] EXCEPT !.logit = l[i]]]
  BY DEF Mask, Relogit, Masked
<1>2. l \in [1 .. Len(a) -> 0 .. Levels]
  BY CandidateType
<1>3. \A i \in 1 .. Len(a) : l[i] = IF a[i].id \in Permitted(gram) THEN a[i].logit ELSE Masked
  BY DEF Masked
<1> HIDE DEF l, b
<1>4. /\ IsArray(b) /\ Len(b) = Len(a)
      /\ \A i \in 1 .. Len(a) : b[i].id = a[i].id /\ b[i].logit = l[i]
  BY <1>1, <1>2, Relogged
<1> QED BY <1>3, <1>4 DEF b

(* A penalty never makes a candidate impossible, nor an impossible one       *)
(* possible.                                                                *)
LEMMA Penalising ==
    ASSUME NEW a, IsArray(a), NEW tokens
    PROVE  LET b == Penalise(a, tokens)
           IN  /\ IsArray(b) /\ Len(b) = Len(a)
               /\ \A i \in 1 .. Len(a) : /\ b[i].id = a[i].id
                                         /\ b[i].logit = Masked <=> a[i].logit = Masked
<1> DEFINE b == Penalise(a, tokens)
           l == [i \in 1 .. Len(a) |-> IF a[i].id \in tokens /\ a[i].logit > 1
                                       THEN a[i].logit - 1 ELSE a[i].logit]
<1>1. b = [i \in 1 .. Len(a) |-> [a[i] EXCEPT !.logit = l[i]]]
  BY DEF Penalise, Relogit
<1>2. l \in [1 .. Len(a) -> 0 .. Levels]
  BY CandidateType
<1>3. \A i \in 1 .. Len(a) : l[i] = Masked <=> a[i].logit = Masked
  BY CandidateType DEF Masked
<1> HIDE DEF l, b
<1>4. /\ IsArray(b) /\ Len(b) = Len(a)
      /\ \A i \in 1 .. Len(a) : b[i].id = a[i].id /\ b[i].logit = l[i]
  BY <1>1, <1>2, Relogged
<1>5. \A i \in 1 .. Len(a) : b[i].id = a[i].id /\ (b[i].logit = Masked <=> a[i].logit = Masked)
  BY <1>3, <1>4
<1> QED BY <1>4, <1>5 DEF b

(* The best candidates, first and last.                                      *)
LEMMA Best ==
    ASSUME NEW a, IsArray(a), a # <<>>
    PROVE  /\ \E i \in 1 .. Len(a) : /\ \A j \in 1 .. Len(a) : a[j].logit <= a[i].logit
                                     /\ \A j \in 1 .. i - 1 : a[j].logit < a[i].logit
           /\ \E i \in 1 .. Len(a) : /\ \A j \in 1 .. Len(a) : a[j].logit <= a[i].logit
                                     /\ \A j \in i + 1 .. Len(a) : a[j].logit < a[i].logit
<1> DEFINE n == Len(a)  v == [i \in 1 .. n |-> a[i].logit]
<1>1. n \in Nat \ {0} /\ v \in [1 .. n -> Nat]
  BY CandidateType DEF IsArray
<1>2. /\ \E i \in 1 .. n : (\A j \in 1 .. n : v[j] <= v[i]) /\ \A j \in 1 .. i - 1 : v[j] < v[i]
      /\ \E i \in 1 .. n : (\A j \in 1 .. n : v[j] <= v[i]) /\ \A j \in i + 1 .. n : v[j] < v[i]
  <2> HIDE DEF n, v
  <2> QED BY <1>1, FirstMax, LastMax
<1>3. \A i \in 1 .. n : v[i] = a[i].logit
  OBVIOUS
<1>4. /\ \A i \in 1 .. n : 1 .. i - 1 \subseteq 1 .. n
      /\ \A i \in 1 .. n : i + 1 .. n \subseteq 1 .. n
  BY <1>1
<1> HIDE DEF v, n
<1>5. \E i \in 1 .. n : /\ \A j \in 1 .. n : a[j].logit <= a[i].logit
                        /\ \A j \in 1 .. i - 1 : a[j].logit < a[i].logit
  BY <1>2, <1>3, <1>4
<1>6. \E i \in 1 .. n : /\ \A j \in 1 .. n : a[j].logit <= a[i].logit
                        /\ \A j \in i + 1 .. n : a[j].logit < a[i].logit
  BY <1>2, <1>3, <1>4
<1> QED BY <1>5, <1>6 DEF n

-----------------------------------------------------------------------------
(* What each stage does to the array it is handed.                           *)

ArrayOK == IsArray(data) /\ data # <<>> /\ sorted \in BOOLEAN /\ selected \in 0 .. Len(data)

(* The flag tells the truth.                                                 *)
Honest == sorted => Descending(data)

(* What a stage leaves is again such an array, or nothing ...                *)
LeftOK(left) == IsArray(left.data) /\ left.sorted \in BOOLEAN /\ left.selected \in Nat

(* A rearrangement offers the same candidates.                               *)
LEMMA SameDrawable ==
    ASSUME NEW a, NEW b,
           \A i \in 1 .. Len(b) : \E j \in 1 .. Len(a) : b[i] = a[j],
           \A i \in 1 .. Len(a) : \E j \in 1 .. Len(b) : a[i] = b[j]
    PROVE  Drawable(b) = Drawable(a)
<1>1. \A x : x \in Drawable(b) => x \in Drawable(a)
  BY DEF Drawable
<1>2. \A x : x \in Drawable(a) => x \in Drawable(b)
  BY DEF Drawable
<1> QED BY <1>1, <1>2

(* Sorting, or trusting the flag, gives the same candidates, in order if the  *)
(* flag is true.                                                             *)
LEMMA Sorted ==
    ASSUME ArrayOK, NEW a \in Sorts(data)
    PROVE  /\ IsArray(a) /\ Len(a) = Len(data) /\ a # <<>>
           /\ Honest => Descending(a)
           /\ Drawable(a) = Drawable(data)
<1>1. CASE sorted
  BY <1>1 DEF ArrayOK, Sorts, Honest
<1>2. CASE ~ sorted
  <2>1. a \in Shuffles(data) /\ Descending(a) /\ IsArray(data)
    BY <1>2 DEF Sorts, ArrayOK
  <2>2. /\ IsArray(a) /\ Len(a) = Len(data)
        /\ \A i \in 1 .. Len(a) : \E j \in 1 .. Len(data) : a[i] = data[j]
        /\ \A i \in 1 .. Len(data) : \E j \in 1 .. Len(a) : data[i] = a[j]
    BY <2>1, Shuffled
  <2>3. Drawable(a) = Drawable(data)
    BY <2>2, SameDrawable
  <2>4. a # <<>>
    BY <2>2 DEF ArrayOK, IsArray
  <2> QED BY <2>1, <2>2, <2>3, <2>4
<1> QED BY <1>1, <1>2

(* An array in order has its masked candidates last.                         *)
LEMMA OrderMasksLast ==
    ASSUME NEW a, IsArray(a), Descending(a)
    PROVE  MaskedLast(a)
<1> SUFFICES ASSUME NEW i \in 1 .. Len(a), NEW j \in 1 .. Len(a), i < j, a[i].logit = Masked
             PROVE  a[j].logit = Masked
  BY DEF MaskedLast
<1>1. a[i].logit >= a[j].logit /\ a[j].logit \in Nat
  BY CandidateType DEF Descending
<1> QED BY <1>1 DEF Masked

(* A prefix of an array with its masked candidates last offers a candidate if *)
(* the array does.                                                           *)
LEMMA PrefixDrawable ==
    ASSUME NEW a, IsArray(a), NEW n \in 1 .. Len(a), NEW b, b = SubSeq(a, 1, n)
    PROVE  /\ IsArray(b) /\ b # <<>> /\ Drawable(b) \subseteq Drawable(a)
           /\ MaskedLast(a) /\ Drawable(a) # {} => Drawable(b) # {}
<1>1. IsArray(b) /\ Len(b) = n /\ \A i \in 1 .. n : b[i] = a[i]
  BY Prefixed
<1>2. Len(a) \in Nat /\ n \in Nat \ {0} /\ n <= Len(a)
  BY CandidateType
<1>3. b # <<>>
  BY <1>1, <1>2
<1>4. Drawable(b) \subseteq Drawable(a)
  BY <1>1, <1>2 DEF Drawable
<1>5. ASSUME MaskedLast(a), Drawable(a) # {} PROVE Drawable(b) # {}
  <2>1. PICK i \in 1 .. Len(a) : a[i].logit # Masked
    BY <1>5 DEF Drawable
  <2>2. a[1].logit # Masked
    BY <1>2, <1>5, <2>1 DEF MaskedLast
  <2>3. b[1].logit # Masked /\ 1 \in 1 .. Len(b)
    BY <1>1, <1>2, <2>2
  <2> QED BY <2>3 DEF Drawable
<1> QED BY <1>1, <1>3, <1>4, <1>5

(* top_k keeps the best candidates, at least one of them.                    *)
LEMMA TopKStage ==
    ASSUME ArrayOK, NEW left \in TopK
    PROVE  /\ LeftOK(left) /\ left.data # <<>> /\ left.selected = selected
           /\ Drawable(left.data) \subseteq Drawable(data)
           /\ Honest /\ Drawable(data) # {} => Drawable(left.data) # {}
<1>1. PICK a \in Sorts(data) : left = Left(SubSeq(a, 1, Kept(a)), TRUE, selected)
  BY DEF TopK
<1> DEFINE n == Kept(a)
<1>2. /\ IsArray(a) /\ a # <<>> /\ Drawable(a) = Drawable(data)
      /\ Honest => Descending(a)
      /\ Len(a) \in Nat \ {0} /\ n \in 1 .. Len(a)
  <2>1. /\ IsArray(a) /\ a # <<>> /\ Drawable(a) = Drawable(data)
        /\ Honest => Descending(a)
    BY Sorted
  <2>2. Len(a) \in Nat \ {0}
    BY <2>1 DEF IsArray
  <2> QED BY <2>1, <2>2 DEF Kept
<1> HIDE DEF n
<1> DEFINE b == SubSeq(a, 1, n)
<1>3. /\ IsArray(b) /\ b # <<>> /\ Drawable(b) \subseteq Drawable(a)
      /\ MaskedLast(a) /\ Drawable(a) # {} => Drawable(b) # {}
  BY <1>2, PrefixDrawable
<1>4. Honest => MaskedLast(a)
  BY <1>2, OrderMasksLast
<1>5. left.data = b /\ left.sorted = TRUE /\ left.selected = selected
  BY <1>1 DEF Left, n
<1> HIDE DEF b
<1>6. selected \in Nat
  BY CandidateType DEF ArrayOK
<1>7. LeftOK(left)
  BY <1>3, <1>5, <1>6 DEF LeftOK
<1> QED BY <1>2, <1>3, <1>4, <1>5, <1>7

(* A truncation keeps some candidates, and a drawable one if there is one.    *)
LEMMA TruncateStage ==
    ASSUME ArrayOK, NEW left \in Truncate
    PROVE  /\ LeftOK(left) /\ left.data # <<>> /\ left.selected = selected
           /\ Drawable(left.data) \subseteq Drawable(data)
           /\ Honest /\ Drawable(data) # {} => Drawable(left.data) # {}
<1>0. selected \in Nat /\ IsArray(data) /\ sorted \in BOOLEAN
  BY CandidateType DEF ArrayOK
<1>1. ASSUME NEW n \in 1 .. Len(data), NEW a \in Shuffles(data), MaskedLast(a),
             NEW is_sorted \in BOOLEAN,
             left = Left(SubSeq(a, 1, n), is_sorted /\ Descending(SubSeq(a, 1, n)), selected)
      PROVE  /\ LeftOK(left) /\ left.data # <<>> /\ left.selected = selected
             /\ Drawable(left.data) \subseteq Drawable(data)
             /\ Drawable(data) # {} => Drawable(left.data) # {}
  <2> DEFINE b == SubSeq(a, 1, n)
  <2>1. /\ IsArray(a) /\ Len(a) = Len(data) /\ Drawable(a) = Drawable(data)
    <3>1. /\ IsArray(a) /\ Len(a) = Len(data)
          /\ \A i \in 1 .. Len(a) : \E j \in 1 .. Len(data) : a[i] = data[j]
          /\ \A i \in 1 .. Len(data) : \E j \in 1 .. Len(a) : data[i] = a[j]
      BY <1>0, <1>1, Shuffled
    <3> QED BY <3>1, SameDrawable
  <2>2. /\ IsArray(b) /\ b # <<>> /\ Drawable(b) \subseteq Drawable(a)
        /\ MaskedLast(a) /\ Drawable(a) # {} => Drawable(b) # {}
    BY <1>1, <2>1, PrefixDrawable
  <2>3. left.data = b /\ left.sorted = (is_sorted /\ Descending(b)) /\ left.selected = selected
    BY <1>1 DEF Left
  <2> HIDE DEF b
  <2>4. left.sorted \in BOOLEAN
    BY <2>3 DEF Descending
  <2>5. LeftOK(left)
    BY <1>0, <2>2, <2>3, <2>4 DEF LeftOK
  <2> QED BY <1>1, <2>1, <2>2, <2>3, <2>5
<1>2. ASSUME NEW n \in 1 .. Len(data), left = Left(SubSeq(data, 1, n), sorted, selected), sorted
      PROVE  /\ LeftOK(left) /\ left.data # <<>> /\ left.selected = selected
             /\ Drawable(left.data) \subseteq Drawable(data)
             /\ Honest /\ Drawable(data) # {} => Drawable(left.data) # {}
  <2> DEFINE b == SubSeq(data, 1, n)
  <2>1. /\ IsArray(b) /\ b # <<>> /\ Drawable(b) \subseteq Drawable(data)
        /\ MaskedLast(data) /\ Drawable(data) # {} => Drawable(b) # {}
    BY <1>0, <1>2, PrefixDrawable
  <2>2. Honest => MaskedLast(data)
    BY <1>0, <1>2, OrderMasksLast DEF Honest
  <2>3. left.data = b /\ left.sorted = sorted /\ left.selected = selected
    BY <1>2 DEF Left
  <2> HIDE DEF b
  <2>4. LeftOK(left)
    BY <1>0, <2>1, <2>3 DEF LeftOK
  <2> QED BY <2>1, <2>2, <2>3, <2>4
<1>3. CASE \E n \in 1 .. Len(data), a \in {b \in Shuffles(data) : MaskedLast(b)},
              is_sorted \in BOOLEAN :
           left = Left(SubSeq(a, 1, n), is_sorted /\ Descending(SubSeq(a, 1, n)), selected)
  <2>1. PICK n \in 1 .. Len(data), a \in {b \in Shuffles(data) : MaskedLast(b)},
             is_sorted \in BOOLEAN :
           left = Left(SubSeq(a, 1, n), is_sorted /\ Descending(SubSeq(a, 1, n)), selected)
    BY <1>3
  <2>2. a \in Shuffles(data) /\ MaskedLast(a)
    OBVIOUS
  <2> QED BY <1>1, <2>1, <2>2
<1>4. CASE \E n \in {m \in 1 .. Len(data) : sorted} :
              left = Left(SubSeq(data, 1, n), sorted, selected)
  BY <1>2, <1>4
<1> QED BY <1>3, <1>4 DEF Truncate

(* tail_free may keep nothing; what it keeps it keeps like the others.        *)
LEMMA TailFreeStage ==
    ASSUME ArrayOK, NEW left \in TailFree
    PROVE  /\ LeftOK(left) /\ left.selected = selected
           /\ Drawable(left.data) \subseteq Drawable(data)
           /\ Honest /\ Drawable(data) # {} /\ left.data # <<>> => Drawable(left.data) # {}
<1>1. CASE left \in Truncate
  BY <1>1, TruncateStage
<1>2. CASE left = Left(<<>>, sorted, selected)
  <2>1. left.data = <<>> /\ left.sorted = sorted /\ left.selected = selected
    BY <1>2 DEF Left
  <2>2. IsArray(<<>>) /\ Drawable(<<>>) = {}
    BY DEF IsArray, Distinct, Drawable
  <2>3. selected \in Nat /\ sorted \in BOOLEAN
    BY CandidateType DEF ArrayOK
  <2>4. LeftOK(left)
    BY <2>1, <2>2, <2>3 DEF LeftOK
  <2> QED BY <2>1, <2>2, <2>4
<1> QED BY <1>1, <1>2 DEF TailFree

(* Penalties keep what is drawable.                                          *)
LEMMA PenalisedArray ==
    ASSUME IsArray(data), sorted \in BOOLEAN, NEW tokens, NEW left, left = PenalisedBy(tokens)
    PROVE  /\ IsArray(left.data) /\ left.sorted \in BOOLEAN /\ left.selected = selected
           /\ Len(left.data) = Len(data) /\ Drawable(left.data) = Drawable(data)
           /\ data = <<>> <=> left.data = <<>>
<1>1. CASE tokens = <<>>
  BY <1>1 DEF PenalisedBy, Left
<1>2. CASE tokens # <<>>
  <2> DEFINE b == Penalise(data, ToSet(tokens))
  <2>1. left.data = b /\ left.sorted = FALSE /\ left.selected = selected
    BY <1>2 DEF PenalisedBy, Left
  <2>2. /\ IsArray(b) /\ Len(b) = Len(data)
        /\ \A i \in 1 .. Len(data) : /\ b[i].id = data[i].id
                                     /\ b[i].logit = Masked <=> data[i].logit = Masked
    BY Penalising
  <2> HIDE DEF b
  <2>3. Drawable(b) = Drawable(data)
    BY <2>2 DEF Drawable
  <2>4. b = <<>> <=> data = <<>>
    BY <2>2 DEF IsArray
  <2>5. left.sorted \in BOOLEAN
    BY <2>1
  <2> QED BY <2>1, <2>2, <2>3, <2>4, <2>5
<1> QED BY <1>1, <1>2

(* Temperature and penalties keep what is drawable.                          *)
LEMMA KeepingStage ==
    ASSUME ArrayOK, NEW left \in Temp \cup TempExt \cup Penalties
    PROVE  /\ LeftOK(left) /\ left.data # <<>> /\ left.selected = selected
           /\ Drawable(left.data) = Drawable(data)
<1>0. selected \in Nat /\ IsArray(data) /\ data # <<>> /\ sorted \in BOOLEAN
  BY CandidateType DEF ArrayOK
<1>1. CASE left \in Temp
  BY <1>0, <1>1 DEF Temp, Left, LeftOK
<1>2. CASE left \in TempExt
  <2>1. PICK a \in Sorts(data) : left = Left(a, TRUE, selected)
    BY <1>2 DEF TempExt
  <2>2. /\ IsArray(a) /\ a # <<>> /\ Drawable(a) = Drawable(data)
    BY Sorted
  <2> QED BY <1>0, <2>1, <2>2 DEF Left, LeftOK
<1>3. CASE left \in Penalties
  <2>1. left = PenalisedBy(Window)
    BY <1>3 DEF Penalties
  <2>2. /\ IsArray(left.data) /\ left.sorted \in BOOLEAN /\ left.selected = selected
        /\ Drawable(left.data) = Drawable(data) /\ left.data # <<>>
    BY <1>0, <2>1, PenalisedArray
  <2> QED BY <1>0, <2>2 DEF LeftOK
<1> QED BY <1>1, <1>2, <1>3

(* The grammar leaves what it permits.                                       *)
LEMMA GrammarStage ==
    ASSUME ArrayOK, NEW left \in Grammar
    PROVE  /\ LeftOK(left) /\ left.data # <<>> /\ left.selected = selected
           /\ Drawable(left.data) = Drawable(data) \cap Permitted(gram)
<1>0. selected \in Nat /\ IsArray(data) /\ data # <<>> /\ sorted \in BOOLEAN
  BY CandidateType DEF ArrayOK
<1> DEFINE b == Mask(data)
<1>1. left.data = b /\ left.sorted = sorted /\ left.selected = selected
  BY DEF Grammar, Left
<1>2. /\ IsArray(b) /\ Len(b) = Len(data)
      /\ \A i \in 1 .. Len(data) :
            /\ b[i].id = data[i].id
            /\ b[i].logit = IF data[i].id \in Permitted(gram) THEN data[i].logit ELSE Masked
  BY <1>0, Masking
<1> HIDE DEF b
<1>3. Drawable(b) = Drawable(data) \cap Permitted(gram)
  BY <1>2 DEF Drawable
<1>4. b # <<>>
  BY <1>0, <1>2 DEF IsArray
<1> QED BY <1>0, <1>1, <1>2, <1>3, <1>4 DEF LeftOK

(* A selector picks a candidate, and greedy a drawable one if there is one.   *)
LEMMA DistStage ==
    ASSUME ArrayOK, NEW left \in Dist
    PROVE  LeftOK(left) /\ left.data # <<>>
<1>0. PICK a \in Sorts(data) : \E i \in 1 .. Len(a) : left = Left(a, TRUE, i)
  BY DEF Dist, ArrayOK
<1>1. PICK i \in 1 .. Len(a) : left = Left(a, TRUE, i)
  BY <1>0
<1>2. IsArray(a) /\ a # <<>> /\ Len(a) \in Nat
  BY Sorted, CandidateType
<1> QED BY <1>1, <1>2 DEF Left, LeftOK

LEMMA GreedyStage ==
    ASSUME ArrayOK, NEW left \in Greedy
    PROVE  /\ LeftOK(left) /\ left.data = data /\ left.selected \in 1 .. Len(data)
           /\ Drawable(data) # {} => data[left.selected].id \in Drawable(data)
<1> DEFINE i == left.selected
<1>0. /\ IsArray(data) /\ data # <<>> /\ sorted \in BOOLEAN
      /\ Len(data) \in Nat
      /\ \A k \in 1 .. Len(data) : data[k].logit \in Nat
  BY CandidateType DEF ArrayOK
<1>1. /\ i \in 1 .. Len(data)
      /\ \A j \in 1 .. Len(data) : data[j].logit <= data[i].logit
  <2> DEFINE First(k) == /\ \A j \in 1 .. Len(data) : data[j].logit <= data[k].logit
                         /\ \A j \in 1 .. k - 1 : data[j].logit < data[k].logit
  <2>1. i = CHOOSE k \in 1 .. Len(data) : First(k)
    BY <1>0 DEF Greedy, Left
  <2>2. \E k \in 1 .. Len(data) : First(k)
    BY <1>0, Best
  <2> HIDE DEF First
  <2>3. i \in 1 .. Len(data) /\ First(i)
    BY <2>1, <2>2
  <2> QED BY <2>3 DEF First
<1>2. left.data = data /\ left.sorted = sorted
  BY <1>0 DEF Greedy, Left
<1> HIDE DEF i
<1>3. ASSUME Drawable(data) # {} PROVE data[i].id \in Drawable(data)
  <2>1. PICK k \in 1 .. Len(data) : data[k].logit # Masked
    BY <1>3 DEF Drawable
  <2>2. data[i].logit # Masked
    BY <1>0, <1>1, <2>1 DEF Masked
  <2> QED BY <1>1, <2>2 DEF Drawable
<1>4. LeftOK(left)
  BY <1>0, <1>1, <1>2 DEF LeftOK, i
<1> QED BY <1>1, <1>2, <1>3, <1>4 DEF i

(* A selector selects nothing from nothing.                                  *)
LEMMA EmptyStage ==
    ASSUME IsArray(data), sorted \in BOOLEAN, data = <<>>, NEW stage \in Selectors,
           NEW left \in Run(stage)
    PROVE  LeftOK(left) /\ left.data = <<>> /\ left.selected = 0
<1>1. left = Left(data, sorted, Nothing)
  BY DEF Run, Selectors, Dist, Greedy
<1> QED BY <1>1 DEF Left, LeftOK, Nothing

-----------------------------------------------------------------------------
(* The grammar.                                                              *)

(* The first place of an element in a sequence.                              *)
LEMMA FirstPlace ==
    ASSUME NEW S, NEW g \in Seq(S), NEW e, Contains(g, e),
           NEW k, k = Place(g, e)
    PROVE  k \in 1 .. Len(g) /\ g[k] = e /\ \A i \in 1 .. k - 1 : g[i] # e
<1> DEFINE I == {i \in 1 .. Len(g) : g[i] = e}
<1>1. I # {} /\ I \in SUBSET Nat
  BY DEF Contains
<1>2. \E x \in I : \A y \in I : x <= y
  <2> HIDE DEF I
  <2> QED BY <1>1, LeastNat
<1>3. k = CHOOSE x \in I : \A y \in I : x <= y
  BY <1>1 DEF Place, SelectInSeq, Min
<1>4. k \in I /\ \A y \in I : k <= y
  <2> HIDE DEF I
  <2> QED BY <1>2, <1>3
<1>5. k \in 1 .. Len(g) /\ g[k] = e
  BY <1>4
<1>6. ASSUME NEW i \in 1 .. k - 1 PROVE g[i] # e
  <2>1. i \in 1 .. Len(g) /\ ~ (k <= i)
    BY <1>5
  <2> QED BY <1>4, <2>1
<1> QED BY <1>5, <1>6

(* A token more does not move it.                                            *)
LEMMA TriggerStays ==
    ASSUME NEW g \in Seq(Token), NEW t \in Token, Contains(g, Trigger)
    PROVE  /\ Contains(Append(g, t), Trigger)
           /\ Place(Append(g, t), Trigger) = Place(g, Trigger)
<1> DEFINE h == Append(g, t)
           k == Place(g, Trigger)
           m == Place(h, Trigger)
<1>1. h \in Seq(Token) /\ Len(h) = Len(g) + 1 /\ \A i \in 1 .. Len(g) : h[i] = g[i]
  OBVIOUS
<1>2. Contains(h, Trigger)
  BY <1>1 DEF Contains
<1>3. k \in 1 .. Len(g) /\ g[k] = Trigger /\ \A i \in 1 .. k - 1 : g[i] # Trigger
  BY FirstPlace
<1> HIDE DEF h
<1>4. m \in 1 .. Len(h) /\ h[m] = Trigger /\ \A i \in 1 .. m - 1 : h[i] # Trigger
  BY <1>1, <1>2, FirstPlace
<1> HIDE DEF k, m
<1>5. ~ (k < m)
  <2> SUFFICES ASSUME k < m PROVE FALSE
    OBVIOUS
  <2>1. k \in 1 .. m - 1 /\ h[k] = g[k]
    BY <1>1, <1>3, <1>4
  <2> QED BY <1>3, <1>4, <2>1
<1>6. ~ (m < k)
  <2> SUFFICES ASSUME m < k PROVE FALSE
    OBVIOUS
  <2>1. m \in 1 .. k - 1 /\ h[m] = g[m]
    BY <1>1, <1>3, <1>4
  <2> QED BY <1>3, <1>4, <2>1
<1>7. k = m
  BY <1>3, <1>4, <1>5, <1>6
<1> QED BY <1>2, <1>7 DEF h, k, m

(* What an awake grammar reads grows by the token it accepts.                *)
LEMMA ReadGrows ==
    ASSUME NEW g \in Seq(Token), NEW t \in Token, Awake(g)
    PROVE  Read(Append(g, t)) = Append(Read(g), t)
<1>1. CASE ~ lazy
  BY <1>1 DEF Read
<1>2. CASE lazy
  <2> DEFINE k == Place(g, Trigger)
  <2>1. Contains(g, Trigger)
    BY <1>2 DEF Awake
  <2>2. k \in 1 .. Len(g)
    BY <2>1, FirstPlace
  <2>3. /\ Read(g) = SubSeq(g, k, Len(g))
        /\ Read(Append(g, t)) = SubSeq(Append(g, t), k, Len(Append(g, t)))
    BY <1>2, <2>1, TriggerStays DEF Read
  <2> HIDE DEF k
  <2>4. SubSeq(Append(g, t), k, Len(Append(g, t))) = Append(SubSeq(g, k, Len(g)), t)
    BY <2>2
  <2> QED BY <2>3, <2>4
<1> QED BY <1>1, <1>2

(* Openings are sequences of tokens, and the empty one is among them.        *)
LEMMA OpeningsType ==
    /\ \A o \in Openings : \E s \in Language : \E l \in 0 .. Len(s) : o = SubSeq(s, 1, l)
    /\ <<>> \in Openings
<1>1. \A o \in Openings : \E s \in Language : \E l \in 0 .. Len(s) : o = SubSeq(s, 1, l)
  BY DEF Openings, Prefixes
<1>2. PICK s \in Language : TRUE
  BY <1>1, LanguageAssumption
<1>3. s \in Seq(Token) /\ SubSeq(s, 1, 0) = <<>> /\ 0 \in 0 .. Len(s)
  BY LanguageAssumption
<1>4. <<>> \in Openings
  BY <1>3 DEF Openings, Prefixes
<1> QED BY <1>1, <1>4

(* Accepting what is permitted keeps the grammar satisfied: a lazy one that   *)
(* wakes up does so on its trigger, which opens a sentence.                   *)
LEMMA Accepting ==
    ASSUME NEW g \in Seq(Token), NEW t \in Permitted(g), Follows(g), lazy \in BOOLEAN
    PROVE  Follows(Append(g, t))
<1>1. t \in Token /\ (Awake(g) => Append(Read(g), t) \in Openings)
  BY DEF Permitted
<1>2. CASE Awake(g)
  BY <1>1, <1>2, ReadGrows DEF Follows
<1>3. CASE ~ Awake(g)
  <2> DEFINE h == Append(g, t)  m == Place(h, Trigger)
  <2>1. lazy /\ ~ Contains(g, Trigger)
    BY <1>3 DEF Awake
  <2>2. SUFFICES ASSUME Awake(h) PROVE Read(h) \in Openings
    BY DEF Follows
  <2>3. h \in Seq(Token) /\ Len(h) = Len(g) + 1 /\ h[Len(g) + 1] = t
        /\ \A i \in 1 .. Len(g) : h[i] = g[i]
    BY <1>1
  <2>4. Contains(h, Trigger)
    BY <2>1, <2>2 DEF Awake
  <2> HIDE DEF h
  <2>5. m \in 1 .. Len(h) /\ h[m] = Trigger
    BY <2>3, <2>4, FirstPlace
  <2>6. Read(h) = SubSeq(h, m, Len(h))
    BY <2>1 DEF Read
  <2> HIDE DEF m
  <2>7. m = Len(h)
    BY <2>1, <2>3, <2>5 DEF Contains
  <2>8. SubSeq(h, m, Len(h)) = <<Trigger>>
    <3> DEFINE o == SubSeq(h, m, Len(h))
    <3>1. o \in Seq(Token) /\ Len(o) = 1 /\ o[1] = Trigger
      BY <2>3, <2>5, <2>7
    <3> HIDE DEF o
    <3>2. o = <<o[1]>>
      BY <3>1
    <3> QED BY <3>1, <3>2 DEF o
  <2> QED BY <2>6, <2>8, LanguageAssumption
<1> QED BY <1>2, <1>3

(* Until the generation has ended, the grammar always permits some token.     *)
LEMMA SomethingPermitted ==
    ASSUME NEW g \in Seq(Token), Follows(g), ~ Contains(g, Eog), lazy \in BOOLEAN
    PROVE  Permitted(g) # {}
<1>1. CASE ~ Awake(g)
  BY <1>1, SamplerAssumption DEF Permitted
<1>2. CASE Awake(g)
  <2>0. PICK s \in Language : \E l \in 0 .. Len(s) : Read(g) = SubSeq(s, 1, l)
    BY <1>2, OpeningsType DEF Follows
  <2>1. PICK l \in 0 .. Len(s) : Read(g) = SubSeq(s, 1, l)
    BY <2>0
  <2>2. s \in Seq(Token) /\ Len(s) \in Nat \ {0} /\ s[Len(s)] = Eog
    BY LanguageAssumption DEF Last
  <2>3. l # Len(s)
    <3> SUFFICES ASSUME l = Len(s) PROVE FALSE
      OBVIOUS
    <3>1. Read(g) = s
      BY <2>1, <2>2
    <3>2. CASE ~ lazy
      BY <2>2, <3>1, <3>2 DEF Read, Contains
    <3>3. CASE lazy
      <4> DEFINE k == Place(g, Trigger)
      <4>1. k \in 1 .. Len(g)
        BY <1>2, <3>3, FirstPlace DEF Awake
      <4>2. s = SubSeq(g, k, Len(g))
        BY <3>1, <3>3 DEF Read
      <4> HIDE DEF k
      <4>3. Len(s) = Len(g) - k + 1 /\ s[Len(s)] = g[Len(g)] /\ Len(g) \in 1 .. Len(g)
        BY <4>1, <4>2
      <4> QED BY <2>2, <4>3 DEF Contains
    <3> QED BY <3>2, <3>3
  <2>4. l + 1 \in 1 .. Len(s) /\ s[l + 1] \in Token
    BY <2>2, <2>3
  <2>5. Append(SubSeq(s, 1, l), s[l + 1]) = SubSeq(s, 1, l + 1)
    BY <2>2, <2>4
  <2>6. SubSeq(s, 1, l + 1) \in Openings
    BY <2>4 DEF Openings, Prefixes
  <2> QED BY <2>1, <2>4, <2>5, <2>6 DEF Permitted
<1> QED BY <1>1, <1>2

-----------------------------------------------------------------------------
(* The invariant, action by action.                                          *)

(* A chain is a list of stages, with a selector at its end only.             *)
LEMMA ChainType ==
    ASSUME TypeOK
    PROVE  /\ chain.stages \in Seq(Stages) /\ Len(chain.stages) \in Nat
           /\ \A n \in 1 .. Len(chain.stages) - 1 : chain.stages[n] \notin Selectors
           /\ \A n \in 1 .. Len(chain.stages) : chain.stages[n] \in Stages
<1>1. chain \in [stages : Seq(Stages), outside : BOOLEAN]
  BY ChainsAssumption DEF TypeOK
<1>2. chain.stages \in Seq(Stages)
  BY <1>1
<1>3. \A n \in 1 .. Len(chain.stages) - 1 : chain.stages[n] \notin Selectors
  BY ChainsAssumption DEF TypeOK
<1> QED BY <1>2, <1>3

(* A grammar that is not outside the chain has a place in it, and no stage    *)
(* before it drops a candidate or selects one.                               *)
LEMMA GrammarPlace ==
    ASSUME TypeOK, Constrained, ~ chain.outside
    PROVE  LET n == Position("grammar")
           IN  /\ n \in 1 .. Len(chain.stages) /\ chain.stages[n] = "grammar"
               /\ \A m \in 1 .. n - 1 : chain.stages[m] \in {"temp", "temp_ext", "penalties"}
<1> DEFINE n == Position("grammar")
<1>1. chain.stages \in Seq(Stages) /\ Contains(chain.stages, "grammar")
  BY ChainType DEF Constrained, GrammarFirst, HasGrammar
<1>2. /\ n \in 1 .. Len(chain.stages) /\ chain.stages[n] = "grammar"
      /\ \A m \in 1 .. n - 1 : chain.stages[m] # "grammar"
  BY <1>1, FirstPlace DEF Position
<1>3. \A m \in 1 .. n : chain.stages[m] \notin Truncating
  BY DEF Constrained, GrammarFirst
<1> HIDE DEF n
<1>4. ASSUME NEW m \in 1 .. n - 1
      PROVE  chain.stages[m] \in {"temp", "temp_ext", "penalties"}
  <2>1. m \in 1 .. Len(chain.stages) - 1 /\ m \in 1 .. Len(chain.stages) /\ m \in 1 .. n
    BY <1>1, <1>2
  <2>2. chain.stages[m] \in Stages /\ chain.stages[m] \notin Selectors
    BY <2>1, ChainType
  <2>3. chain.stages[m] \notin Truncating /\ chain.stages[m] # "grammar"
    BY <1>2, <1>3, <2>1
  <2> QED BY <2>2, <2>3 DEF Stages
<1> QED BY <1>2, <1>4 DEF n

(* The chain decides alone what is asked of it.                              *)
LEMMA SameChain ==
    ASSUME chain' = chain
    PROVE  /\ HasGrammar' = HasGrammar /\ Constrained' = Constrained
           /\ Position("grammar")' = Position("grammar")
BY DEF HasGrammar, Constrained, GrammarFirst, Position, Selector

(* An empty or typed array is what TypeOK asks for.                          *)
LEMMA TypeOfArray ==
    TypeOK => IsArray(data) /\ sorted \in BOOLEAN /\ selected \in 0 .. Len(data)
BY DEF TypeOK, IsArray, Distinct, Candidate

LEMMA SampleType ==
    ASSUME TypeOK, UNCHANGED <<chain, lazy, history, grammar, said>>, drawn' \in Token,
           slips' \subseteq Slips,
           IsArray(data'), sorted' \in BOOLEAN, selected' \in 0 .. Len(data'),
           at' \in 1 .. Len(chain.stages) + 1,
           pc' \in {"outside", "applying", "drawn", "asserted"}
    PROVE  TypeOK'
BY DEF TypeOK, IsArray, Distinct, Candidate, grammar

(* Steps outside a sample: what the grammar and its clone have read changes   *)
(* hands, and the rest is as it was.                                         *)
LEMMA QuietStep ==
    ASSUME IInv, UNCHANGED <<chain, array, at, drawn>>, slips' \subseteq Slips,
           pc' \in {"new", "building dry", "failed", "idle"}, lazy' \in BOOLEAN,
           history' \in Seq(Token), gram' \in Seq(Token), dry' \in Seq(Token),
           said' \in Seq(Token), GrammarInStep'
    PROVE  IInv'
<1>1. TypeOK'
  BY DEF IInv, TypeOK, array
<1>2. ArrayLawful'
  BY DEF ArrayLawful
<1>3. OnlyKnownAborts'
  BY DEF OnlyKnownAborts
<1> QED BY <1>1, <1>2, <1>3 DEF IInv

(* A grammar that has read nothing follows every language.                   *)
LEMMA NothingRead == ASSUME lazy \in BOOLEAN PROVE Follows(<<>>)
BY OpeningsType DEF Follows, Awake, Read, Contains

LEMMA BuildStep ==
    ASSUME IInv, BuildPlain \/ BuildGrammar \/ BuildGrammarLazy \/ BuildOutside \/ BuildDry
    PROVE  IInv'
<1>1. /\ UNCHANGED <<chain, history, grammar, array, at, drawn, said, slips>>
      /\ pc' \in {"building dry", "failed", "idle"}
  BY DEF BuildPlain, BuildGrammar, BuildGrammarLazy, BuildOutside, BuildDry, Built
<1>2. lazy' \in BOOLEAN
  BY DEF BuildPlain, BuildGrammar, BuildGrammarLazy, BuildOutside, BuildDry, IInv, TypeOK
<1>3. HasGrammar' = HasGrammar /\ Constrained' = Constrained
  BY <1>1, SameChain
<1>4. GrammarInStep'
  <2>1. CASE BuildDry
    BY <1>1, <1>3, <2>1 DEF BuildDry, IInv, GrammarInStep, Follows, Awake, Read, grammar
  <2>2. CASE ~ BuildDry
    <3>1. gram' = <<>> /\ spare' = {} /\ said' = said /\ gram = <<>> /\ slips' = slips
      BY <1>1, <2>2 DEF BuildPlain, BuildGrammar, BuildGrammarLazy, BuildOutside, IInv,
                        GrammarInStep, grammar
    <3>2. Follows(<<>>)'
      BY <1>2, OpeningsType DEF Follows, Awake, Read, Contains
    <3>3. HasGrammar /\ slips = {} => gram = said
      BY DEF IInv, GrammarInStep
    <3>4. pc' # "new"
      BY <1>1
    <3> QED BY <1>3, <3>1, <3>2, <3>3, <3>4 DEF GrammarInStep
  <2> QED BY <2>1, <2>2
<1>5. history' \in Seq(Token) /\ gram' \in Seq(Token) /\ dry' \in Seq(Token)
      /\ said' \in Seq(Token) /\ slips' \subseteq Slips
  BY <1>1 DEF IInv, TypeOK, grammar
<1>6. UNCHANGED <<chain, array, at, drawn>>
  BY <1>1
<1>7. pc' \in {"new", "building dry", "failed", "idle"}
  BY <1>1
<1> QED BY <1>2, <1>4, <1>5, <1>6, <1>7, QuietStep

(* Going on keeps the grammar in step; starting over does when the grammar    *)
(* has read nothing, and is recorded when it has.                            *)
LEMMA NextGeneration ==
    ASSUME IInv, chain' = chain, lazy' = lazy, gram' = gram, pc = "idle", pc' = "idle",
           GoOn \/ StartOver
    PROVE  GrammarInStep' /\ said' \in Seq(Token) /\ slips' \subseteq Slips
<1>1. HasGrammar' = HasGrammar /\ Constrained' = Constrained
  BY SameChain
<1>2. TypeOK /\ GrammarInStep
  BY DEF IInv
<1>3. CASE GoOn
  BY <1>1, <1>2, <1>3 DEF GoOn, TypeOK, GrammarInStep, Follows, Awake, Read
<1>4. CASE StartOver
  <2>1. said' = <<>> /\ spare' = {} /\ slips' = IF gram = <<>> THEN {} ELSE {"carried"}
    BY <1>4 DEF StartOver
  <2>2. said' \in Seq(Token) /\ slips' \subseteq Slips
    BY <2>1 DEF Slips
  <2>3. lazy' \in BOOLEAN
    BY <1>2 DEF TypeOK
  <2>4. Follows(<<>>)'
    BY <2>3, OpeningsType DEF Follows, Awake, Read, Contains
  <2>5. slips' = {} => gram' = <<>> /\ said' = <<>>
    BY <2>1
  <2>6. ~ HasGrammar => gram' = <<>>
    BY <1>2 DEF GrammarInStep
  <2>7. slips' = {} => Follows(gram)'
    <3>1. gram' = <<>> => Follows(gram)' = Follows(<<>>)'
      BY DEF Follows, Awake, Read
    <3> QED BY <2>4, <2>5, <3>1
  <2>8. GrammarInStep'
    BY <1>1, <2>1, <2>5, <2>6, <2>7 DEF GrammarInStep
  <2> QED BY <2>2, <2>8
<1> QED BY <1>3, <1>4

LEMMA BetweenSamples ==
    ASSUME IInv, Reset \/ ChainSimple \/ ResetDry \/ DropAll \/ Clone \/ Rollback
    PROVE  IInv'
<1> USE DEF IInv
<1>0. /\ history \in Seq(Token) /\ <<>> \in Seq(Token) /\ lazy \in BOOLEAN
      /\ dry \in Seq(Token) /\ gram \in Seq(Token) /\ said \in Seq(Token)
      /\ slips \subseteq Slips
  <2>1. <<>> \in Seq(Token)
    OBVIOUS
  <2> QED BY <2>1 DEF TypeOK
<1>1. /\ UNCHANGED <<chain, lazy, array, at, drawn>> /\ pc = "idle"
      /\ pc' \in {"new", "idle"} /\ history' \in Seq(Token) /\ lazy' \in BOOLEAN
  BY <1>0 DEF Reset, ChainSimple, ResetDry, DropAll, Clone, Rollback
<1>2. HasGrammar' = HasGrammar /\ Constrained' = Constrained
  BY <1>1, SameChain
<1>3. CASE Reset \/ ChainSimple
  <2>1. /\ UNCHANGED <<gram, dry, lazy, chain>> /\ pc' = "idle" /\ (GoOn \/ StartOver)
    BY <1>3 DEF Reset, ChainSimple
  <2>2. GrammarInStep' /\ said' \in Seq(Token) /\ slips' \subseteq Slips
    BY <1>1, <2>1, NextGeneration
  <2>3. gram' \in Seq(Token) /\ dry' \in Seq(Token)
    BY <1>0, <2>1
  <2> QED BY <1>1, <2>1, <2>2, <2>3, QuietStep
<1>4. CASE ResetDry
  <2>1. /\ UNCHANGED <<gram, spare, said, slips>> /\ dry' \in Seq(Token) /\ pc' = "idle"
        /\ gram' \in Seq(Token) /\ said' \in Seq(Token) /\ slips' \subseteq Slips
    BY <1>0, <1>4 DEF ResetDry
  <2>2. GrammarInStep'
    BY <1>1, <1>2, <2>1 DEF GrammarInStep, Follows, Awake, Read
  <2> QED BY <1>1, <2>1, <2>2, QuietStep
<1>5. CASE DropAll
  <2>1. /\ gram' = <<>> /\ spare' = {} /\ dry' = <<>> /\ said' = <<>> /\ slips' = {}
        /\ pc' = "new"
    BY <1>5 DEF DropAll
  <2>2. Follows(<<>>)'
    BY <1>1, OpeningsType DEF Follows, Awake, Read, Contains
  <2>3. GrammarInStep'
    BY <1>2, <2>1, <2>2 DEF GrammarInStep
  <2>4. gram' \in Seq(Token) /\ dry' \in Seq(Token) /\ said' \in Seq(Token)
        /\ slips' \subseteq Slips
    BY <1>0, <2>1
  <2> QED BY <1>1, <2>1, <2>3, <2>4, QuietStep
<1>6. CASE Clone
  <2> DEFINE clone == [gram |-> gram, dry |-> dry, said |-> said]
  <2>1. /\ UNCHANGED <<gram, said, dry, slips>> /\ dry' \in Seq(Token) /\ pc' = "idle"
        /\ gram' \in Seq(Token) /\ said' \in Seq(Token) /\ slips' \subseteq Slips
        /\ spare' \subseteq {clone}
    BY <1>0, <1>6 DEF Clone
  <2>2. /\ clone \in [gram : Seq(Token), dry : Seq(Token), said : Seq(Token)]
        /\ clone.gram = gram /\ clone.said = said
    BY <1>0
  <2> HIDE DEF clone
  <2>3. \A c \in spare' : c = clone
    BY <2>1
  <2>4. GrammarInStep'
    <3>1. GrammarInStep /\ HasGrammar
      BY <1>6 DEF Clone, HasGrammar
    <3>2. \A g : Follows(g)' = Follows(g)
      BY <1>1 DEF Follows, Awake, Read
    <3>3. \A c \in spare' : c.gram = gram /\ c.said = said
      BY <2>2, <2>3
    <3>4. spare' \subseteq [gram : Seq(Token), dry : Seq(Token), said : Seq(Token)]
      BY <2>2, <2>3
    <3>5. Constrained /\ slips = {} => Follows(gram)
      BY <3>1 DEF GrammarInStep
    <3>6. Constrained' /\ slips' = {} => Follows(gram)' /\ \A c \in spare' : Follows(c.gram)'
      BY <1>2, <2>1, <3>2, <3>3, <3>5 DEF Follows, Awake, Read
    <3>7. HasGrammar /\ slips = {} => gram = said
      BY <3>1 DEF GrammarInStep
    <3> QED BY <1>2, <2>1, <3>1, <3>3, <3>4, <3>6, <3>7 DEF GrammarInStep
  <2> QED BY <1>1, <2>1, <2>4, QuietStep
<1>7. CASE Rollback
  <2>1. PICK clone \in spare : gram' = clone.gram /\ dry' = clone.dry /\ said' = clone.said
    BY <1>7 DEF Rollback
  <2>2. clone \in [gram : Seq(Token), dry : Seq(Token), said : Seq(Token)]
    BY DEF GrammarInStep
  <2>3. /\ spare' = {} /\ gram' \in Seq(Token) /\ dry' \in Seq(Token) /\ said' \in Seq(Token)
        /\ slips' = slips /\ slips' \subseteq Slips /\ pc' = "idle"
    BY <1>0, <1>7, <2>1, <2>2 DEF Rollback
  <2>4. HasGrammar /\ slips = {} => clone.gram = clone.said
    BY DEF GrammarInStep
  <2>5. HasGrammar
    BY DEF GrammarInStep
  <2>6. Constrained /\ slips = {} => Follows(gram)'
    BY <1>1, <2>1 DEF GrammarInStep, Follows, Awake, Read
  <2>7. GrammarInStep'
    BY <1>2, <2>1, <2>3, <2>4, <2>5, <2>6 DEF GrammarInStep
  <2> QED BY <1>1, <2>3, <2>7, QuietStep
<1> QED BY <1>3, <1>4, <1>5, <1>6, <1>7

(* The candidates from a row of logits are the vocabulary, or none.          *)
LEMMA LogitsArray ==
    ASSUME NEW logits \in [1 .. Vocab -> 1 .. Levels] \cup {<<>>}
    PROVE  LET a == FromLogits(logits)
           IN  IsArray(a) /\ (a # <<>> => Drawable(a) = Token)
<1> DEFINE a == FromLogits(logits)
<1>1. CASE logits = <<>>
  <2>1. a = <<>>
    BY <1>1 DEF FromLogits
  <2> QED BY <2>1 DEF IsArray, Distinct
<1>2. CASE logits \in [1 .. Vocab -> 1 .. Levels]
  <2>0. Vocab \in Nat /\ Levels \in Nat
    BY SamplerAssumption
  <2>1. Len(logits) = Vocab
    BY <1>2, <2>0
  <2>2. a = [i \in 1 .. Vocab |-> [id |-> i - 1, logit |-> logits[i]]]
    BY <2>1 DEF FromLogits
  <2> HIDE DEF a
  <2>3. \A i \in 1 .. Vocab : a[i] \in Candidate /\ a[i].id = i - 1 /\ a[i].logit # 0
    BY <1>2, <2>0, <2>2 DEF Candidate, Token
  <2>4. a \in [1 .. Vocab -> Candidate]
    BY <2>2, <2>3
  <2>5. a \in Seq(Candidate) /\ Len(a) = Vocab
    BY <2>0, <2>4
  <2>6. IsArray(a)
    BY <2>0, <2>3, <2>5 DEF IsArray, Distinct
  <2>7. Drawable(a) \subseteq Token
    BY <2>6, CandidateType DEF Drawable
  <2>8. ASSUME NEW t \in Token PROVE t \in Drawable(a)
    <3>1. t + 1 \in 1 .. Len(a) /\ a[t + 1].id = t /\ a[t + 1].logit # Masked
      BY <2>0, <2>3, <2>5 DEF Token, Masked
    <3> QED BY <3>1 DEF Drawable
  <2> QED BY <2>6, <2>7, <2>8 DEF a
<1> QED BY <1>1, <1>2

(* A shuffle of an array is an array that offers the same.                   *)
LEMMA ShuffledArray ==
    ASSUME NEW a, IsArray(a), NEW b \in Shuffles(a)
    PROVE  IsArray(b) /\ Drawable(b) = Drawable(a) /\ (a = <<>> <=> b = <<>>)
<1>1. /\ IsArray(b) /\ Len(b) = Len(a)
      /\ \A i \in 1 .. Len(b) : \E j \in 1 .. Len(a) : b[i] = a[j]
      /\ \A i \in 1 .. Len(a) : \E j \in 1 .. Len(b) : a[i] = b[j]
  BY Shuffled
<1>2. Drawable(b) = Drawable(a)
  BY <1>1, SameDrawable
<1>3. a = <<>> <=> b = <<>>
  BY <1>1 DEF IsArray
<1> QED BY <1>1, <1>2, <1>3

LEMMA CandidatesStep ==
    ASSUME IInv, NEW logits \in [1 .. Vocab -> 1 .. Levels] \cup {<<>>},
           NEW in_order \in BOOLEAN, Candidates(logits, in_order)
    PROVE  IInv'
<1> DEFINE a == FromLogits(logits)
<1>1. /\ UNCHANGED <<chain, lazy, history, grammar, at, drawn, said, slips>>
      /\ sorted' = in_order /\ selected' = 0 /\ pc' = "outside"
      /\ ~ Contains(said, Eog)
  BY DEF Candidates, Nothing
<1>2. IsArray(a) /\ (a # <<>> => Drawable(a) = Token)
  BY LogitsArray
<1>3. data' \in Shuffles(a) \/ data' = a
  BY DEF Candidates
<1> HIDE DEF a
<1>4. IsArray(data') /\ (data' # <<>> => Drawable(data') = Token)
  <2>1. CASE data' = a
    BY <1>2, <2>1
  <2>2. CASE data' \in Shuffles(a)
    <3>1. IsArray(data') /\ Drawable(data') = Drawable(a) /\ (a = <<>> <=> data' = <<>>)
      BY <1>2, <2>2, ShuffledArray
    <3> QED BY <1>2, <3>1
  <2> QED BY <1>3, <2>1, <2>2
<1>5. HasGrammar' = HasGrammar /\ Constrained' = Constrained
  BY <1>1, SameChain
<1>6. TypeOK'
  <2>1. Len(data') \in Nat
    BY <1>4 DEF IsArray
  <2>2. selected' \in 0 .. Len(data') /\ sorted' \in BOOLEAN
    BY <1>1, <2>1
  <2>3. at' \in 1 .. Len(chain.stages) + 1 /\ TypeOK /\ drawn' \in Token /\ slips' \subseteq Slips
    BY <1>1 DEF IInv, TypeOK
  <2> QED BY <1>1, <1>4, <2>2, <2>3, SampleType
<1>7. GrammarInStep'
  BY <1>1, <1>5 DEF IInv, GrammarInStep, Follows, Awake, Read, grammar
<1>8. ArrayLawful'
  <2>1. Drawable(data)' = Drawable(data')
    BY DEF Drawable
  <2> QED BY <1>1, <1>4, <1>5, <2>1 DEF ArrayLawful, Nothing
<1>9. OnlyKnownAborts'
  BY <1>1 DEF OnlyKnownAborts
<1> QED BY <1>6, <1>7, <1>8, <1>9 DEF IInv

(* Taking an array back from the library.                                    *)
LEMMA Synced ==
    ASSUME NEW left, LeftOK(left), Sync(left)
    PROVE  /\ IsArray(data') /\ data' = left.data /\ sorted' \in BOOLEAN
           /\ selected' \in 0 .. Len(data')
           /\ left.selected \in 0 .. Len(data') => selected' = left.selected
<1>1. data' = left.data /\ sorted' = left.sorted
      /\ selected' = IF left.selected <= Len(left.data) THEN left.selected ELSE 0
  BY DEF Sync, Nothing
<1>2. Len(left.data) \in Nat /\ left.selected \in Nat
  BY CandidateType DEF LeftOK
<1> QED BY <1>1, <1>2 DEF LeftOK

LEMMA PenaliseOutsideStep == IInv /\ PenaliseOutside => IInv'
<1> SUFFICES ASSUME IInv, PenaliseOutside PROVE IInv'
  OBVIOUS
<1> DEFINE left == PenalisedBy(said)
<1>1. /\ UNCHANGED <<chain, lazy, history, grammar, pc, at, drawn, said, slips>>
      /\ Sync(left) /\ pc = "outside"
  BY DEF PenaliseOutside
<1>2. /\ selected = 0 /\ ~ Contains(said, Eog) /\ IsArray(data) /\ sorted \in BOOLEAN
  BY <1>1, TypeOfArray DEF IInv, ArrayLawful, Nothing
<1>3. /\ IsArray(left.data) /\ left.sorted \in BOOLEAN /\ left.selected = selected
      /\ Drawable(left.data) = Drawable(data)
      /\ data = <<>> <=> left.data = <<>>
  BY <1>2, PenalisedArray
<1> HIDE DEF left
<1>4. LeftOK(left)
  BY <1>2, <1>3 DEF LeftOK
<1>5. /\ IsArray(data') /\ sorted' \in BOOLEAN /\ selected' \in 0 .. Len(data')
      /\ data' = left.data /\ selected' = 0
  <2>1. Len(left.data) \in Nat
    BY <1>3, CandidateType
  <2> QED BY <1>1, <1>2, <1>3, <1>4, <2>1, Synced
<1>6. HasGrammar' = HasGrammar /\ Constrained' = Constrained
  BY <1>1, SameChain
<1>7. TypeOK'
  <2>1. /\ at' \in 1 .. Len(chain.stages) + 1 /\ TypeOK /\ drawn' \in Token
        /\ slips' \subseteq Slips
    BY <1>1 DEF IInv, TypeOK
  <2> QED BY <1>1, <1>5, <2>1, SampleType
<1>8. GrammarInStep'
  BY <1>1, <1>6 DEF IInv, GrammarInStep, Follows, Awake, Read, grammar
<1>9. Constrained /\ data # <<>> => Drawable(data) = Token
  BY <1>1 DEF IInv, ArrayLawful
<1>10. ArrayLawful'
  <2>1. Drawable(data)' = Drawable(data')
    BY DEF Drawable
  <2> QED BY <1>1, <1>2, <1>3, <1>5, <1>6, <1>9, <2>1 DEF ArrayLawful, Nothing
<1>11. OnlyKnownAborts'
  BY <1>1 DEF OnlyKnownAborts
<1> QED BY <1>7, <1>8, <1>10, <1>11 DEF IInv

(* The caller's grammar masks the candidates before the chain runs, and DRY   *)
(* penalises some of what is left.                                           *)
LEMMA ApplyOutsideStep == IInv /\ ApplyOutside => IInv'
<1> SUFFICES ASSUME IInv, ApplyOutside PROVE IInv'
  OBVIOUS
<1> DEFINE a == GrammarApply(data)  b == DryApply(a)
<1>1. /\ UNCHANGED <<chain, lazy, history, grammar, sorted, selected, drawn, said, slips>>
      /\ pc = "outside" /\ pc' = "applying" /\ at' = 1 /\ data' = b
  BY DEF ApplyOutside
<1>2. /\ sorted \in BOOLEAN /\ selected = 0 /\ ~ Contains(said, Eog)
      /\ IsArray(data) /\ Len(data) \in Nat
  BY <1>1, TypeOfArray, CandidateType DEF IInv, ArrayLawful, Nothing
<1>3. /\ HasGrammar' = HasGrammar /\ Constrained' = Constrained
      /\ Position("grammar")' = Position("grammar")
  BY <1>1, SameChain
<1>4. TypeOK /\ 1 \in 1 .. Len(chain.stages) + 1 /\ drawn' \in Token /\ slips' \subseteq Slips
  <2>1. TypeOK
    BY DEF IInv
  <2>2. Len(chain.stages) \in Nat
    BY <2>1, ChainType
  <2>3. drawn' \in Token /\ slips' \subseteq Slips
    BY <1>1, <2>1 DEF TypeOK
  <2> QED BY <2>1, <2>2, <2>3
<1>5. GrammarInStep'
  BY <1>1, <1>3 DEF IInv, GrammarInStep, Follows, Awake, Read, grammar
<1>6. Constrained /\ data # <<>> => Drawable(data) = Token
  BY <1>1 DEF IInv, ArrayLawful
<1>7. Drawable(data)' = Drawable(data')
  BY DEF Drawable
<1>8. OnlyKnownAborts'
  BY <1>1 DEF OnlyKnownAborts
<1>9. CASE ~ chain.outside
  <2>1. data' = data
    BY <1>1, <1>9 DEF GrammarApply, DryApply
  <2>2. TypeOK'
    BY <1>1, <1>2, <1>4, <2>1, TypeOfArray, SampleType
  <2>3. Constrained => ~ PastGrammar'
    <3> SUFFICES ASSUME Constrained PROVE ~ PastGrammar'
      OBVIOUS
    <3>1. Position("grammar") \in 1 .. Len(chain.stages)
      BY <1>4, <1>9, GrammarPlace
    <3> QED BY <1>1, <1>3, <1>9, <3>1 DEF PastGrammar
  <2>4. ArrayLawful'
    BY <1>1, <1>2, <1>3, <1>6, <1>7, <2>1, <2>3 DEF ArrayLawful, Nothing
  <2> QED BY <1>5, <1>8, <2>2, <2>4 DEF IInv
<1>10. CASE chain.outside
  <2>1. a = Mask(data) /\ b = Penalise(a, Repeats(dry))
    BY <1>10 DEF GrammarApply, DryApply
  <2>2. /\ IsArray(a) /\ Len(a) = Len(data)
        /\ \A i \in 1 .. Len(data) :
              /\ a[i].id = data[i].id
              /\ a[i].logit = IF data[i].id \in Permitted(gram) THEN data[i].logit ELSE Masked
    BY <1>2, <2>1, Masking
  <2> HIDE DEF a
  <2>3. /\ IsArray(b) /\ Len(b) = Len(a)
        /\ \A i \in 1 .. Len(a) : /\ b[i].id = a[i].id
                                  /\ b[i].logit = Masked <=> a[i].logit = Masked
    BY <2>1, <2>2, Penalising
  <2> HIDE DEF b
  <2>4. Drawable(a) = Drawable(data) \cap Permitted(gram)
    BY <2>2 DEF Drawable
  <2>5. Drawable(b) = Drawable(a)
    BY <2>3 DEF Drawable
  <2>6. b # <<>> => data # <<>>
    BY <1>2, <2>2, <2>3 DEF IsArray
  <2>7. TypeOK'
    <3>1. IsArray(data') /\ sorted' \in BOOLEAN
      BY <1>1, <1>2, <2>3
    <3>2. selected' \in 0 .. Len(data')
      BY <1>1, <1>2, <2>2, <2>3
    <3> QED BY <1>1, <1>4, <3>1, <3>2, SampleType
  <2>8. Permitted(gram)' = Permitted(gram)
    BY <1>1 DEF Permitted, Awake, Read, grammar
  <2>9. ASSUME Constrained, slips = {}, b # <<>>
         PROVE  Drawable(b) # {} /\ Drawable(b) \subseteq Permitted(gram)
    <3>1. Drawable(data) = Token
      BY <1>6, <2>6, <2>9
    <3>2. gram \in Seq(Token) /\ lazy \in BOOLEAN /\ gram = said /\ Follows(gram)
      BY <2>9 DEF IInv, TypeOK, GrammarInStep, Constrained, GrammarFirst
    <3>3. Permitted(gram) # {} /\ Permitted(gram) \subseteq Token
      BY <1>2, <3>2, SomethingPermitted DEF Permitted
    <3> QED BY <2>4, <2>5, <3>1, <3>3
  <2>10. PastGrammar'
    BY <1>1, <1>10 DEF PastGrammar
  <2>11. ArrayLawful'
    BY <1>1, <1>2, <1>3, <1>7, <2>8, <2>9, <2>10 DEF ArrayLawful, Nothing
  <2> QED BY <1>5, <1>8, <2>7, <2>11 DEF IInv
<1> QED BY <1>9, <1>10

(* Every stage hands back an array, and only a selector an index into it.     *)
LEMMA AnyStage ==
    ASSUME ArrayOK, NEW stage \in Stages, NEW left \in Run(stage)
    PROVE  /\ LeftOK(left)
           /\ stage # "tail_free" => left.data # <<>>
           /\ stage \notin Selectors => left.selected = selected
           /\ stage \in {"temp", "temp_ext", "penalties"} => Drawable(left.data) = Drawable(data)
           /\ stage = "grammar" => Drawable(left.data) = Drawable(data) \cap Permitted(gram)
           /\ stage # "grammar" /\ stage # "dist" /\ (stage \in Ordering => Honest) =>
                /\ Drawable(left.data) \subseteq Drawable(data)
                /\ Drawable(data) # {} /\ left.data # <<>> => Drawable(left.data) # {}
           /\ stage = "greedy" =>
                /\ left.data = data /\ left.selected \in 1 .. Len(data)
                /\ Drawable(data) # {} => data[left.selected].id \in Drawable(data)
<1>1. CASE stage = "top_k"
  <2>1. left \in TopK /\ stage \in Ordering
    BY <1>1 DEF Run, Ordering, Truncating
  <2> QED BY <1>1, <2>1, TopKStage
<1>2. CASE stage = "truncate"
  <2>1. left \in Truncate /\ stage \in Ordering
    BY <1>2 DEF Run, Ordering, Truncating
  <2> QED BY <1>2, <2>1, TruncateStage
<1>3. CASE stage = "tail_free"
  <2>1. left \in TailFree /\ stage \in Ordering
    BY <1>3 DEF Run, Ordering, Truncating
  <2> QED BY <1>3, <2>1, TailFreeStage
<1>4. CASE stage \in {"temp", "temp_ext", "penalties"}
  <2>1. left \in Temp \cup TempExt \cup Penalties
    BY <1>4 DEF Run
  <2> QED BY <1>4, <2>1, KeepingStage
<1>5. CASE stage = "grammar"
  <2>1. left \in Grammar
    BY <1>5 DEF Run
  <2> QED BY <1>5, <2>1, GrammarStage
<1>6. CASE stage = "dist"
  <2>1. left \in Dist
    BY <1>6 DEF Run
  <2> QED BY <1>6, <2>1, DistStage DEF Selectors
<1>7. CASE stage = "greedy"
  <2>1. left \in Greedy
    BY <1>7 DEF Run
  <2>2. ArrayOK => data # <<>>
    BY DEF ArrayOK
  <2> QED BY <1>7, <2>1, <2>2, GreedyStage DEF Selectors
<1> QED BY <1>1, <1>2, <1>3, <1>4, <1>5, <1>6, <1>7 DEF Stages, Selectors, Truncating

(* Where a stage is about to run.                                            *)
LEMMA AtStage ==
    ASSUME IInv, ApplyStage
    PROVE  /\ UNCHANGED <<chain, lazy, history, grammar, drawn, said>>
           /\ pc = "applying" /\ at' = at + 1 /\ (at = 1 => data # <<>>)
           /\ TypeOK /\ Len(chain.stages) \in Nat /\ at \in 1 .. Len(chain.stages)
           /\ at' \in 1 .. Len(chain.stages) + 1 /\ chain.stages[at] \in Stages
           /\ at < Len(chain.stages) => chain.stages[at] \notin Selectors
           /\ IsArray(data) /\ sorted \in BOOLEAN /\ selected = 0
           /\ ~ Contains(said, Eog)
           /\ HasGrammar' = HasGrammar /\ Constrained' = Constrained
           /\ Position("grammar")' = Position("grammar")
           /\ Permitted(gram)' = Permitted(gram) /\ drawn' \in Token
           /\ slips \subseteq Slips
<1>1. /\ UNCHANGED <<chain, lazy, history, grammar, drawn, said>>
      /\ pc = "applying" /\ at' = at + 1 /\ at <= Len(chain.stages)
      /\ at = 1 => data # <<>>
  BY DEF ApplyStage
<1>2. TypeOK /\ Len(chain.stages) \in Nat /\ at \in 1 .. Len(chain.stages) + 1
  BY ChainType DEF IInv, TypeOK
<1>3. at \in 1 .. Len(chain.stages) /\ at' \in 1 .. Len(chain.stages) + 1
  BY <1>1, <1>2
<1>4. at < Len(chain.stages) => at \in 1 .. Len(chain.stages) - 1
  BY <1>2, <1>3
<1>5. /\ chain.stages[at] \in Stages
      /\ at < Len(chain.stages) => chain.stages[at] \notin Selectors
  BY <1>2, <1>3, <1>4, ChainType
<1>6. /\ IsArray(data) /\ sorted \in BOOLEAN /\ selected = 0 /\ ~ Contains(said, Eog)
  BY <1>1, <1>2, TypeOfArray DEF IInv, ArrayLawful, Nothing
<1>7. /\ HasGrammar' = HasGrammar /\ Constrained' = Constrained
      /\ Position("grammar")' = Position("grammar")
  BY <1>1, SameChain
<1>8. Permitted(gram)' = Permitted(gram)
  BY <1>1 DEF Permitted, Awake, Read, grammar
<1>9. drawn' \in Token /\ slips \subseteq Slips
  BY <1>1, <1>2 DEF TypeOK
<1> QED BY <1>1, <1>2, <1>3, <1>5, <1>6, <1>7, <1>8, <1>9

(* The empty array stays empty to the end of the chain.                      *)
LEMMA StillEmpty ==
    ASSUME NEW p \in Nat, NEW q, q = p + 1, MayBeEmpty(p)
    PROVE  MayBeEmpty(q)
<1>1. 1 .. p - 1 \subseteq 1 .. q - 1
  OBVIOUS
<1> QED BY <1>1 DEF MayBeEmpty

(* A stage on an empty array: a selector selects nothing, the library may     *)
(* abort at any other, and nothing changes.                                  *)
LEMMA EmptyStageStep ==
    ASSUME IInv, ApplyStage, data = <<>>
    PROVE  IInv'
<1>1. /\ UNCHANGED <<chain, lazy, history, grammar, drawn, said>>
      /\ pc = "applying" /\ at' = at + 1 /\ at # 1 /\ at \in Nat
      /\ TypeOK /\ at' \in 1 .. Len(chain.stages) + 1
      /\ IsArray(data) /\ sorted \in BOOLEAN /\ selected = 0 /\ ~ Contains(said, Eog)
      /\ HasGrammar' = HasGrammar /\ Constrained' = Constrained
      /\ drawn' \in Token /\ slips \subseteq Slips
  BY AtStage
<1>2. /\ IsArray(data') /\ data' = <<>> /\ sorted' \in BOOLEAN /\ selected' = 0
      /\ pc' \in {"asserted", "applying"} /\ slips' \subseteq Slips
      /\ slips' = {} => slips = {}
  <2>1. CASE Stage(at) \in Selectors
    <3>1. PICK left \in Run(Stage(at)) : Sync(left)
      BY <2>1 DEF ApplyStage
    <3>2. LeftOK(left) /\ left.data = <<>> /\ left.selected = 0
      BY <1>1, <2>1, <3>1, EmptyStage
    <3>3. /\ IsArray(data') /\ data' = <<>> /\ sorted' \in BOOLEAN
          /\ selected' \in 0 .. Len(data')
      BY <3>1, <3>2, Synced
    <3>4. selected' = 0
      BY <3>3
    <3>5. pc' = pc /\ slips' \in {slips, slips \cup {"misled"}}
      BY <2>1 DEF ApplyStage
    <3>6. slips' \subseteq Slips
      BY <1>1, <3>5 DEF Slips
    <3> QED BY <1>1, <3>3, <3>4, <3>5, <3>6
  <2>2. CASE Stage(at) \notin Selectors
    <3>1. RunOnNothing /\ slips' = slips
      BY <2>2 DEF ApplyStage
    <3> QED BY <1>1, <3>1 DEF RunOnNothing, array
  <2> QED BY <2>1, <2>2
<1>3. TypeOK'
  <2>1. selected' \in 0 .. Len(data')
    BY <1>2
  <2> QED BY <1>1, <1>2, <2>1, SampleType
<1>4. GrammarInStep'
  BY <1>1, <1>2 DEF IInv, GrammarInStep, Follows, Awake, Read, grammar
<1>5. MayBeEmpty(at) /\ MayBeEmpty(at)' /\ MayBeEmpty(at - 1)' = MayBeEmpty(at)
  <2>1. MayBeEmpty(at)
    BY <1>1 DEF IInv, ArrayLawful
  <2>2. MayBeEmpty(at') = MayBeEmpty(at)'
    BY <1>1 DEF MayBeEmpty
  <2>3. MayBeEmpty(at')
    BY <1>1, <2>1, StillEmpty
  <2>4. at' - 1 = at
    BY <1>1
  <2>5. MayBeEmpty(at - 1)' = MayBeEmpty(at' - 1)
    BY <1>1 DEF MayBeEmpty
  <2> QED BY <2>1, <2>2, <2>3, <2>4, <2>5
<1>6. ArrayLawful'
  BY <1>1, <1>2, <1>5 DEF ArrayLawful, Nothing
<1>7. OnlyKnownAborts'
  BY <1>2, <1>5 DEF OnlyKnownAborts
<1> QED BY <1>3, <1>4, <1>6, <1>7 DEF IInv

(* What a stage that is not misled does to a constrained array: the grammar's *)
(* mask holds from its place on, and a selector selects what is permitted.    *)
LEMMA ConstrainedStage ==
    ASSUME IInv, ApplyStage, data # <<>>, NEW left \in Run(chain.stages[at]),
           left.data # <<>>, Constrained, slips = {},
           chain.stages[at] \in Ordering => Honest
    PROVE  /\ at + 1 > Position("grammar") \/ chain.outside =>
                 Drawable(left.data) # {} /\ Drawable(left.data) \subseteq Permitted(gram)
           /\ ~ (at + 1 > Position("grammar") \/ chain.outside) =>
                 Drawable(left.data) = Token
           /\ left.selected # 0 =>
                 /\ left.data = data /\ left.selected \in 1 .. Len(data)
                 /\ left.data[left.selected].id \in Permitted(gram)
<1> DEFINE n == Len(chain.stages)  stage == chain.stages[at]  a == left.data
<1>1. /\ pc = "applying" /\ TypeOK /\ n \in Nat /\ at \in 1 .. n /\ stage \in Stages
      /\ at < n => stage \notin Selectors
      /\ IsArray(data) /\ sorted \in BOOLEAN /\ selected = 0 /\ ~ Contains(said, Eog)
  BY AtStage
<1>2. ArrayOK
  <2>1. Len(data) \in Nat
    BY <1>1, CandidateType
  <2> QED BY <1>1, <2>1 DEF ArrayOK
<1>3. stage # "dist"
  <2>1. CASE at = n
    BY <1>1, <2>1 DEF Constrained, Selector, Last
  <2>2. CASE at < n
    BY <1>1, <2>2 DEF Selectors
  <2> QED BY <1>1, <2>1, <2>2
<1>4. /\ PastGrammar => Drawable(data) # {} /\ Drawable(data) \subseteq Permitted(gram)
      /\ ~ PastGrammar => Drawable(data) = Token
  BY <1>1 DEF IInv, ArrayLawful
<1> HIDE DEF stage
<1>5. /\ stage \notin Selectors => left.selected = 0
      /\ stage \in {"temp", "temp_ext", "penalties"} => Drawable(a) = Drawable(data)
      /\ stage = "grammar" => Drawable(a) = Drawable(data) \cap Permitted(gram)
      /\ stage # "grammar" => /\ Drawable(a) \subseteq Drawable(data)
                              /\ Drawable(data) # {} => Drawable(a) # {}
      /\ stage = "greedy" =>
           /\ a = data /\ left.selected \in 1 .. Len(data)
           /\ Drawable(data) # {} => data[left.selected].id \in Drawable(data)
  <2>1. left \in Run(stage) /\ (stage \in Ordering => Honest)
    BY DEF stage
  <2> QED BY <1>1, <1>2, <1>3, <2>1, AnyStage
<1>6. Permitted(gram) # {} /\ Permitted(gram) \subseteq Token
  <2>1. gram \in Seq(Token) /\ lazy \in BOOLEAN /\ gram = said /\ Follows(gram)
    BY DEF IInv, TypeOK, GrammarInStep, Constrained, GrammarFirst
  <2> QED BY <1>1, <2>1, SomethingPermitted DEF Permitted
<1> HIDE DEF n, a
<1>7. left.selected # 0 => stage = "greedy"
  BY <1>3, <1>5 DEF Selectors
<1>8. CASE PastGrammar
  <2>1. Drawable(a) # {} /\ Drawable(a) \subseteq Permitted(gram)
    <3>1. CASE stage = "grammar"
      <4>1. Drawable(a) = Drawable(data)
        BY <1>4, <1>5, <1>8, <3>1
      <4> QED BY <1>4, <1>8, <4>1
    <3>2. CASE stage # "grammar"
      <4>1. Drawable(data) # {} /\ Drawable(data) \subseteq Permitted(gram)
        BY <1>4, <1>8
      <4>2. Drawable(a) \subseteq Drawable(data) /\ Drawable(a) # {}
        BY <1>5, <3>2, <4>1
      <4> QED BY ONLY <4>1, <4>2
    <3> QED BY <3>1, <3>2
  <2>2. at + 1 > Position("grammar") \/ chain.outside
    <3>1. CASE chain.outside
      BY <3>1
    <3>2. CASE ~ chain.outside
      <4>1. Position("grammar") \in 1 .. Len(chain.stages) /\ at > Position("grammar")
        BY <1>1, <1>8, <3>2, GrammarPlace DEF PastGrammar
      <4> QED BY <1>1, <4>1
    <3> QED BY <3>1, <3>2
  <2>3. ASSUME left.selected # 0
        PROVE  a = data /\ left.selected \in 1 .. Len(data)
               /\ a[left.selected].id \in Permitted(gram)
    <3>1. a = data /\ left.selected \in 1 .. Len(data)
          /\ data[left.selected].id \in Drawable(data)
      BY <1>4, <1>5, <1>7, <1>8, <2>3
    <3> QED BY <1>4, <1>8, <3>1
  <2> QED BY <2>1, <2>2, <2>3 DEF a
<1>9. CASE ~ PastGrammar
  <2> DEFINE g == Position("grammar")
  <2>1. /\ ~ chain.outside /\ g \in 1 .. n /\ ~ (at > g)
        /\ chain.stages[g] = "grammar"
        /\ \A m \in 1 .. g - 1 : chain.stages[m] \in {"temp", "temp_ext", "penalties"}
    BY <1>1, <1>9, GrammarPlace DEF PastGrammar, n
  <2> HIDE DEF g
  <2>2. stage = "grammar" \/ stage \in {"temp", "temp_ext", "penalties"}
    <3>1. at = g \/ at \in 1 .. g - 1
      BY <1>1, <2>1
    <3> QED BY <2>1, <3>1 DEF stage
  <2>3. left.selected = 0
    BY <1>7, <2>2
  <2>4. CASE at = g
    <3>1. stage = "grammar" /\ at + 1 > g
      BY <1>1, <2>1, <2>4 DEF stage
    <3>2. Drawable(a) = Permitted(gram)
      BY <1>4, <1>5, <1>6, <1>9, <3>1
    <3> QED BY <1>6, <2>3, <3>1, <3>2 DEF a, g
  <2>5. CASE at < g
    <3>1. at \in 1 .. g - 1 /\ ~ (at + 1 > g)
      BY <1>1, <2>1, <2>5
    <3>2. stage \in {"temp", "temp_ext", "penalties"}
      BY <2>1, <3>1 DEF stage
    <3>3. Drawable(a) = Token
      BY <1>4, <1>5, <1>9, <3>2
    <3> QED BY <2>1, <2>3, <3>1, <3>3 DEF a, g
  <2> QED BY <1>1, <2>1, <2>4, <2>5
<1> QED BY <1>8, <1>9

(* A stage on candidates.                                                    *)
LEMMA StageStep ==
    ASSUME IInv, ApplyStage, data # <<>>
    PROVE  IInv'
<1> DEFINE n == Len(chain.stages)  stage == chain.stages[at]
<1>1. /\ UNCHANGED <<chain, lazy, history, grammar, drawn, said>>
      /\ pc = "applying" /\ at' = at + 1 /\ TypeOK /\ n \in Nat /\ at \in 1 .. n
      /\ at' \in 1 .. n + 1 /\ stage \in Stages
      /\ at < n => stage \notin Selectors
      /\ IsArray(data) /\ sorted \in BOOLEAN /\ selected = 0 /\ ~ Contains(said, Eog)
      /\ HasGrammar' = HasGrammar /\ Constrained' = Constrained
      /\ Position("grammar")' = Position("grammar")
      /\ Permitted(gram)' = Permitted(gram) /\ drawn' \in Token
      /\ slips \subseteq Slips
  BY AtStage
<1>2. PICK left \in Run(stage) : Sync(left)
  BY DEF ApplyStage, Stage
<1>3. /\ pc' = pc
      /\ slips' = IF stage \in Ordering /\ sorted /\ ~ Descending(data)
                  THEN slips \cup {"misled"} ELSE slips
  BY DEF ApplyStage, Stage
<1>4. ArrayOK
  <2>1. Len(data) \in Nat
    BY <1>1, CandidateType
  <2> QED BY <1>1, <2>1 DEF ArrayOK
<1> HIDE DEF n, stage
<1>5. /\ LeftOK(left) /\ (stage # "tail_free" => left.data # <<>>)
      /\ stage \notin Selectors => left.selected = 0
  BY <1>1, <1>2, <1>4, AnyStage
<1>6. /\ IsArray(data') /\ sorted' \in BOOLEAN
      /\ selected' \in 0 .. Len(data') /\ data' = left.data
      /\ left.selected \in 0 .. Len(data') => selected' = left.selected
  BY <1>2, <1>5, Synced
<1>7. slips' \subseteq Slips /\ (slips' = {} => slips = {} /\ (stage \in Ordering => Honest))
  <2>1. slips' \subseteq Slips
    BY <1>1, <1>3 DEF Slips
  <2>2. slips' = {} => slips = {} /\ (stage \in Ordering => Honest)
    BY <1>3 DEF Honest
  <2> QED BY <2>1, <2>2
<1>8. TypeOK'
  <2>1. at' \in 1 .. Len(chain.stages) + 1 /\ pc' = "applying"
    BY <1>1, <1>3 DEF n
  <2> QED BY <1>1, <1>6, <1>7, <2>1, SampleType
<1>9. GrammarInStep'
  <2>1. pc' # "new"
    BY <1>1, <1>3
  <2> QED BY <1>1, <1>7, <2>1 DEF IInv, GrammarInStep, Follows, Awake, Read, grammar
<1>10. Len(data') \in Nat /\ (left.selected = 0 => selected' = 0)
  <2>1. Len(data') \in Nat
    BY <1>6, CandidateType
  <2> QED BY <1>6, <2>1
<1>11. at < n => selected' = 0
  BY <1>1, <1>5, <1>10
<1>12. data' = <<>> => MayBeEmpty(at)'
  <2>1. data' = <<>> => chain.stages[at] = "tail_free"
    BY <1>5, <1>6 DEF stage
  <2>2. at \in 1 .. at' - 1
    BY <1>1
  <2>3. chain' = chain
    BY <1>1
  <2> QED BY <2>1, <2>2, <2>3 DEF MayBeEmpty
<1>13. ASSUME Constrained, slips' = {}, data' # <<>>
       PROVE  /\ PastGrammar' => Drawable(data') # {} /\ Drawable(data') \subseteq Permitted(gram)
              /\ ~ PastGrammar' => Drawable(data') = Token
              /\ selected' # 0 => data'[selected'].id \in Permitted(gram)
  <2>1. /\ at + 1 > Position("grammar") \/ chain.outside =>
              Drawable(data') # {} /\ Drawable(data') \subseteq Permitted(gram)
        /\ ~ (at + 1 > Position("grammar") \/ chain.outside) => Drawable(data') = Token
        /\ left.selected # 0 =>
              /\ data' = data /\ left.selected \in 1 .. Len(data)
              /\ data'[left.selected].id \in Permitted(gram)
    <3>1. left \in Run(chain.stages[at]) /\ left.data # <<>>
          /\ (chain.stages[at] \in Ordering => Honest) /\ slips = {}
      BY <1>2, <1>6, <1>7, <1>13 DEF stage
    <3>2. /\ at + 1 > Position("grammar") \/ chain.outside =>
                (Drawable(left.data) # {} /\ Drawable(left.data) \subseteq Permitted(gram))
          /\ ~ (at + 1 > Position("grammar") \/ chain.outside) =>
                Drawable(left.data) = Token
          /\ left.selected # 0 =>
                /\ left.data = data /\ left.selected \in 1 .. Len(data)
                /\ left.data[left.selected].id \in Permitted(gram)
      BY <1>13, <3>1, ConstrainedStage
    <3> QED BY <1>6, <3>2
  <2>2. PastGrammar' <=> at + 1 > Position("grammar") \/ chain.outside
    BY <1>1 DEF PastGrammar
  <2>3. ASSUME selected' # 0 PROVE data'[selected'].id \in Permitted(gram)
    <3>1. left.selected # 0
      BY <1>10, <2>3
    <3>2. left.selected \in 0 .. Len(data')
      BY <1>10, <2>1, <3>1
    <3> QED BY <1>6, <2>1, <3>1, <3>2
  <2> QED BY <2>1, <2>2, <2>3
<1>14. ArrayLawful'
  <2>1. at' <= Len(chain.stages)' => selected' = 0
    <3>1. Len(chain.stages)' = n
      BY <1>1 DEF n
    <3> QED BY <1>1, <1>11, <3>1
  <2>2. Drawable(data)' = Drawable(data') /\ pc' = "applying"
    BY <1>1, <1>3 DEF Drawable
  <2>3. ~ Contains(said, Eog)'
    BY <1>1
  <2> QED BY <1>1, <1>12, <1>13, <2>1, <2>2, <2>3 DEF ArrayLawful, Nothing
<1>15. OnlyKnownAborts'
  BY <1>1, <1>3 DEF OnlyKnownAborts
<1> QED BY <1>8, <1>9, <1>14, <1>15 DEF IInv

LEMMA ApplyStageStep == IInv /\ ApplyStage => IInv'
BY StageStep, EmptyStageStep

(* What is drawn is a token, and under a grammar that saw everything a        *)
(* permitted one.                                                            *)
LEMMA DrawStep == IInv /\ Draw => IInv'
<1> SUFFICES ASSUME IInv, Draw PROVE IInv'
  OBVIOUS
<1>1. /\ UNCHANGED <<chain, lazy, history, grammar, array, at, said>>
      /\ pc = "applying" /\ ((at = 1 /\ data = <<>>) \/ at > Len(chain.stages))
      /\ drawn' = (IF selected = 0 THEN Fallback ELSE data[selected].id)
      /\ pc' = "drawn"
      /\ slips' = IF data = <<>> THEN slips \cup {"blind"} ELSE slips
  BY DEF Draw, Nothing
<1>2. /\ TypeOK /\ IsArray(data) /\ selected \in 0 .. Len(data) /\ Len(data) \in Nat
      /\ ~ Contains(said, Eog) /\ slips \subseteq Slips
  <2>1. TypeOK
    BY DEF IInv
  <2> QED BY <1>1, <2>1, TypeOfArray, CandidateType DEF IInv, ArrayLawful, TypeOK
<1>3. ASSUME data # <<>>
      PROVE  \E k \in 1 .. Len(data) : /\ Fallback = data[k].id
                                       /\ \A j \in 1 .. Len(data) : data[j].logit <= data[k].logit
  <2> DEFINE LastOf(k) == /\ \A j \in 1 .. Len(data) : data[j].logit <= data[k].logit
                          /\ \A j \in k + 1 .. Len(data) : data[j].logit < data[k].logit
             k == CHOOSE k \in 1 .. Len(data) : LastOf(k)
  <2>1. Fallback = data[k].id
    BY <1>3 DEF Fallback
  <2>2. \E i \in 1 .. Len(data) : LastOf(i)
    BY <1>2, <1>3, Best
  <2> HIDE DEF LastOf
  <2>3. k \in 1 .. Len(data) /\ LastOf(k)
    BY <2>2
  <2> QED BY <2>1, <2>3 DEF LastOf
<1>4. drawn' \in Token
  <2>1. CASE data = <<>>
    BY <1>1, <1>2, <2>1, SamplerAssumption DEF Fallback, Token
  <2>2. CASE data # <<>> /\ selected = 0
    BY <1>1, <1>2, <1>3, <2>2, CandidateType
  <2>3. CASE data # <<>> /\ selected # 0
    <3>1. selected \in 1 .. Len(data)
      BY <1>2, <2>3
    <3> QED BY <1>1, <1>2, <2>3, <3>1, CandidateType
  <2> QED BY <2>1, <2>2, <2>3
<1>5. HasGrammar' = HasGrammar /\ Constrained' = Constrained
  BY <1>1, SameChain
<1>6. Permitted(gram)' = Permitted(gram)
  BY <1>1 DEF Permitted, Awake, Read, grammar
<1>7. slips' \subseteq Slips /\ (slips' = {} => slips = {} /\ data # <<>>)
  BY <1>1, <1>2 DEF Slips
<1>8. ASSUME Constrained, slips' = {} PROVE drawn' \in Permitted(gram)
  <2>0. slips = {} /\ data # <<>>
    BY <1>7, <1>8
  <2>1. PastGrammar
    <3>1. CASE chain.outside
      BY <3>1 DEF PastGrammar
    <3>2. CASE ~ chain.outside
      <4>1. Position("grammar") \in 1 .. Len(chain.stages) /\ at > Len(chain.stages)
            /\ at \in Nat /\ Len(chain.stages) \in Nat
        BY <1>1, <1>2, <1>8, <2>0, <3>2, GrammarPlace, ChainType DEF TypeOK
      <4>2. at > Position("grammar")
        BY <4>1
      <4> QED BY <4>2 DEF PastGrammar
    <3> QED BY <3>1, <3>2
  <2>2. /\ Drawable(data) # {} /\ Drawable(data) \subseteq Permitted(gram)
        /\ selected # 0 => data[selected].id \in Permitted(gram)
    BY <1>1, <1>8, <2>0, <2>1 DEF IInv, ArrayLawful, Nothing
  <2>3. CASE selected # 0
    BY <1>1, <2>2, <2>3
  <2>4. CASE selected = 0
    <3>1. PICK k \in 1 .. Len(data) :
             Fallback = data[k].id /\ \A j \in 1 .. Len(data) : data[j].logit <= data[k].logit
      BY <1>3, <2>0
    <3>2. PICK i \in 1 .. Len(data) : data[i].logit # Masked
      BY <2>2 DEF Drawable
    <3>3. data[i].logit \in Nat /\ data[k].logit \in Nat
      BY <1>2, CandidateType
    <3>4. data[k].logit # Masked
      BY <3>1, <3>2, <3>3 DEF Masked
    <3>5. data[k].id \in Drawable(data)
      BY <3>4 DEF Drawable
    <3> QED BY <1>1, <2>2, <2>4, <3>1, <3>5
  <2> QED BY <2>3, <2>4
<1>9. TypeOK'
  <2>1. /\ IsArray(data') /\ sorted' \in BOOLEAN /\ selected' \in 0 .. Len(data')
        /\ at' \in 1 .. Len(chain.stages) + 1
    BY <1>1, <1>2 DEF TypeOK, array
  <2> QED BY <1>1, <1>2, <1>4, <1>7, <2>1, SampleType
<1>10. GrammarInStep'
  BY <1>1, <1>5, <1>7 DEF IInv, GrammarInStep, Follows, Awake, Read, grammar
<1>11. ArrayLawful'
  <2>1. ~ Contains(said, Eog)'
    BY <1>1, <1>2
  <2> QED BY <1>1, <1>5, <1>6, <1>8, <2>1 DEF ArrayLawful
<1>12. OnlyKnownAborts'
  BY <1>1 DEF OnlyKnownAborts
<1> QED BY <1>9, <1>10, <1>11, <1>12 DEF IInv

(* Accepting a drawn token keeps the grammar in step, and unless something    *)
(* slipped by never asks it to take an end of generation it refuses.         *)
LEMMA AcceptStep == IInv /\ Accept => IInv'
<1> SUFFICES ASSUME IInv, Accept PROVE IInv'
  OBVIOUS
<1>1. /\ pc = "drawn" /\ UNCHANGED <<chain, lazy, spare, array, at, drawn, slips>>
      /\ history' = Append(history, drawn) /\ said' = Append(said, drawn)
      /\ gram' = GrammarAccept(drawn) /\ dry' = DryAccept(drawn)
      /\ pc' = IF Fatal(drawn) THEN "aborted" ELSE "idle"
  BY DEF Accept
<1>2. /\ history \in Seq(Token) /\ said \in Seq(Token) /\ gram \in Seq(Token)
      /\ dry \in Seq(Token) /\ drawn \in Token /\ lazy \in BOOLEAN
  BY DEF IInv, TypeOK
<1>3. /\ history' \in Seq(Token) /\ said' \in Seq(Token) /\ gram' \in Seq(Token)
      /\ dry' \in Seq(Token)
  BY <1>1, <1>2 DEF GrammarAccept, DryAccept
<1>4. HasGrammar' = HasGrammar /\ Constrained' = Constrained
  BY <1>1, SameChain
<1>5. Constrained /\ slips = {} => drawn \in Permitted(gram)
  BY <1>1 DEF IInv, ArrayLawful
<1>6. Constrained => HasGrammar
  BY DEF Constrained, GrammarFirst
<1>7. GrammarInStep'
  <2>1. spare' \subseteq [gram : Seq(Token), dry : Seq(Token), said : Seq(Token)]
    BY <1>1 DEF IInv, GrammarInStep
  <2>2. HasGrammar /\ slips = {} => gram' = said' /\ \A c \in spare : c.gram = c.said
    BY <1>1 DEF IInv, GrammarInStep, GrammarAccept
  <2>3. ASSUME Constrained, slips = {} PROVE Follows(gram)'
    <3>1. Follows(Append(gram, drawn))
      BY <1>2, <1>5, <2>3, Accepting DEF IInv, GrammarInStep
    <3>2. gram' = Append(gram, drawn)
      BY <1>1, <1>6, <2>3 DEF GrammarAccept
    <3> QED BY <1>1, <3>1, <3>2 DEF Follows, Awake, Read
  <2>4. Constrained /\ slips = {} => \A c \in spare' : Follows(c.gram)'
    BY <1>1 DEF IInv, GrammarInStep, Follows, Awake, Read
  <2>5. pc' # "new"
    BY <1>1
  <2>6. ~ HasGrammar => gram' = <<>> /\ spare' = {}
    BY <1>1 DEF IInv, GrammarInStep, GrammarAccept
  <2> QED BY <1>1, <1>4, <2>1, <2>2, <2>3, <2>4, <2>5, <2>6 DEF GrammarInStep
<1>8. TypeOK'
  BY <1>1, <1>3 DEF IInv, TypeOK, array
<1>9. ArrayLawful'
  BY <1>1 DEF ArrayLawful
<1>10. OnlyKnownAborts'
  <2>1. Constrained /\ slips = {} => ~ Fatal(drawn)
    BY <1>5 DEF Fatal
  <2>2. pc' # "asserted" /\ (pc' = "aborted" => (~ Constrained' \/ slips' # {}))
    BY <1>1, <1>4, <2>1
  <2> QED BY <2>2 DEF OnlyKnownAborts, Constrained
<1> QED BY <1>7, <1>8, <1>9, <1>10 DEF IInv

(* What holds when a sampler is asked for, and at every step after.          *)
LEMMA InitIInv == Init => IInv
<1> SUFFICES ASSUME Init PROVE IInv
  OBVIOUS
<1>1. TypeOK
  <2>1. Len(data) = 0 /\ data \in Seq(Candidate)
    BY DEF Init
  <2>2. IsArray(data) /\ 0 \in Token
    BY <2>1, SamplerAssumption DEF IsArray, Distinct, Token
  <2>3. chain \in Chains /\ chain.stages \in Seq(Stages)
    <3>1. chain \in Chains /\ chain \in [stages : Seq(Stages), outside : BOOLEAN]
      BY ChainsAssumption DEF Init
    <3> QED BY <3>1
  <2>4. /\ <<>> \in Seq(Token) /\ selected \in 0 .. Len(data)
        /\ at \in 1 .. Len(chain.stages) + 1
    BY <2>1, <2>3 DEF Init, Nothing
  <2>5. /\ data \in Seq([id : Token, logit : 0 .. Levels])
        /\ \A i, j \in 1 .. Len(data) : i # j => data[i].id # data[j].id
    BY <2>2 DEF IsArray, Distinct, Candidate
  <2> QED BY <2>2, <2>3, <2>4, <2>5 DEF Init, TypeOK
<1>2. ArrayLawful /\ OnlyKnownAborts
  BY DEF Init, ArrayLawful, OnlyKnownAborts
<1>3. GrammarInStep
  BY OpeningsType DEF Init, GrammarInStep, Follows, Awake, Read, Contains
<1> QED BY <1>1, <1>2, <1>3 DEF IInv

LEMMA NextIInv == IInv /\ [Next]_vars => IInv'
<1> SUFFICES ASSUME IInv, [Next]_vars PROVE IInv'
  OBVIOUS
<1>1. CASE UNCHANGED vars
  <2>1. UNCHANGED <<chain, lazy, history, gram, spare, dry, data, sorted, selected, pc, at,
                    drawn, said, slips>>
    BY <1>1 DEF vars, grammar, array
  <2>2. HasGrammar' = HasGrammar /\ Constrained' = Constrained
        /\ Position("grammar")' = Position("grammar") /\ MayBeEmpty(at)' = MayBeEmpty(at)
        /\ MayBeEmpty(at - 1)' = MayBeEmpty(at - 1)
    BY <2>1, SameChain DEF MayBeEmpty
  <2>3. TypeOK' /\ OnlyKnownAborts'
    BY <2>1, <2>2 DEF IInv, TypeOK, OnlyKnownAborts, GrammarFirst, Selector, HasGrammar,
                      Position
  <2>4. GrammarInStep'
    BY <2>1, <2>2 DEF IInv, GrammarInStep, Follows, Awake, Read
  <2>5. Permitted(gram)' = Permitted(gram) /\ PastGrammar' = PastGrammar
    BY <2>1, <2>2 DEF Permitted, Awake, Read, PastGrammar
  <2>6. ArrayLawful'
    BY <2>1, <2>2, <2>5 DEF IInv, ArrayLawful
  <2> QED BY <2>3, <2>4, <2>6 DEF IInv
<1>2. CASE \E logits \in [1 .. Vocab -> 1 .. Levels] \cup {<<>>}, in_order \in BOOLEAN :
              Candidates(logits, in_order)
  BY <1>2, CandidatesStep
<1>3. CASE BuildPlain \/ BuildGrammar \/ BuildGrammarLazy \/ BuildOutside \/ BuildDry
  BY <1>3, BuildStep
<1>4. CASE PenaliseOutside \/ ApplyOutside \/ ApplyStage \/ Draw \/ Accept
  BY <1>4, PenaliseOutsideStep, ApplyOutsideStep, ApplyStageStep, DrawStep, AcceptStep
<1>5. CASE Reset \/ ChainSimple \/ ResetDry \/ DropAll \/ Clone \/ Rollback
  BY <1>5, BetweenSamples
<1> QED BY <1>1, <1>2, <1>3, <1>4, <1>5 DEF Next

THEOREM Inductive == Spec => []IInv
BY InitIInv, NextIInv, PTL DEF Spec

(* The array a caller sees holds distinct candidates of the vocabulary, an    *)
(* index into it is in range, and what is drawn is a token.                  *)
THEOREM TypeCorrect == Spec => []TypeOK
<1>1. IInv => TypeOK
  BY DEF IInv
<1> QED BY <1>1, Inductive, PTL

(* Whatever the chain does to the logits, what is said follows the grammar.   *)
THEOREM SaidFollows == Spec => []SaidFollowsGrammar
<1>1. IInv => SaidFollowsGrammar
  BY DEF IInv, GrammarInStep, Follows, Constrained, GrammarFirst, SaidFollowsGrammar
<1> QED BY <1>1, Inductive, PTL

(* The library aborts the process nowhere but after a tail_free that kept     *)
(* nothing, and at an end of generation the grammar was never asked about.    *)
THEOREM AbortsKnown == Spec => []OnlyKnownAborts
<1>1. IInv => OnlyKnownAborts
  BY DEF IInv
<1> QED BY <1>1, Inductive, PTL

(* Without a stochastic draw at its end, a chain that meets the grammar first  *)
(* only draws what survives apply: DrawnPermitted fails by `dist` alone.      *)
THEOREM PermittedUnlessDist == Spec => [](Selector # "dist" => DrawnPermitted)
<1>1. IInv => (Selector # "dist" => DrawnPermitted)
  BY DEF IInv, ArrayLawful, Constrained, DrawnPermitted
<1> QED BY <1>1, Inductive, PTL

=============================================================================
