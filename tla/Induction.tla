------------------------------ MODULE Induction ------------------------------
(* What induction over the naturals and over sequences gives the proofs of    *)
(* this project, as lemmas without operator parameters.                      *)
EXTENDS Integers, Sequences, WellFoundedInduction, TLAPS

(* A set of naturals that has an element has a least one: induction is        *)
(* reasoning about the least counterexample.                                 *)
LEMMA LeastNat ==
    ASSUME NEW S \in SUBSET Nat, S # {}
    PROVE  \E x \in S : \A y \in S : x <= y
<1> DEFINE R == {ss \in Nat \X Nat : ss[1] < ss[2]}
<1>1. IsWellFoundedOn(R, Nat)
  BY NatLessThanWellFounded DEF OpToRel
<1>2. \E x \in S : \A y \in S : ~ (<<y, x>> \in R)
  <2> HIDE DEF R
  <2> QED BY <1>1, WFMin
<1>3. \A x, y \in S : ~ (<<y, x>> \in R) => x <= y
  OBVIOUS
<1> QED BY <1>2, <1>3

(* Induction over 0 .. n, for a set of numbers.                              *)
LEMMA UpTo ==
    ASSUME NEW n \in Nat, NEW S, 0 \in S,
           \A k \in 0 .. n - 1 : k \in S => k + 1 \in S
    PROVE  \A k \in 0 .. n : k \in S
<1> DEFINE Wrong == {k \in 0 .. n : k \notin S}
<1> SUFFICES ASSUME Wrong # {} PROVE FALSE
  OBVIOUS
<1>1. PICK m \in Wrong : \A k \in Wrong : m <= k
  <2> Wrong \in SUBSET Nat
    OBVIOUS
  <2> HIDE DEF Wrong
  <2> QED BY LeastNat
<1>2. m \in 1 .. n /\ m \notin S
  OBVIOUS
<1>3. m - 1 \in 0 .. n - 1 /\ m - 1 \in S
  BY <1>1, <1>2
<1> QED BY <1>2, <1>3

(* A nonempty finite list of numbers has a first maximum ...                 *)
LEMMA FirstMax ==
    ASSUME NEW n \in Nat \ {0}, NEW v \in [1 .. n -> Nat]
    PROVE  \E i \in 1 .. n : /\ \A j \in 1 .. n : v[j] <= v[i]
                             /\ \A j \in 1 .. i - 1 : v[j] < v[i]
<1> DEFINE S == {k \in Nat : k \in 1 .. n =>
                    \E i \in 1 .. k : /\ \A j \in 1 .. k : v[j] <= v[i]
                                      /\ \A j \in 1 .. i - 1 : v[j] < v[i]}
<1>1. 0 \in S
  OBVIOUS
<1>2. ASSUME NEW k \in 0 .. n - 1, k \in S PROVE k + 1 \in S
  <2>1. CASE k = 0
    BY <2>1
  <2>2. CASE k # 0
    <3>1. PICK i \in 1 .. k : /\ \A j \in 1 .. k : v[j] <= v[i]
                              /\ \A j \in 1 .. i - 1 : v[j] < v[i]
      BY <1>2, <2>2
    <3>2. CASE v[k + 1] <= v[i]
      <4>1. i \in 1 .. k + 1 /\ \A j \in 1 .. k + 1 : v[j] <= v[i]
        BY <3>1, <3>2
      <4> QED BY <3>1, <4>1
    <3>3. CASE ~ (v[k + 1] <= v[i])
      <4>1. \A j \in 1 .. k : v[j] < v[k + 1]
        BY <3>1, <3>3
      <4>2. k + 1 \in 1 .. k + 1 /\ \A j \in 1 .. k + 1 : v[j] <= v[k + 1]
        BY <4>1
      <4> QED BY <4>1, <4>2
    <3> QED BY <3>2, <3>3
  <2> QED BY <2>1, <2>2
<1>3. n \in S
  <2> HIDE DEF S
  <2>1. n \in Nat /\ \A k \in 0 .. n - 1 : k \in S => k + 1 \in S
    BY <1>2
  <2>2. \A k \in 0 .. n : k \in S
    BY ONLY <1>1, <2>1, UpTo
  <2> QED BY <2>1, <2>2
<1> QED BY <1>3

(* ... and a last one.                                                       *)
LEMMA LastMax ==
    ASSUME NEW n \in Nat \ {0}, NEW v \in [1 .. n -> Nat]
    PROVE  \E i \in 1 .. n : /\ \A j \in 1 .. n : v[j] <= v[i]
                             /\ \A j \in i + 1 .. n : v[j] < v[i]
<1> DEFINE w == [i \in 1 .. n |-> v[n + 1 - i]]
<1>1. PICK i \in 1 .. n : /\ \A j \in 1 .. n : w[j] <= w[i]
                          /\ \A j \in 1 .. i - 1 : w[j] < w[i]
  <2>1. w \in [1 .. n -> Nat]
    OBVIOUS
  <2> HIDE DEF w
  <2> QED BY <2>1, FirstMax
<1>2. \A j \in 1 .. n : n + 1 - j \in 1 .. n /\ w[n + 1 - j] = v[j]
  OBVIOUS
<1>3. n + 1 - i \in 1 .. n /\ \A j \in 1 .. n : v[j] <= v[n + 1 - i]
  BY <1>1, <1>2
<1>4. ASSUME NEW j \in n + 1 - i + 1 .. n PROVE v[j] < v[n + 1 - i]
  <2>1. n + 1 - j \in 1 .. i - 1 /\ j \in 1 .. n
    OBVIOUS
  <2>2. w[n + 1 - j] = v[j] /\ w[i] = v[n + 1 - i]
    BY <2>1
  <2> QED BY <1>1, <2>1, <2>2
<1> QED BY <1>3, <1>4

(* A function can be defined by recursion on 0 .. n.                         *)
Definable(n, S, base, step) ==
    \E f \in [0 .. n -> S] : f[0] = base /\ \A k \in 1 .. n : f[k] = step[k][f[k - 1]]

LEMMA RecursiveFcn ==
    ASSUME NEW n \in Nat, NEW S, NEW base \in S, NEW step \in [1 .. n -> [S -> S]]
    PROVE  Definable(n, S, base, step)
<1> DEFINE Good(k, f) == /\ f \in [0 .. k -> S] /\ f[0] = base
                         /\ \A i \in 1 .. k : f[i] = step[i][f[i - 1]]
           Defined == {k \in Nat : \E f \in [0 .. k -> S] : Good(k, f)}
<1>1. 0 \in Defined
  <2> DEFINE f == [k \in 0 .. 0 |-> base]
  <2>1. Good(0, f)
    OBVIOUS
  <2> QED BY <2>1
<1>2. ASSUME NEW k \in 0 .. n - 1, k \in Defined PROVE k + 1 \in Defined
  <2>1. PICK f \in [0 .. k -> S] : Good(k, f)
    BY <1>2
  <2> DEFINE g == [i \in 0 .. k + 1 |-> IF i = k + 1 THEN step[k + 1][f[k]] ELSE f[i]]
  <2>2. g \in [0 .. k + 1 -> S]
    BY <2>1
  <2>3. g[0] = base
    BY <2>1
  <2>4. ASSUME NEW i \in 1 .. k + 1 PROVE g[i] = step[i][g[i - 1]]
    <3>1. CASE i = k + 1
      BY <3>1
    <3>2. CASE i \in 1 .. k
      BY <2>1, <3>2
    <3> QED BY <3>1, <3>2
  <2>5. k + 1 \in Nat
    OBVIOUS
  <2> HIDE DEF g
  <2> QED BY <2>2, <2>3, <2>4, <2>5
<1>3. \A k \in 0 .. n : k \in Defined
  <2> HIDE DEF Defined
  <2>1. \A k \in 0 .. n - 1 : k \in Defined => k + 1 \in Defined
    BY <1>2
  <2> QED BY ONLY <1>1, <2>1, UpTo
<1> QED BY <1>3 DEF Definable

(* A function whose every value has the type of the values after it is typed. *)
LEMMA TypedFcn ==
    ASSUME NEW n \in Nat, NEW S, NEW f, f = [k \in 0 .. n |-> f[k]], f[0] \in S,
           \A k \in 1 .. n : f[k - 1] \in S => f[k] \in S
    PROVE  f \in [0 .. n -> S]
<1> DEFINE typed == {k \in 0 .. n : f[k] \in S}
<1>1. 0 \in typed
  OBVIOUS
<1>2. ASSUME NEW k \in 0 .. n - 1, k \in typed PROVE k + 1 \in typed
  <2>1. k + 1 \in 1 .. n /\ (k + 1) - 1 = k
    OBVIOUS
  <2>2. f[k] \in S
    BY <1>2
  <2> QED BY <2>1, <2>2
<1>3. \A k \in 0 .. n : k \in typed
  <2> HIDE DEF typed
  <2>1. \A k \in 0 .. n - 1 : k \in typed => k + 1 \in typed
    BY <1>2
  <2> QED BY ONLY <1>1, <2>1, n \in Nat, UpTo
<1> QED BY <1>3

(* Two functions that start alike and continue alike are alike.              *)
Alike(n, f, g) == \A k \in 0 .. n : f[k] = g[k]
InStep(n, f, g) == f[0] = g[0] /\ \A k \in 1 .. n : f[k - 1] = g[k - 1] => f[k] = g[k]

LEMMA SameRun ==
    ASSUME NEW n \in Nat, NEW f, NEW g, InStep(n, f, g)
    PROVE  Alike(n, f, g)
<1> DEFINE same == {k \in 0 .. n : f[k] = g[k]}
<1>1. 0 \in same /\ \A k \in 0 .. n - 1 : k \in same => k + 1 \in same
  BY DEF InStep
<1>2. \A k \in 0 .. n : k \in same
  <2> HIDE DEF same
  <2> QED BY ONLY <1>1, n \in Nat, UpTo
<1> QED BY <1>2 DEF Alike

-----------------------------------------------------------------------------
(* Sequences, one element longer.                                            *)
LEMMA ElementTyped ==
    ASSUME NEW S, NEW s \in Seq(S), NEW j \in 1 .. Len(s)
    PROVE  s[j] \in S
OBVIOUS

LEMMA SeqAppend ==
    ASSUME NEW S, NEW s \in Seq(S), NEW e \in S
    PROVE  /\ Append(s, e) \in Seq(S) /\ Len(s) \in Nat /\ Len(Append(s, e)) = Len(s) + 1
           /\ \A k \in 1 .. Len(s) : Append(s, e)[k] = s[k]
           /\ Append(s, e)[Len(s) + 1] = e
OBVIOUS

LEMMA AppendConcat ==
    ASSUME NEW S, NEW a \in Seq(S), NEW b \in Seq(S), NEW e \in S
    PROVE  a \o Append(b, e) = Append(a \o b, e)
OBVIOUS

(* Induction over sequences, for a set of them.                              *)
LEMMA AppendInduction ==
    ASSUME NEW S, NEW X, <<>> \in X,
           \A s \in Seq(S), e \in S : s \in X => Append(s, e) \in X
    PROVE  \A s \in Seq(S) : s \in X
<1> SUFFICES ASSUME NEW seq \in Seq(S) PROVE seq \in X
  OBVIOUS
<1> DEFINE n == Len(seq)
           good == {k \in 0 .. n : SubSeq(seq, 1, k) \in X}
<1>1. n \in Nat /\ 0 \in good
  <2>1. n \in Nat
    OBVIOUS
  <2>2. SubSeq(seq, 1, 0) \in X
    <3>1. SubSeq(seq, 1, 0) = <<>>
      OBVIOUS
    <3> QED BY ONLY <3>1, <<>> \in X, Zenon
  <2> HIDE DEF n
  <2> QED BY ONLY <2>1, <2>2
<1>2. ASSUME NEW k \in 0 .. n - 1, k \in good PROVE k + 1 \in good
  <2>1. seq[k + 1] \in S /\ SubSeq(seq, 1, k) \in Seq(S)
    OBVIOUS
  <2>2. SubSeq(seq, 1, k + 1) = Append(SubSeq(seq, 1, k), seq[k + 1])
    OBVIOUS
  <2>3. SubSeq(seq, 1, k + 1) \in X
    BY <1>2, <2>1, <2>2
  <2> QED BY <2>3
<1>3. \A k \in 0 .. n : k \in good
  <2> HIDE DEF good, n
  <2>1. \A k \in 0 .. n - 1 : k \in good => k + 1 \in good
    BY <1>2
  <2> QED BY ONLY <1>1, <2>1, UpTo
<1>4. SubSeq(seq, 1, n) = seq
  OBVIOUS
<1>5. SubSeq(seq, 1, n) \in X
  <2> HIDE DEF n
  <2> QED BY ONLY <1>1, <1>3
<1> QED BY ONLY <1>4, <1>5, Zenon

=============================================================================
