---------------------------- MODULE SessionProofs ----------------------------
(* Proofs about KvCache and Session, for every i32::MAX, every set of        *)
(* sequences, bounds, tokens and shifts, and any number of kept states.      *)
EXTENDS Session, FiniteSetTheorems, WellFoundedInduction, TLAPS

-----------------------------------------------------------------------------
(* Bounds. *)

Bound == Options \cup {{0}}

(* A bound that is let through reaches the library as -1 when absent, and as  *)
(* itself otherwise.                                                        *)
LEMMA Converted ==
    ASSUME NEW bound \in Bound, Fits(bound)
    PROVE  \/ bound = {} /\ CInt(bound) = -1
           \/ \E n \in Pos : bound = {n} /\ CInt(bound) = n
<1> USE KvCacheAssumption DEF Bound, Options, Pos, U32
<1>1. CASE bound = {}
  BY <1>1 DEF CInt
<1>2. CASE bound # {}
  <2>1. PICK n \in U32 : bound = {n}
    <3>1. 0 \in U32
      OBVIOUS
    <3>2. PICK n \in Bounds \cup {0} : bound = {n}
      BY <1>2
    <3> QED BY <3>1, <3>2
  <2>2. n \in Pos
    BY <2>1 DEF Fits
  <2>3. (CHOOSE m \in bound : TRUE) = n
    BY <2>1
  <2>4. CInt(bound) = n
    BY <1>2, <2>2, <2>3 DEF CInt
  <2> QED BY <2>1, <2>2, <2>4
<1> QED BY <1>1, <1>2

(* The library's reading of the converted bounds is the documented range.     *)
LEMMA InRange ==
    ASSUME NEW p0 \in Bound, NEW p1 \in Bound, Fits(p0), Fits(p1),
           NEW s \in Int, NEW c \in Cell
    PROVE  Hit(c, s, CInt(p0), CInt(p1)) <=>
               /\ s < 0 \/ s \in c.seqs
               /\ Within(<<c.pos, c.token>>, p0, p1)
<1>1. c.pos \in Nat
  BY KvCacheAssumption DEF Cell, Pos
<1>2. (CInt(p0) < 0 \/ CInt(p0) <= c.pos) <=> \A n \in p0 : n <= c.pos
  BY <1>1, Converted DEF Pos
<1>3. (CInt(p1) < 0 \/ c.pos < CInt(p1)) <=> \A n \in p1 : c.pos < n
  BY <1>1, Converted DEF Pos
<1> QED BY <1>2, <1>3 DEF Hit, Within

-----------------------------------------------------------------------------
(* Cells and what a sequence holds of them. *)

Sound(cs) == cs \subseteq Cell

KvInv == Sound(cells) /\ want = HeldIn(cells)

(* Membership in what a sequence holds.                                      *)
LEMMA HeldBy ==
    ASSUME NEW cs, NEW t, NEW x
    PROVE  x \in Held(cs, t) <=> \E c \in cs : t \in c.seqs /\ x = <<c.pos, c.token>>
BY DEF Held, Of

LEMMA CellType ==
    ASSUME NEW c \in Cell
    PROVE  /\ c.pos \in Pos /\ c.token \in Tokens /\ c.seqs \subseteq Seqs
           /\ c.seqs # {} /\ \E t \in Seqs : t \in c.seqs
<1>1. c.pos \in Pos /\ c.token \in Tokens /\ c.seqs \in (SUBSET Seqs) \ {{}}
  BY DEF Cell
<1>2. c.seqs \in SUBSET Seqs /\ c.seqs # {}
  BY <1>1
<1>3. c.seqs \subseteq Seqs /\ c.seqs # {}
  BY <1>2
<1> QED BY <1>1, <1>3

(* Dropping a sequence from a cell.                                          *)
LEMMA Dropped ==
    ASSUME NEW c \in Cell, NEW s \in Int
    PROVE  /\ Drop(c, s).pos = c.pos /\ Drop(c, s).token = c.token
           /\ Drop(c, s).seqs = IF s < 0 THEN {} ELSE c.seqs \ {s}
           /\ Drop(c, s).seqs # {} => Drop(c, s) \in Cell
BY DEF Drop, Cell

(* What a removal makes of a cell.                                           *)
Cut(d, s, p0, p1) == IF Hit(d, s, p0, p1) THEN Drop(d, s) ELSE d

LEMMA CutCell ==
    ASSUME NEW d \in Cell, NEW s \in Int, NEW p0, NEW p1
    PROVE  LET c == Cut(d, s, p0, p1) IN
           /\ c.pos = d.pos /\ c.token = d.token
           /\ \A t : t \in c.seqs <=>
                      t \in d.seqs /\ ~ (Hit(d, s, p0, p1) /\ (s < 0 \/ t = s))
           /\ c.seqs # {} => c \in Cell
<1>1. CASE Hit(d, s, p0, p1)
  <2>1. Cut(d, s, p0, p1) = Drop(d, s)
    BY <1>1 DEF Cut
  <2> QED BY <1>1, <2>1, Dropped
<1>2. CASE ~ Hit(d, s, p0, p1)
  <2>1. Cut(d, s, p0, p1) = d
    BY <1>2 DEF Cut
  <2> QED BY <1>2, <2>1
<1> QED BY <1>1, <1>2

LEMMA Removed ==
    ASSUME NEW s \in Int, NEW p0, NEW p1, NEW c
    PROVE  c \in LibRm(s, p0, p1) <=> c.seqs # {} /\ \E d \in cells : c = Cut(d, s, p0, p1)
BY DEF LibRm, Replace, Cut

(* A removal leaves a sequence what it does not name or does not reach.      *)
LEMMA RemovedHeld ==
    ASSUME cells \subseteq Cell, NEW s \in Int, NEW p0, NEW p1, NEW t \in Seqs, NEW x
    PROVE  x \in Held(LibRm(s, p0, p1), t) <=>
               \E d \in cells : /\ t \in d.seqs /\ x = <<d.pos, d.token>>
                                /\ ~ (Hit(d, s, p0, p1) /\ (s < 0 \/ t = s))
<1>1. ASSUME NEW c \in LibRm(s, p0, p1), t \in c.seqs, x = <<c.pos, c.token>>
      PROVE  \E d \in cells : /\ t \in d.seqs /\ x = <<d.pos, d.token>>
                              /\ ~ (Hit(d, s, p0, p1) /\ (s < 0 \/ t = s))
  <2>1. PICK d \in cells : c = Cut(d, s, p0, p1)
    BY <1>1, Removed
  <2>2. d \in Cell
    OBVIOUS
  <2> QED BY <1>1, <2>1, <2>2, CutCell
<1>2. ASSUME NEW d \in cells, t \in d.seqs, x = <<d.pos, d.token>>,
             ~ (Hit(d, s, p0, p1) /\ (s < 0 \/ t = s))
      PROVE  \E c \in LibRm(s, p0, p1) : t \in c.seqs /\ x = <<c.pos, c.token>>
  <2> DEFINE c == Cut(d, s, p0, p1)
  <2>0. d \in Cell
    OBVIOUS
  <2>1. t \in c.seqs /\ x = <<c.pos, c.token>>
    BY <1>2, <2>0, CutCell
  <2>2. c \in LibRm(s, p0, p1)
    BY <1>2, <2>1, Removed
  <2> QED BY <2>1, <2>2
<1> QED BY <1>1, <1>2, HeldBy

LEMMA RemovedSound ==
    ASSUME Sound(cells), NEW s \in Int, NEW p0, NEW p1
    PROVE  Sound(LibRm(s, p0, p1))
<1>1. ASSUME NEW c \in LibRm(s, p0, p1) PROVE c \in Cell
  <2>1. PICK d \in cells : c.seqs # {} /\ c = Cut(d, s, p0, p1)
    BY Removed
  <2>2. d \in Cell
    BY DEF Sound
  <2> QED BY <2>1, <2>2, CutCell
<1> QED BY <1>1 DEF Sound

(* A removal takes from the named sequences the documented range.             *)
LEMMA RemoveStep ==
    ASSUME KvInv, NEW s \in Int, NEW p0 \in Bound, NEW p1 \in Bound, Fits(p0), Fits(p1),
           NEW named, \A t \in Seqs : t \in named <=> s < 0 \/ t = s,
           Remove(s, p0, p1, named)
    PROVE  KvInv'
<1>1. CASE UNCHANGED context
  BY <1>1 DEF context, KvInv, Sound, Of, HeldIn, Held
<1>2. CASE /\ cells' = LibRm(s, CInt(p0), CInt(p1))
           /\ want' = [t \in Seqs |-> want[t] \ (IF t \in named THEN Part(t, p0, p1) ELSE {})]
  <2>1. Sound(cells')
    BY <1>2, RemovedSound DEF KvInv
  <2>2. ASSUME NEW t \in Seqs PROVE want'[t] = Held(cells', t)
    <3>1. \A x : x \in Held(cells', t) <=>
               \E d \in cells : /\ t \in d.seqs /\ x = <<d.pos, d.token>>
                                /\ ~ (Hit(d, s, CInt(p0), CInt(p1)) /\ (s < 0 \/ t = s))
      BY <1>2, RemovedHeld DEF KvInv, Sound
    <3>2. \A d \in cells : t \in d.seqs /\ (s < 0 \/ t = s) =>
              (Hit(d, s, CInt(p0), CInt(p1)) <=> Within(<<d.pos, d.token>>, p0, p1))
      BY InRange DEF KvInv, Sound
    <3>3. \A x : x \in want[t] <=> \E d \in cells : t \in d.seqs /\ x = <<d.pos, d.token>>
      BY HeldBy DEF KvInv, HeldIn
    <3>4. \A x : x \in want'[t] <=> x \in want[t] /\ ~ (t \in named /\ Within(x, p0, p1))
      BY <1>2 DEF Part
    <3>5. \A x : x \in want'[t] <=> x \in Held(cells', t)
      BY <3>1, <3>2, <3>3, <3>4
    <3> QED BY <3>5
  <2>3. want' = HeldIn(cells')
    BY <1>2, <2>2 DEF HeldIn
  <2> QED BY <2>1, <2>3 DEF KvInv, Sound
<1> QED BY <1>1, <1>2 DEF Remove

-----------------------------------------------------------------------------
(* Copies. *)

Lend(c, s, d, p0, p1) == IF Hit(c, s, p0, p1) THEN [c EXCEPT !.seqs = @ \cup {d}] ELSE c

LEMMA LendCell ==
    ASSUME NEW c \in Cell, NEW s, NEW d \in Seqs, NEW p0, NEW p1
    PROVE  LET e == Lend(c, s, d, p0, p1) IN
           /\ e \in Cell /\ e.pos = c.pos /\ e.token = c.token
           /\ \A t : t \in e.seqs <=> t \in c.seqs \/ (t = d /\ Hit(c, s, p0, p1))
<1>1. CASE Hit(c, s, p0, p1)
  <2>1. Lend(c, s, d, p0, p1) = [c EXCEPT !.seqs = @ \cup {d}]
    BY <1>1 DEF Lend
  <2>2. c.seqs \cup {d} \in (SUBSET Seqs) \ {{}}
    <3>1. c.seqs \cup {d} \in SUBSET Seqs
      BY CellType
    <3>2. d \in c.seqs \cup {d}
      OBVIOUS
    <3>3. c.seqs \cup {d} # {}
      BY <3>2
    <3> QED BY <3>1, <3>3
  <2> QED BY <1>1, <2>1, <2>2 DEF Cell
<1>2. CASE ~ Hit(c, s, p0, p1)
  <2>1. Lend(c, s, d, p0, p1) = c
    BY <1>2 DEF Lend
  <2> QED BY <1>2, <2>1
<1> QED BY <1>1, <1>2

LEMMA Copies ==
    ASSUME cells \subseteq Cell, NEW s, NEW d \in Seqs, NEW p0, NEW p1
    PROVE  LibCp(s, d, p0, p1) = {Lend(c, s, d, p0, p1) : c \in cells}
<1>1. \A c \in cells : Lend(c, s, d, p0, p1).seqs # {}
  <2> SUFFICES ASSUME NEW c \in cells PROVE Lend(c, s, d, p0, p1).seqs # {}
    OBVIOUS
  <2>1. c \in Cell
    OBVIOUS
  <2>2. Lend(c, s, d, p0, p1) \in Cell
    BY <2>1, LendCell
  <2> QED BY <2>2, CellType
<1>2. LibCp(s, d, p0, p1) = {e \in {Lend(c, s, d, p0, p1) : c \in cells} : e.seqs # {}}
  BY DEF LibCp, Replace, Lend
<1> QED BY <1>1, <1>2

(* A source: one sequence, or, when negative, any.                           *)
Source == Seqs \cup {-1}

LEMMA SourceOf ==
    ASSUME NEW s \in Source, NEW c \in Cell
    PROVE  /\ s \in Int
           /\ (s < 0 \/ s \in c.seqs) <=> \E t \in Sources(s) : t \in c.seqs
<1>1. CASE s = -1
  BY <1>1, CellType DEF Sources
<1>2. CASE s \in Seqs
  <2>1. s \in Int /\ ~ (s < 0)
    BY <1>2, KvCacheAssumption DEF Pos
  <2>2. Sources(s) = {s}
    BY <2>1 DEF Sources
  <2> QED BY <2>1, <2>2
<1> QED BY <1>1, <1>2 DEF Source

(* A copy adds the documented range of its source to what a sequence holds,   *)
(* and every other sequence keeps what it has.                               *)
LEMMA CopyStep ==
    ASSUME KvInv, NEW s \in Source, NEW d \in Seqs,
           NEW a, NEW b, NEW p0, NEW p1,
           \A c \in cells :
               Hit(c, s, a, b) <=> /\ s < 0 \/ s \in c.seqs
                                   /\ Within(<<c.pos, c.token>>, p0, p1),
           cells' = LibCp(s, d, a, b),
           want' = [want EXCEPT ![d] = @ \cup Lent(s, p0, p1)]
    PROVE  KvInv'
<1> DEFINE e(c) == Lend(c, s, d, a, b)
<1>1. cells' = {e(c) : c \in cells}
  BY Copies DEF KvInv, Sound
<1>2. \A c \in cells : /\ e(c) \in Cell /\ e(c).pos = c.pos /\ e(c).token = c.token
                       /\ \A t : t \in e(c).seqs <=> t \in c.seqs \/ (t = d /\ Hit(c, s, a, b))
  BY LendCell DEF KvInv, Sound
<1> HIDE DEF e
<1>5. Sound(cells')
  BY <1>1, <1>2 DEF Sound
<1>3. \A x : x \in Lent(s, p0, p1) <=>
           \E c \in cells : x = <<c.pos, c.token>> /\ Hit(c, s, a, b)
  <2>1. \A t \in Sources(s) : want[t] = Held(cells, t)
    <3>1. Sources(s) \subseteq Seqs
      BY KvCacheAssumption DEF Sources, Source, Pos
    <3> QED BY <3>1 DEF KvInv, HeldIn
  <2>2. \A x : x \in Lent(s, p0, p1) <=>
             \E t \in Sources(s) : \E c \in cells :
                 t \in c.seqs /\ x = <<c.pos, c.token>> /\ Within(x, p0, p1)
    BY <2>1, HeldBy DEF Lent, Part
  <2>3. \A c \in cells : Hit(c, s, a, b) <=>
             /\ \E t \in Sources(s) : t \in c.seqs
             /\ Within(<<c.pos, c.token>>, p0, p1)
    BY SourceOf DEF KvInv, Sound
  <2> QED BY <2>2, <2>3
<1>6. ASSUME NEW t \in Seqs PROVE want'[t] = Held(cells', t)
  <2>1. \A x : x \in Held(cells', t) <=>
             \E c \in cells : /\ x = <<c.pos, c.token>>
                              /\ t \in c.seqs \/ (t = d /\ Hit(c, s, a, b))
    <3>1. \A x : x \in Held(cells', t) <=>
               \E c \in cells : t \in e(c).seqs /\ x = <<e(c).pos, e(c).token>>
      BY <1>1, HeldBy
    <3>2. \A c \in cells : <<e(c).pos, e(c).token>> = <<c.pos, c.token>>
      BY <1>2
    <3>3. \A c \in cells : t \in e(c).seqs <=> t \in c.seqs \/ (t = d /\ Hit(c, s, a, b))
      BY <1>2
    <3> QED BY <3>1, <3>2, <3>3, Zenon
  <2>2. \A x : x \in Held(cells, t) <=> \E c \in cells : t \in c.seqs /\ x = <<c.pos, c.token>>
    BY HeldBy
  <2>3. want'[t] = Held(cells, t) \cup (IF t = d THEN Lent(s, p0, p1) ELSE {})
    BY DEF KvInv, HeldIn
  <2>4. \A x : x \in want'[t] <=> x \in Held(cells', t)
    BY <1>3, <2>1, <2>2, <2>3
  <2> QED BY <2>4
<1>7. want' = HeldIn(cells')
  <2>1. want' = [t \in Seqs |-> want'[t]]
    BY DEF KvInv, HeldIn
  <2> QED BY <1>6, <2>1 DEF HeldIn
<1> QED BY <1>5, <1>7 DEF KvInv, Sound

-----------------------------------------------------------------------------
(* Moves. *)

Moved(s, p0, p1) == {c \in cells : Hit(c, s, CInt(p0), CInt(p1))}

CellsMoved(s, p0, p1, to) ==
    {d \in {IF Hit(c, s, CInt(p0), CInt(p1)) THEN [c EXCEPT !.pos = to[@]] ELSE c : c \in cells} :
        d.seqs # {}}

WantMoved(s, p0, p1, to) ==
    [t \in Seqs |->
        {IF x \in Part(s, p0, p1) /\ (\E c \in Of(cells, s) \cap Of(cells, t) : x[1] = c.pos)
         THEN <<to[x[1]], x[2]>> ELSE x : x \in want[t]}]

MovesApart(s, p0, p1, to) ==
    \A t \in Seqs : \A c, d \in Of(cells, t) : c # d =>
        /\ c.pos # d.pos
        /\ (IF c \in Moved(s, p0, p1) THEN to[c.pos] ELSE c.pos)
           # (IF d \in Moved(s, p0, p1) THEN to[d.pos] ELSE d.pos)

(* A shift or a division takes the cells it hits to where `to` says, in every *)
(* sequence they belong to.                                                  *)
LEMMA MoveStep ==
    ASSUME KvInv, NEW s \in Seqs, NEW p0 \in Bound, NEW p1 \in Bound, Fits(p0), Fits(p1),
           NEW to \in [Pos -> Int],
           \A c \in Moved(s, p0, p1) : to[c.pos] \in Pos,
           MovesApart(s, p0, p1, to),
           cells' = CellsMoved(s, p0, p1, to), want' = WantMoved(s, p0, p1, to)
    PROVE  KvInv'
<1> DEFINE moved == Moved(s, p0, p1)
           e(c) == IF c \in moved THEN [c EXCEPT !.pos = to[c.pos]] ELSE c
           at(c) == IF c \in moved THEN to[c.pos] ELSE c.pos
<1>2. ASSUME NEW c \in cells
      PROVE  e(c) \in Cell /\ e(c).pos = at(c) /\ e(c).token = c.token /\ e(c).seqs = c.seqs
  <2>1. c \in Cell
    BY DEF KvInv, Sound
  <2>2. CASE c \in moved
    <3>1. to[c.pos] \in Pos
      BY <2>2
    <3> QED BY <2>1, <2>2, <3>1 DEF Cell
  <2>3. CASE c \notin moved
    BY <2>1, <2>3
  <2> QED BY <2>2, <2>3
<1>1. cells' = {e(c) : c \in cells}
  <2> DEFINE r(c) == IF Hit(c, s, CInt(p0), CInt(p1)) THEN [c EXCEPT !.pos = to[@]] ELSE c
  <2>2. \A c \in cells : r(c) = e(c)
    BY DEF Moved
  <2>3. \A c \in cells : e(c).seqs # {}
    BY <1>2, CellType
  <2>4. cells' = {d \in {r(c) : c \in cells} : d.seqs # {}}
    BY DEF CellsMoved
  <2> HIDE DEF r, e
  <2> QED BY <2>2, <2>3, <2>4
<1>4. ASSUME NEW c \in cells, NEW t \in Seqs, t \in c.seqs
      PROVE  c \in moved <=> /\ <<c.pos, c.token>> \in Part(s, p0, p1)
                             /\ \E d \in Of(cells, s) \cap Of(cells, t) : c.pos = d.pos
  <2>1. c \in Cell /\ s >= 0 /\ s \in Int
    BY KvCacheAssumption DEF KvInv, Sound, Pos
  <2>2. c \in moved <=> s \in c.seqs /\ Within(<<c.pos, c.token>>, p0, p1)
    BY <2>1, InRange DEF Moved
  <2>3. ASSUME s \in c.seqs
        PROVE  /\ <<c.pos, c.token>> \in want[s]
               /\ c \in Of(cells, s) \cap Of(cells, t)
    BY <1>4, <2>3 DEF KvInv, HeldIn, Held, Of
  <2>4. ASSUME NEW d \in Of(cells, s) \cap Of(cells, t), c.pos = d.pos
        PROVE  s \in c.seqs
    BY <1>4, <2>4 DEF MovesApart, Of
  <2> QED BY <2>2, <2>3, <2>4 DEF Part
<1> HIDE DEF e
<1>5. Sound(cells')
  BY <1>1, <1>2 DEF Sound
<1>6. ASSUME NEW t \in Seqs PROVE want'[t] = Held(cells', t)
  <2> DEFINE g(x) == IF /\ x \in Part(s, p0, p1)
                        /\ \E c \in Of(cells, s) \cap Of(cells, t) : x[1] = c.pos
                     THEN <<to[x[1]], x[2]>> ELSE x
  <2>1. want'[t] = {g(x) : x \in Held(cells, t)}
    BY DEF KvInv, HeldIn, WantMoved
  <2>2. ASSUME NEW c \in cells, t \in c.seqs
        PROVE  g(<<c.pos, c.token>>) = <<e(c).pos, e(c).token>>
    <3>1. CASE c \in moved
      <4>1. g(<<c.pos, c.token>>) = <<to[c.pos], c.token>>
        BY <1>4, <2>2, <3>1
      <4> QED BY <1>2, <3>1, <4>1
    <3>2. CASE c \notin moved
      <4>1. g(<<c.pos, c.token>>) = <<c.pos, c.token>>
        BY <1>4, <2>2, <3>2
      <4> QED BY <1>2, <3>2, <4>1
    <3> QED BY <3>1, <3>2
  <2>3. Held(cells', t) = {<<e(c).pos, e(c).token>> : c \in Of(cells, t)}
    <3>1. \A x : x \in Held(cells', t) <=>
                 \E c \in cells : t \in e(c).seqs /\ x = <<e(c).pos, e(c).token>>
      BY <1>1, HeldBy
    <3>2. \A c \in cells : e(c).seqs = c.seqs
      BY <1>2
    <3> QED BY <3>1, <3>2 DEF Of
  <2> HIDE DEF g
  <2> DEFINE from(c) == g(<<c.pos, c.token>>)
             into(c) == <<e(c).pos, e(c).token>>
  <2>4. want'[t] = {from(c) : c \in Of(cells, t)}
    BY <2>1 DEF Held
  <2>5. Held(cells', t) = {into(c) : c \in Of(cells, t)}
    BY <2>3
  <2>6. \A c \in Of(cells, t) : from(c) = into(c)
    BY <2>2 DEF Of
  <2> HIDE DEF from, into
  <2> QED BY <2>4, <2>5, <2>6
<1>7. want' = HeldIn(cells')
  BY <1>6 DEF HeldIn, WantMoved
<1> QED BY <1>5, <1>7 DEF KvInv, Sound

-----------------------------------------------------------------------------
(* The operations. *)

LEMMA Untouched == KvInv /\ UNCHANGED context => KvInv'
BY DEF context, KvInv, Sound, Of, HeldIn, Held

LEMMA RemovalStep ==
    ASSUME KvInv, NEW p0 \in Bound, NEW p1 \in Bound,
           \/ \E src \in Options : ClearKvCacheSeq(src, p0, p1)
           \/ \E s \in Seqs : KvCacheSeqRm(s, p0, p1)
    PROVE  KvInv'
<1>1. CASE UNCHANGED context
  BY <1>1, Untouched
<1>2. ASSUME NEW src \in Options, ~ Refusal(src, p0, p1), Remove(CInt(src), p0, p1, Named(src))
      PROVE  KvInv'
  <2>1. Fits(src) /\ Fits(p0) /\ Fits(p1)
    BY <1>2 DEF Refusal
  <2>2. \/ src = {} /\ CInt(src) = -1
        \/ \E n \in Pos : src = {n} /\ CInt(src) = n
    BY <2>1, Converted DEF Bound
  <2>3. CInt(src) \in Int
    BY <2>2 DEF Pos
  <2>4. \A t \in Seqs : t \in Named(src) <=> CInt(src) < 0 \/ t = CInt(src)
    BY <2>2 DEF Named, Pos
  <2> QED BY <1>2, <2>1, <2>3, <2>4, RemoveStep
<1>3. ASSUME NEW s \in Seqs, ~ Refusal({}, p0, p1), Remove(s, p0, p1, {s})
      PROVE  KvInv'
  <2>1. Fits(p0) /\ Fits(p1)
    BY <1>3 DEF Refusal
  <2>2. s \in Int /\ s >= 0
    BY KvCacheAssumption DEF Pos
  <2>3. \A t \in Seqs : t \in {s} <=> s < 0 \/ t = s
    BY <2>2
  <2> QED BY <1>3, <2>1, <2>2, <2>3, RemoveStep
<1> QED BY <1>1, <1>2, <1>3 DEF ClearKvCacheSeq, KvCacheSeqRm, Refused

LEMMA CopyingStep ==
    ASSUME KvInv, NEW s \in Source, NEW d \in Seqs,
           \/ \E p0 \in Bound, p1 \in Bound : KvCacheSeqCp(s, d, p0, p1)
           \/ \E size \in Pos : CopyCache(s, d, size)
    PROVE  KvInv'
<1>0. s \in Int
  BY KvCacheAssumption DEF Source, Pos
<1>1. CASE UNCHANGED context
  BY <1>1, Untouched
<1>2. ASSUME NEW p0 \in Bound, NEW p1 \in Bound,
             ~ Refusal({}, p0, p1), Copied(s, d, CInt(p0), CInt(p1)),
             want' = [want EXCEPT ![d] = @ \cup Lent(s, p0, p1)]
      PROVE  KvInv'
  <2>1. Fits(p0) /\ Fits(p1)
    BY <1>2 DEF Refusal
  <2>2. \A c \in cells :
            Hit(c, s, CInt(p0), CInt(p1)) <=> /\ s < 0 \/ s \in c.seqs
                                              /\ Within(<<c.pos, c.token>>, p0, p1)
    BY <1>0, <2>1, InRange DEF KvInv, Sound
  <2> QED BY <1>2, <2>2, CopyStep DEF Copied
<1>3. ASSUME NEW size \in Pos, CopyCache(s, d, size)
      PROVE  KvInv'
  <2>1. \A c \in cells :
            Hit(c, s, 0, size) <=> /\ s < 0 \/ s \in c.seqs
                                   /\ Within(<<c.pos, c.token>>, {}, {size})
    <3> SUFFICES ASSUME NEW c \in cells
                 PROVE  Hit(c, s, 0, size) <=> /\ s < 0 \/ s \in c.seqs
                                               /\ Within(<<c.pos, c.token>>, {}, {size})
      OBVIOUS
    <3>1. c.pos \in Nat /\ size \in Nat
      BY KvCacheAssumption, CellType DEF KvInv, Sound, Pos
    <3> QED BY <3>1 DEF Hit, Within
  <2> QED BY <1>3, <2>1, CopyStep DEF CopyCache, Copied
<1> QED BY <1>1, <1>2, <1>3 DEF KvCacheSeqCp, Refused

(* A shift and a division are moves by a function of the positions.           *)
LEMMA ShiftStep ==
    ASSUME KvInv, NEW s \in Seqs, NEW p0 \in Bound, NEW p1 \in Bound, NEW delta \in Int,
           KvCacheSeqAdd(s, p0, p1, delta)
    PROVE  KvInv'
<1> DEFINE to == [p \in Pos |-> p + delta]
<1>1. \A p \in Pos : to[p] = p + delta /\ to[p] \in Int
  BY DEF Pos
<1>2. to \in [Pos -> Int]
  BY <1>1
<1>3. CASE UNCHANGED context
  BY <1>3, Untouched
<1>4. CASE ~ UNCHANGED context
  <2> DEFINE r(c) == [c EXCEPT !.pos = c.pos + delta]
             q(c) == [c EXCEPT !.pos = to[c.pos]]
  <2>1. /\ Fits(p0) /\ Fits(p1)
        /\ \A c \in Moved(s, p0, p1) : c.pos + delta \in Pos
        /\ \A t \in Seqs : \A c, d \in Of(cells, t) : c # d =>
               /\ c.pos # d.pos
               /\ (IF c \in Moved(s, p0, p1) THEN c.pos + delta ELSE c.pos)
                  # (IF d \in Moved(s, p0, p1) THEN d.pos + delta ELSE d.pos)
        /\ cells' = {e \in {IF Hit(c, s, CInt(p0), CInt(p1)) THEN r(c) ELSE c : c \in cells} : e.seqs # {}}
        /\ want' = [t \in Seqs |->
               {IF x \in Part(s, p0, p1) /\ (\E c \in Of(cells, s) \cap Of(cells, t) : x[1] = c.pos)
                THEN <<x[1] + delta, x[2]>> ELSE x : x \in want[t]}]
    BY <1>4 DEF KvCacheSeqAdd, Move, Refused, Refusal, Replace, Moved
  <2>2. \A c \in cells : c.pos \in Pos
    BY CellType DEF KvInv, Sound
  <2>3. \A c \in Moved(s, p0, p1) : to[c.pos] \in Pos
    BY <1>1, <2>1, <2>2 DEF Moved
  <2>4. MovesApart(s, p0, p1, to)
    <3>1. \A t \in Seqs : \A c \in Of(cells, t) : to[c.pos] = c.pos + delta
      BY <1>1, <2>2 DEF Of
    <3> HIDE DEF to
    <3> QED BY <2>1, <3>1 DEF MovesApart
  <2>5. cells' = CellsMoved(s, p0, p1, to)
    <3>1. \A c \in cells : r(c) = q(c)
      BY <1>1, <2>2
    <3>2. CellsMoved(s, p0, p1, to) =
              {e \in {IF Hit(c, s, CInt(p0), CInt(p1)) THEN q(c) ELSE c : c \in cells} : e.seqs # {}}
      BY DEF CellsMoved
    <3> HIDE DEF r, q
    <3> QED BY <2>1, <3>1, <3>2
  <2>6. want' = WantMoved(s, p0, p1, to)
    <3>1. \A t \in Seqs : \A x \in want[t] : to[x[1]] = x[1] + delta
      <4>1. \A t \in Seqs : \A x \in want[t] : x[1] \in Pos
        BY <2>2, HeldBy DEF KvInv, HeldIn
      <4> QED BY <1>1, <4>1
    <3> HIDE DEF to
    <3> QED BY <2>1, <3>1 DEF WantMoved
  <2> HIDE DEF to
  <2> QED BY <1>2, <2>1, <2>3, <2>4, <2>5, <2>6, MoveStep
<1> QED BY <1>3, <1>4

LEMMA DivideStep ==
    ASSUME KvInv, NEW s \in Seqs, NEW p0 \in Bound, NEW p1 \in Bound,
           KvCacheSeqDiv(s, p0, p1, 2)
    PROVE  KvInv'
<1> DEFINE to == [p \in Pos |-> p \div 2]
<1>1. \A p \in Pos : to[p] = p \div 2 /\ to[p] \in Int
  BY DEF Pos
<1>2. to \in [Pos -> Int]
  BY <1>1
<1>3. CASE UNCHANGED context
  BY <1>3, Untouched
<1>4. CASE ~ UNCHANGED context
  <2> DEFINE r(c) == [c EXCEPT !.pos = c.pos \div 2]
             q(c) == [c EXCEPT !.pos = to[c.pos]]
  <2>1. /\ Fits(p0) /\ Fits(p1)
        /\ \A c \in Moved(s, p0, p1) : c.pos \div 2 \in Pos
        /\ \A t \in Seqs : \A c, d \in Of(cells, t) : c # d =>
               /\ c.pos # d.pos
               /\ (IF c \in Moved(s, p0, p1) THEN c.pos \div 2 ELSE c.pos)
                  # (IF d \in Moved(s, p0, p1) THEN d.pos \div 2 ELSE d.pos)
        /\ cells' = {e \in {IF Hit(c, s, CInt(p0), CInt(p1)) THEN r(c) ELSE c : c \in cells} : e.seqs # {}}
        /\ want' = [t \in Seqs |->
               {IF x \in Part(s, p0, p1) /\ (\E c \in Of(cells, s) \cap Of(cells, t) : x[1] = c.pos)
                THEN <<x[1] \div 2, x[2]>> ELSE x : x \in want[t]}]
    BY <1>4 DEF KvCacheSeqDiv, Move, Refused, Refusal, Replace, Moved
  <2>2. \A c \in cells : c.pos \in Pos
    BY CellType DEF KvInv, Sound
  <2>3. \A c \in Moved(s, p0, p1) : to[c.pos] \in Pos
    BY <1>1, <2>1, <2>2 DEF Moved
  <2>4. MovesApart(s, p0, p1, to)
    <3>1. \A t \in Seqs : \A c \in Of(cells, t) : to[c.pos] = c.pos \div 2
      BY <1>1, <2>2 DEF Of
    <3> HIDE DEF to
    <3> QED BY <2>1, <3>1 DEF MovesApart
  <2>5. cells' = CellsMoved(s, p0, p1, to)
    <3>1. \A c \in cells : r(c) = q(c)
      BY <1>1, <2>2
    <3>2. CellsMoved(s, p0, p1, to) =
              {e \in {IF Hit(c, s, CInt(p0), CInt(p1)) THEN q(c) ELSE c : c \in cells} : e.seqs # {}}
      BY DEF CellsMoved
    <3> HIDE DEF r, q
    <3> QED BY <2>1, <3>1, <3>2
  <2>6. want' = WantMoved(s, p0, p1, to)
    <3>1. \A t \in Seqs : \A x \in want[t] : to[x[1]] = x[1] \div 2
      <4>1. \A t \in Seqs : \A x \in want[t] : x[1] \in Pos
        BY <2>2, HeldBy DEF KvInv, HeldIn
      <4> QED BY <1>1, <4>1
    <3> HIDE DEF to
    <3> QED BY <2>1, <3>1 DEF WantMoved
  <2> HIDE DEF to
  <2> QED BY <1>2, <2>1, <2>3, <2>4, <2>5, <2>6, MoveStep
<1> QED BY <1>3, <1>4

LEMMA KeepOneStep ==
    ASSUME KvInv, NEW s \in Seqs, SeqKeep(s)
    PROVE  KvInv'
<1> DEFINE e(c) == [c EXCEPT !.seqs = {s}]
<1>1. cells' = {e(c) : c \in Of(cells, s)}
  BY DEF SeqKeep
<1>2. ASSUME NEW c \in cells
      PROVE  /\ e(c) \in Cell /\ e(c).pos = c.pos /\ e(c).token = c.token /\ e(c).seqs = {s}
  <2>1. {s} \in (SUBSET Seqs) \ {{}}
    OBVIOUS
  <2> QED BY <2>1 DEF KvInv, Sound, Cell
<1> HIDE DEF e
<1>3. Sound(cells')
  BY <1>1, <1>2 DEF Sound, Of
<1>4. ASSUME NEW t \in Seqs PROVE want'[t] = Held(cells', t)
  <2>1. \A x : x \in Held(cells', t) <=>
            \E c \in Of(cells, s) : t \in e(c).seqs /\ x = <<e(c).pos, e(c).token>>
    BY <1>1, HeldBy
  <2>2. \A x : x \in Held(cells', t) <=>
            t = s /\ \E c \in cells : s \in c.seqs /\ x = <<c.pos, c.token>>
    <3>1. \A c \in cells : <<e(c).pos, e(c).token>> = <<c.pos, c.token>> /\ e(c).seqs = {s}
      BY <1>2
    <3> QED BY <2>1, <3>1 DEF Of
  <2>3. \A x : x \in want'[t] <=> t = s /\ x \in Held(cells, s)
    BY DEF SeqKeep, KvInv, HeldIn
  <2>4. \A x : x \in want'[t] <=> x \in Held(cells', t)
    BY <2>2, <2>3, HeldBy
  <2> QED BY <2>4
<1>5. want' = HeldIn(cells')
  BY <1>4 DEF HeldIn, SeqKeep
<1> QED BY <1>3, <1>5 DEF KvInv, Sound

LEMMA ClearStep ==
    ASSUME ClearKvCache PROVE KvInv'
BY DEF ClearKvCache, KvInv, Sound, Of, HeldIn, Held

(* A set of positions has a largest one.                                     *)
LEMMA LargestPosition ==
    ASSUME NEW S \in SUBSET Pos, S # {}
    PROVE  Max(S) \in S /\ \A x \in S : x <= Max(S)
<1> USE KvCacheAssumption DEF Pos
<1> DEFINE R == OpToRel(LAMBDA a, b : a < b, Nat)
           T == {Top - x : x \in S}
<1>0. \A x \in S : x \in Int /\ 0 <= x /\ x <= Top
  OBVIOUS
<1>1. T \subseteq Nat /\ T # {}
  <2>1. \A x \in S : Top - x \in Nat
    BY <1>0
  <2> QED BY <2>1
<1>2. IsWellFoundedOn(R, Nat)
  BY NatLessThanWellFounded
<1>3. PICK x \in T : \A y \in T : ~ (<<y, x>> \in R)
  <2> HIDE DEF R, T
  <2> QED BY <1>1, <1>2, WFMin
<1>4. \A y \in T : ~ (y < x)
  BY <1>1, <1>3 DEF OpToRel
<1>5. PICK m \in S : x = Top - m
  OBVIOUS
<1>6. \A y \in S : m >= y
  <2>1. \A y \in S : ~ (Top - y < Top - m)
    BY <1>4, <1>5
  <2> QED BY <1>0, <2>1
<1>7. Max(S) \in S /\ \A y \in S : Max(S) >= y
  BY <1>6 DEF Max
<1> QED BY <1>7

LEMMA DecodeStep ==
    ASSUME KvInv, NEW s \in Seqs, NEW token \in Tokens, Decode(s, token)
    PROVE  KvInv'
<1> USE KvCacheAssumption
<1> DEFINE n == [pos |-> PosMax(s) + 1, token |-> token, seqs |-> {s}]
<1>1. PosMax(s) + 1 \in Pos
  <2>0. PosMax(s) < Top
    BY DEF Decode
  <2>1. CASE Of(cells, s) = {}
    BY <2>0, <2>1 DEF PosMax, Pos
  <2>2. CASE Of(cells, s) # {}
    <3>1. Positions(cells, s) \in SUBSET Pos /\ Positions(cells, s) # {}
      BY <2>2, CellType DEF Positions, KvInv, Sound, Of
    <3>2. PosMax(s) \in Positions(cells, s) /\ \A x \in Positions(cells, s) : x <= PosMax(s)
      BY <2>2, <3>1, LargestPosition DEF PosMax
    <3>3. \A c \in Of(cells, s) : c.pos \in Positions(cells, s)
      BY DEF Positions
    <3> QED BY <2>0, <3>1, <3>2, <3>3 DEF Pos
  <2> QED BY <2>1, <2>2
<1>2. cells' = cells \cup {n} /\ want' = [want EXCEPT ![s] = @ \cup {<<n.pos, token>>}]
  BY DEF Decode
<1>3. n \in Cell /\ n.seqs = {s} /\ n.token = token /\ n.pos = PosMax(s) + 1
  <2>1. {s} \in (SUBSET Seqs) \ {{}}
    OBVIOUS
  <2> QED BY <1>1, <2>1 DEF Cell
<1> HIDE DEF n
<1>4. Sound(cells')
  BY <1>2, <1>3 DEF KvInv, Sound
<1>5. ASSUME NEW t \in Seqs PROVE want'[t] = Held(cells', t)
  <2>1. \A x : x \in Held(cells', t) <=>
            x \in Held(cells, t) \/ (t = s /\ x = <<n.pos, token>>)
    BY <1>2, <1>3, HeldBy
  <2>2. \A x : x \in want'[t] <=> x \in Held(cells, t) \/ (t = s /\ x = <<n.pos, token>>)
    BY <1>2 DEF KvInv, HeldIn
  <2>3. \A x : x \in want'[t] <=> x \in Held(cells', t)
    BY <2>1, <2>2
  <2> QED BY <2>3
<1>6. want' = HeldIn(cells')
  <2>1. want' = [t \in Seqs |-> want'[t]]
    BY <1>2 DEF KvInv, HeldIn
  <2> QED BY <1>5, <2>1 DEF HeldIn
<1> QED BY <1>4, <1>6 DEF KvInv, Sound

LEMMA KvNextStep ==
    ASSUME KvInv, KvNext PROVE KvInv'
<1>1. ASSUME NEW p0 \in Options, NEW p1 \in Options \cup {{0}},
             \/ \E src \in Options : ClearKvCacheSeq(src, p0, p1)
             \/ \E s \in Seqs :
                 \/ KvCacheSeqRm(s, p0, p1)
                 \/ \E delta \in Shifts : KvCacheSeqAdd(s, p0, p1, delta)
                 \/ KvCacheSeqDiv(s, p0, p1, 2)
             \/ \E s \in Source, d \in Seqs : CopyKvCacheSeq(s, d, p0, p1)
      PROVE  KvInv'
  <2>1. p0 \in Bound /\ p1 \in Bound
    BY DEF Bound
  <2>2. CASE \E src \in Options : ClearKvCacheSeq(src, p0, p1)
    BY <2>1, <2>2, RemovalStep
  <2>3. CASE \E s \in Seqs : KvCacheSeqRm(s, p0, p1)
    BY <2>1, <2>3, RemovalStep
  <2>4. CASE \E s \in Source, d \in Seqs : CopyKvCacheSeq(s, d, p0, p1)
    BY <2>1, <2>4, CopyingStep DEF CopyKvCacheSeq
  <2>5. CASE \E s \in Seqs, delta \in Shifts : KvCacheSeqAdd(s, p0, p1, delta)
    BY <2>1, <2>5, ShiftStep, KvCacheAssumption
  <2>6. CASE \E s \in Seqs : KvCacheSeqDiv(s, p0, p1, 2)
    BY <2>1, <2>6, DivideStep
  <2> QED BY <1>1, <2>2, <2>3, <2>4, <2>5, <2>6
<1>2. CASE \E s \in Source, d \in Seqs, size \in Pos : CopyCache(s, d, size)
  BY <1>2, CopyingStep
<1>3. CASE \E s \in Seqs : SeqKeep(s) \/ \E token \in Tokens : Decode(s, token)
  BY <1>3, KeepOneStep, DecodeStep
<1>4. CASE ClearKvCache
  BY <1>4, ClearStep
<1> QED BY <1>1, <1>2, <1>3, <1>4 DEF KvNext, Source

-----------------------------------------------------------------------------
(* Kept states. *)

(* What a sequence held.                                                     *)
Placed(held) == held \subseteq Pos \X Tokens

WellKept(st) ==
    /\ "flags" \in DOMAIN st =>
           /\ st.bytes = {} \/ \E data : st.bytes = {data}
           /\ Placed(st.at.held)
           /\ \A data \in st.bytes :
                  /\ Placed(data.held) /\ data.run = st.at.run
                  /\ Partial(st.flags) \/ data.held = st.at.held
    /\ "cells" \in DOMAIN st =>
           Sound(st.cells) /\ DOMAIN st.run = Seqs /\ st.tokens \in Int

KeptSound == \A st \in kept : WellKept(st)

RunTyped == DOMAIN run = Seqs

SessionInv == KvInv /\ RunTyped /\ KeptSound

LEMMA HeldPlaced ==
    ASSUME KvInv, NEW s \in Seqs
    PROVE  Placed(Held(cells, s))
<1>1. ASSUME NEW x \in Held(cells, s)
      PROVE  \E c \in cells : s \in c.seqs /\ x = <<c.pos, c.token>> /\ x \in Pos \X Tokens
  BY HeldBy, CellType DEF KvInv, Sound
<1> QED BY <1>1 DEF Placed, KvInv, Sound

LEMMA DroppedFrom ==
    ASSUME Sound(cells), NEW d \in Seqs, NEW c \in cells
    PROVE  /\ Drop(c, d).pos = c.pos /\ Drop(c, d).token = c.token
           /\ Drop(c, d).seqs = c.seqs \ {d}
           /\ Drop(c, d).seqs # {} => Drop(c, d) \in Cell
<1>1. d \in Int /\ d >= 0
  BY KvCacheAssumption DEF Pos
<1>2. c \in Cell
  BY DEF Sound
<1>3. ~ (d < 0) /\ d \in Int
  BY <1>1
<1>4. /\ Drop(c, d).pos = c.pos /\ Drop(c, d).token = c.token
      /\ Drop(c, d).seqs = IF d < 0 THEN {} ELSE c.seqs \ {d}
      /\ Drop(c, d).seqs # {} => Drop(c, d) \in Cell
  BY <1>2, <1>3, Dropped, Zenon
<1> QED BY <1>3, <1>4

LEMMA WithoutSound ==
    ASSUME Sound(cells), NEW d \in Seqs
    PROVE  /\ Sound({c \in {Drop(c, d) : c \in cells} : c.seqs # {}})
           /\ \A c \in {Drop(c, d) : c \in cells} : d \notin c.seqs
<1> DEFINE g(c) == Drop(c, d)
           Left == {c \in {g(c) : c \in cells} : c.seqs # {}}
<1>1. \A c \in cells : /\ g(c).pos = c.pos /\ g(c).token = c.token /\ g(c).seqs = c.seqs \ {d}
                       /\ g(c).seqs # {} => g(c) \in Cell
  BY DroppedFrom
<1> HIDE DEF g
<1>2. Sound(Left)
  BY <1>1 DEF Sound
<1>3. \A c \in {g(c) : c \in cells} : d \notin c.seqs
  BY <1>1
<1> QED BY <1>2, <1>3 DEF g

(* A restore gives the sequence cells of its own.                            *)
LEMMA RestoreStep ==
    ASSUME KvInv, NEW d \in Seqs, NEW data, NEW flags, Placed(data.held),
           Restored(data, flags, d)
    PROVE  KvInv'
<1> DEFINE Left == {c \in {Drop(c, d) : c \in cells} : c.seqs # {}}
           n(x) == [pos |-> x[1], token |-> x[2], seqs |-> {d}]
           New == {n(x) : x \in data.held}
<1>1. want' = HeldIn(cells')
  BY DEF Restored
<1>2. CASE cells' = cells
  BY <1>1, <1>2 DEF KvInv
<1>3. CASE cells' = Left \cup New
  <2>1. Sound(Left) /\ \A c \in Left : d \notin c.seqs
    BY WithoutSound DEF KvInv
  <2>2. \A x \in data.held : n(x) \in Cell /\ n(x).pos = x[1] /\ n(x).seqs = {d}
    <3>1. {d} \in (SUBSET Seqs) \ {{}}
      OBVIOUS
    <3> QED BY <3>1 DEF Placed, Cell
  <2>3. \A c \in New : c \in Cell /\ c.seqs = {d}
    <3> HIDE DEF n
    <3> QED BY <2>2
  <2> HIDE DEF Left, New
  <2>5. Sound(cells')
    BY <1>3, <2>1, <2>3 DEF Sound
  <2> QED BY <1>1, <2>5 DEF KvInv, Sound
<1> QED BY <1>2, <1>3 DEF Restored

LEMMA LoseStep ==
    ASSUME KvInv, NEW d \in Seqs, NEW flags, Lost(flags, d)
    PROVE  KvInv'
<1> DEFINE Left == {c \in {Drop(c, d) : c \in cells} : c.seqs # {}}
<1>1. cells' = cells \/ cells' = Left
  BY DEF Lost
<1>2. Sound(Left)
  BY WithoutSound DEF KvInv
<1>3. want' = HeldIn(cells')
  BY DEF Lost
<1> HIDE DEF Left
<1>4. Sound(cells')
  BY <1>1, <1>2 DEF KvInv
<1> QED BY <1>3, <1>4 DEF KvInv, Sound

LEMMA LengthTyped ==
    ASSUME NEW held, Placed(held)
    PROVE  Length(held) \in Int
<1>1. CASE held = {}
  BY <1>1 DEF Length
<1>2. CASE held # {}
  <2> DEFINE S == {x[1] : x \in held}
  <2>1. S \in SUBSET Pos /\ S # {}
    BY <1>2 DEF Placed
  <2>2. Max(S) \in Int
    <3> HIDE DEF S
    <3>1. Max(S) \in Pos
      BY <2>1, LargestPosition
    <3>2. Pos \subseteq Int
      BY KvCacheAssumption DEF Pos
    <3> QED BY <3>1, <3>2
  <2> QED BY <1>2, <2>2 DEF Length
<1> QED BY <1>1, <1>2

(* Whatever is kept is a state of a sequence or of a whole context.           *)
Keepable(s, flags) ==
    {SeqState(s, flags, {}), SeqState(s, flags, {DataOf(s, flags)}), Whole(s)}

LEMMA KeepStep ==
    ASSUME SessionInv, NEW s \in Seqs, NEW flags \in Flags,
           NEW record \in Keepable(s, flags), Keep(record)
    PROVE  SessionInv'
<1>1. UNCHANGED context /\ kept' = kept \cup {record}
  BY DEF Keep
<1>2. KvInv'
  BY <1>1, Untouched DEF SessionInv
<1>3. WellKept(record)
  <2>1. ASSUME NEW bytes \in {{}, {DataOf(s, flags)}}, record = SeqState(s, flags, bytes)
        PROVE  WellKept(record)
    <3>1. Placed(Held(cells, s)) /\ Placed({})
      BY HeldPlaced DEF Placed, SessionInv
    <3>2. /\ record.bytes = bytes /\ record.flags = flags /\ record.at = DataOf(s, {})
          /\ "flags" \in DOMAIN record /\ "cells" \notin DOMAIN record
      BY <2>1 DEF SeqState
    <3>3. /\ DataOf(s, {}).held = Held(cells, s) /\ DataOf(s, {}).run = run[s]
          /\ DataOf(s, flags).held = IF Partial(flags) THEN {} ELSE Held(cells, s)
          /\ DataOf(s, flags).run = run[s]
      BY DEF DataOf, Partial
    <3>4. bytes = {} \/ bytes = {DataOf(s, flags)}
      OBVIOUS
    <3> HIDE DEF Partial
    <3> QED BY <3>1, <3>2, <3>3, <3>4 DEF WellKept
  <2>2. CASE record = Whole(s)
    <3>1. /\ "flags" \notin DOMAIN record /\ "cells" \in DOMAIN record
          /\ record.cells = cells /\ record.run = run
          /\ record.tokens = Length(Held(cells, s))
      BY <2>2 DEF Whole
    <3>2. record.tokens \in Int
      BY <3>1, HeldPlaced, LengthTyped DEF SessionInv
    <3> QED BY <3>1, <3>2 DEF SessionInv, KvInv, RunTyped, WellKept
  <2> QED BY <2>1, <2>2 DEF Keepable
<1>4. KeptSound'
  BY <1>1, <1>3 DEF SessionInv, KeptSound, WellKept, Sound, Placed
<1> QED BY <1>1, <1>2, <1>4 DEF SessionInv, RunTyped, context

LEMMA KeptSame == KeptSound /\ kept' \subseteq kept => KeptSound'
BY DEF KeptSound, WellKept, Sound, Placed

(* A restore that is tried, from a buffer or from a file.                     *)
LEMMA SetDataStep ==
    ASSUME SessionInv, NEW st \in OfSequence, NEW d \in Seqs, NEW flags, NEW n,
           SetData(st.bytes, flags, d, n), kept' \subseteq kept
    PROVE  SessionInv'
<1>1. \A data \in st.bytes : Placed(data.held)
  BY DEF OfSequence, SessionInv, KeptSound, WellKept
<1>2. CASE \E data \in st.bytes : Restored(data, flags, d)
  <2>1. KvInv'
    BY <1>1, <1>2, RestoreStep DEF SessionInv
  <2>2. RunTyped'
    BY <1>2 DEF Restored, SessionInv, RunTyped
  <2> QED BY <2>1, <2>2, KeptSame DEF SessionInv
<1>3. CASE Lost(flags, d)
  <2>1. KvInv'
    BY <1>3, LoseStep DEF SessionInv
  <2>2. RunTyped'
    BY <1>3 DEF Lost, Emptied, RunTyped
  <2> QED BY <2>1, <2>2, KeptSame DEF SessionInv
<1>4. CASE UNCHANGED context
  BY <1>4, Untouched, KeptSame DEF SessionInv, RunTyped, context
<1> QED BY <1>2, <1>3, <1>4 DEF SetData

LEMMA SeqLoadStep ==
    ASSUME SessionInv, NEW st \in OfSequence, NEW d \in Seqs,
           StateSeqSet(st, d) \/ \E max \in 0 .. Top + 1 : StateSeqLoadFile(st, d, max)
    PROVE  SessionInv'
<1>1. kept' \subseteq kept
  BY DEF StateSeqSet, StateSeqLoadFile
<1>2. CASE StateSeqSet(st, d)
  BY <1>1, <1>2, SetDataStep DEF StateSeqSet
<1>3. CASE \E max \in 0 .. Top + 1 : StateSeqLoadFile(st, d, max)
  <2>1. \/ SetData(st.bytes, {}, d, Size(st.bytes))
        \/ SetData(st.bytes, {}, d, 0)
    BY <1>3 DEF StateSeqLoadFile, SetData
  <2> QED BY <1>1, <2>1, SetDataStep
<1> QED BY <1>2, <1>3

LEMMA KvRunStep ==
    ASSUME RunTyped, KvNext PROVE RunTyped'
<1>1. ASSUME NEW src, NEW p0, NEW p1, ClearKvCacheSeq(src, p0, p1) PROVE RunTyped'
  BY <1>1 DEF ClearKvCacheSeq, Remove, Refused, Emptied, context, RunTyped
<1>2. ASSUME NEW s, NEW p0, NEW p1, KvCacheSeqRm(s, p0, p1) PROVE RunTyped'
  BY <1>2 DEF KvCacheSeqRm, Remove, Refused, Emptied, context, RunTyped
<1>3. ASSUME NEW s, NEW d, NEW p0, NEW p1, KvCacheSeqCp(s, d, p0, p1) PROVE RunTyped'
  BY <1>3 DEF KvCacheSeqCp, Copied, Refused, context, RunTyped
<1>4. ASSUME NEW s, NEW d, NEW size, CopyCache(s, d, size) PROVE RunTyped'
  BY <1>4 DEF CopyCache, Copied, RunTyped
<1>5. ASSUME NEW s, NEW p0, NEW p1, NEW delta,
             KvCacheSeqAdd(s, p0, p1, delta) \/ KvCacheSeqDiv(s, p0, p1, 2)
      PROVE  RunTyped'
  <2>1. UNCHANGED run
    BY <1>5 DEF KvCacheSeqAdd, KvCacheSeqDiv, Move, Refused, context
  <2> QED BY <2>1 DEF RunTyped
<1>6. ASSUME NEW s, SeqKeep(s) \/ \E token \in Tokens : Decode(s, token) PROVE RunTyped'
  BY <1>6 DEF SeqKeep, Decode, Emptied, RunTyped
<1>7. CASE ClearKvCache
  BY <1>7 DEF ClearKvCache, RunTyped
<1> QED BY <1>1, <1>2, <1>3, <1>4, <1>5, <1>6, <1>7 DEF KvNext, CopyKvCacheSeq

LEMMA SessionInvInit == SessionInit => SessionInv
BY DEF SessionInit, KvInit, SessionInv, RunTyped, KvInv, Sound, Of, KeptSound

LEMMA SessionInvNext == SessionInv /\ [Next]_vars => SessionInv'
<1> SUFFICES ASSUME SessionInv, [Next]_vars PROVE SessionInv'
  OBVIOUS
<1> USE DEF SessionInv
<1>1. CASE UNCHANGED context /\ kept' \subseteq kept
  BY <1>1, Untouched, KeptSame DEF RunTyped, context
<1>2. CASE KvNext /\ UNCHANGED kept
  BY <1>2, KvNextStep, KvRunStep, KeptSame
<1>3. ASSUME NEW s \in Seqs,
             \/ \E flags \in Flags : StateSeqGet(s, flags) \/ StateSeqGetDataExt(s, flags)
             \/ StateSeqSaveFile(s)
             \/ StateSaveFile(s) \/ SaveSessionFile(s) \/ CopyStateData(s)
      PROVE  SessionInv'
  <2>1. CASE Failed
    BY <1>1, <2>1 DEF Failed
  <2>2. ASSUME NEW flags \in Flags, NEW record \in Keepable(s, flags), Keep(record)
        PROVE  SessionInv'
    BY <2>2, KeepStep
  <2>3. {} \in Flags
    BY DEF Flags
  <2>4. ASSUME NEW flags \in Flags
        PROVE  Whole(s) \in Keepable(s, flags)
               /\ \A bytes \in Written(s, flags) : SeqState(s, flags, bytes) \in Keepable(s, flags)
    BY DEF Keepable, Written
  <2>5. SeqState(s, {}, {DataOf(s, {})}) \in Keepable(s, {})
    BY DEF Keepable
  <2> QED BY <1>3, <2>1, <2>2, <2>3, <2>4, <2>5 DEF StateSeqGet, StateSeqGetDataExt,
                StateSeqSaveFile, StateSaveFile, SaveSessionFile, CopyStateData
<1>4. ASSUME NEW st \in OfSequence, NEW d \in Seqs,
             \/ StateSeqSet(st, d) \/ StateSeqSetDataExt(st, d)
             \/ \E max \in 0 .. Top + 1 : StateSeqLoadFile(st, d, max)
      PROVE  SessionInv'
  BY <1>4, SeqLoadStep DEF StateSeqSetDataExt
<1>6. ASSUME NEW st \in OfContext, RestoredWhole(st)
      PROVE  SessionInv'
  <2>1. Sound(st.cells)
    BY DEF OfContext, KeptSound, WellKept
  <2>2. KvInv'
    BY <1>6, <2>1 DEF RestoredWhole, KvInv, Sound
  <2>3. RunTyped'
    BY <1>6 DEF RestoredWhole, RunTyped, OfContext, KeptSound, WellKept
  <2> QED BY <1>6, <2>2, <2>3, KeptSame DEF RestoredWhole
<1>7. ASSUME NEW st \in OfContext,
             \/ \E max \in 0 .. Top + 1 : StateLoadFile(st, max) \/ LoadSessionFile(st, max)
             \/ SetStateData(st)
      PROVE  SessionInv'
  BY <1>1, <1>6, <1>7 DEF StateLoadFile, LoadSessionFile, SetStateData, Failed
<1>8. CASE \E st \in kept : Forget(st)
  BY <1>1, <1>8 DEF Forget
<1>9. CASE UNCHANGED vars
  BY <1>1, <1>9 DEF vars, kvVars
<1> HIDE DEF SessionInv
<1> QED BY <1>2, <1>3, <1>4, <1>7, <1>8, <1>9 DEF Next

(* Cells of a restored sequence, and of the others.                          *)
LEMMA RestoredHeld ==
    ASSUME KvInv, NEW d \in Seqs, NEW data, NEW flags, Placed(data.held), ~ Partial(flags),
           Restored(data, flags, d)
    PROVE  /\ Held(cells', d) = data.held
           /\ \A s \in Seqs \ {d} : Held(cells', s) = Held(cells, s)
<1> DEFINE g(c) == Drop(c, d)
           Left == {c \in {g(c) : c \in cells} : c.seqs # {}}
           n(x) == [pos |-> x[1], token |-> x[2], seqs |-> {d}]
           New == {n(x) : x \in data.held}
<1>1. cells' = Left \cup New
  BY DEF Restored
<1>2. \A x \in data.held : /\ n(x).pos = x[1] /\ n(x).token = x[2] /\ n(x).seqs = {d}
                           /\ x = <<x[1], x[2]>>
  BY DEF Placed
<1>3. \A c \in Left : d \notin c.seqs
  BY WithoutSound DEF KvInv
<1>4. \A c \in cells : g(c).pos = c.pos /\ g(c).token = c.token /\ g(c).seqs = c.seqs \ {d}
  BY DroppedFrom DEF KvInv
<1> HIDE DEF g, n
<1>5. \A x : x \in Held(cells', d) <=> x \in data.held
  <2> HIDE DEF Left
  <2> QED BY <1>1, <1>2, <1>3, HeldBy
<1>6. ASSUME NEW s \in Seqs \ {d} PROVE Held(cells', s) = Held(cells, s)
  <2>1. \A c \in New : s \notin c.seqs
    BY <1>2
  <2>2. \A x : x \in Held(cells', s) <=> \E c \in Left : s \in c.seqs /\ x = <<c.pos, c.token>>
    <3> HIDE DEF Left, New
    <3> QED BY <1>1, <2>1, HeldBy
  <2>3. \A x : x \in Held(cells', s) <=>
            \E c \in cells : s \in g(c).seqs /\ x = <<g(c).pos, g(c).token>>
    BY <2>2
  <2>4. \A c \in cells : /\ <<g(c).pos, g(c).token>> = <<c.pos, c.token>>
                         /\ s \in g(c).seqs <=> s \in c.seqs
    BY <1>4
  <2>5. \A x : x \in Held(cells', s) <=>
            \E c \in cells : s \in c.seqs /\ x = <<c.pos, c.token>>
    BY <2>3, <2>4
  <2>6. \A x : x \in Held(cells', s) <=> x \in Held(cells, s)
    BY <2>5, HeldBy
  <2> QED BY <2>6
<1> QED BY <1>5, <1>6

(* A failed restore disturbs the sequence it was for, and no other.           *)
LEMMA LostHeld ==
    ASSUME KvInv, NEW d \in Seqs, NEW flags, Lost(flags, d)
    PROVE  \A s \in Seqs \ {d} : Held(cells', s) = Held(cells, s)
<1> DEFINE g(c) == Drop(c, d)
           Left == {c \in {g(c) : c \in cells} : c.seqs # {}}
<1>1. cells' = cells \/ cells' = Left
  BY DEF Lost
<1>2. \A c \in cells : g(c).pos = c.pos /\ g(c).token = c.token /\ g(c).seqs = c.seqs \ {d}
  BY DroppedFrom DEF KvInv
<1> HIDE DEF g
<1>3. ASSUME NEW s \in Seqs \ {d} PROVE Held(Left, s) = Held(cells, s)
  <2>1. \A x : x \in Held(Left, s) <=>
            \E c \in cells : s \in g(c).seqs /\ x = <<g(c).pos, g(c).token>>
    BY HeldBy
  <2>2. \A c \in cells : /\ <<g(c).pos, g(c).token>> = <<c.pos, c.token>>
                         /\ s \in g(c).seqs <=> s \in c.seqs
    BY <1>2
  <2>3. \A x : x \in Held(Left, s) <=> x \in Held(cells, s)
    BY <2>1, <2>2, HeldBy
  <2> QED BY <2>3
<1> QED BY <1>1, <1>3

(* RangesAsDocumented: whatever the bounds, the shifts and the number of      *)
(* sequences, and after any series of removals, copies, shifts, restores and  *)
(* failed restores, a sequence holds exactly what the documented ranges of    *)
(* kv_cache.rs leave it.                                                     *)
THEOREM Documented == Spec => []RangesAsDocumented
<1>1. SessionInv => RangesAsDocumented
  BY DEF SessionInv, KvInv, HeldIn, RangesAsDocumented
<1> QED BY <1>1, SessionInvInit, SessionInvNext, PTL DEF Spec

(* The buffer of one state is all that is read, or the restore failed.        *)
LEMMA OneState == ASSUME NEW data PROVE Size({data}) = 1
BY FS_Singleton DEF Size

(* RestoreRewinds: a state put back with success, into any sequence and any   *)
(* time after its capture, makes that sequence what it was then, unless the   *)
(* state is empty, and leaves the others alone.                              *)
THEOREM Rewinds == Spec => RestoreRewinds
<1>1. ASSUME SessionInv, NEW st \in OfSequence, NEW d \in Seqs, result' = 0, StateSeqSet(st, d)
      PROVE  /\ (st.bytes # {} /\ recurrent) => run'[d] = st.at.run
             /\ IF Partial(st.flags) THEN UNCHANGED cells
                ELSE st.bytes # {} => Held(cells', d) = st.at.held
             /\ \A s \in Seqs \ {d} : Held(cells', s) = Held(cells, s)
  <2>0. KvInv
    BY <1>1 DEF SessionInv
  <2>1. SetData(st.bytes, st.flags, d, Size(st.bytes))
    BY <1>1 DEF StateSeqSet, Error
  <2>2. CASE st.bytes = {}
    <3>1. Lost(st.flags, d)
      <4>1. Size(st.bytes) = 0
        BY <2>2, FS_EmptySet DEF Size
      <4> QED BY <2>1, <2>2, <4>1 DEF SetData, Unsupported
    <3>2. CASE Partial(st.flags)
      <4>1. cells' = cells
        BY <3>1, <3>2 DEF Lost
      <4> QED BY <2>2, <3>2, <4>1
    <3>3. CASE ~ Partial(st.flags)
      BY <2>0, <2>2, <3>1, <3>3, LostHeld
    <3> QED BY <3>2, <3>3
  <2>3. CASE st.bytes # {}
    <3>1. PICK data : st.bytes = {data}
      BY <1>1, <2>3 DEF OfSequence, SessionInv, KeptSound, WellKept
    <3>2. /\ Placed(data.held) /\ data.run = st.at.run
          /\ Partial(st.flags) \/ data.held = st.at.held
      BY <1>1, <3>1 DEF OfSequence, SessionInv, KeptSound, WellKept
    <3>3. Restored(data, st.flags, d)
      BY <2>1, <3>1, OneState DEF SetData, Unsupported
    <3>4. recurrent => run'[d] = st.at.run
      BY <1>1, <3>2, <3>3 DEF Restored, SessionInv, RunTyped
    <3>5. CASE Partial(st.flags)
      <4>1. cells' = cells
        BY <3>3, <3>5 DEF Restored
      <4> QED BY <3>4, <3>5, <4>1
    <3>6. CASE ~ Partial(st.flags)
      BY <2>0, <3>2, <3>3, <3>4, <3>6, RestoredHeld
    <3> QED BY <3>5, <3>6
  <2> QED BY <2>2, <2>3
<1>2. SessionInv /\ [Next]_vars =>
          [ \A st \in OfSequence, d \in Seqs :
              result' = 0 /\ StateSeqSet(st, d) =>
                  /\ (st.bytes # {} /\ recurrent) => run'[d] = st.at.run
                  /\ IF Partial(st.flags) THEN UNCHANGED cells
                     ELSE st.bytes # {} => Held(cells', d) = st.at.held
                  /\ \A s \in Seqs \ {d} : Held(cells', s) = Held(cells, s) ]_vars
  BY <1>1
<1> QED BY <1>2, SessionInvInit, SessionInvNext, PTL DEF Spec, RestoreRewinds

(* LoadReturnsAll: a load that reports no error returns every token that was  *)
(* kept with the state, and no more than the caller has room for.            *)
THEOREM LoadsAll == Spec => LoadReturnsAll
<1>1. ASSUME SessionInv, NEW max \in 0 .. Top + 1, NEW st \in OfContext,
             result' >= 0, StateLoadFile(st, max)
      PROVE  result' = st.tokens /\ result' <= max
  <2>1. st.tokens \in Int
    BY <1>1 DEF OfContext, SessionInv, KeptSound, WellKept
  <2>2. Loaded(st.tokens, max)
    BY <1>1 DEF StateLoadFile, Failed, Error
  <2> QED BY <1>1, <2>1, <2>2 DEF Loaded, Error
<1>2. ASSUME SessionInv, NEW max \in 0 .. Top + 1, NEW st \in OfSequence, NEW d \in Seqs,
             st.flags = {}, st.bytes # {}, result' >= 0, StateSeqLoadFile(st, d, max)
      PROVE  result' = Length(Held(cells', d)) /\ result' <= max
  <2>1. ~ Partial({})
    BY DEF Partial
  <2>2. \A data \in st.bytes : Placed(data.held) /\ data.held = st.at.held
    BY <1>2, <2>1 DEF OfSequence, SessionInv, KeptSound, WellKept
  <2>3. PICK data \in st.bytes : Restored(data, {}, d) /\ Loaded(Length(st.at.held), max)
    BY <1>2 DEF StateSeqLoadFile, Error
  <2>4. Held(cells', d) = st.at.held
    BY <1>2, <2>1, <2>2, <2>3, RestoredHeld DEF SessionInv
  <2>5. Length(st.at.held) \in Int
    BY <2>2, LengthTyped
  <2> QED BY <1>2, <2>3, <2>4, <2>5 DEF Loaded, Error
<1>3. SessionInv /\ [Next]_vars =>
          [ \A max \in 0 .. Top + 1 :
              /\ \A st \in OfContext : result' >= 0 /\ StateLoadFile(st, max) =>
                     result' = st.tokens /\ result' <= max
              /\ \A st \in OfSequence, d \in Seqs :
                     st.flags = {} /\ st.bytes # {} /\ result' >= 0 /\ StateSeqLoadFile(st, d, max) =>
                         result' = Length(Held(cells', d)) /\ result' <= max ]_vars
  BY <1>1, <1>2
<1> QED BY <1>3, SessionInvInit, SessionInvNext, PTL DEF Spec, LoadReturnsAll

=============================================================================
