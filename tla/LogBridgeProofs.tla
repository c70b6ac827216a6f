--------------------------- MODULE LogBridgeProofs ---------------------------
(* Proofs about LogBridge, for every set of threads, levels, texts and       *)
(* panics, and any number of calls.                                         *)
EXTENDS LogBridge, SequenceTheorems, Induction

(* Where a thread can be.                                                   *)
Inside == {"flushing", "pushing", "draining"}
Places == {"idle", "hooking", "locking"} \cup Inside

(* The callback is installed after the options are settled, and only an       *)
(* enabled bridge lets a thread past its first line.                         *)
Settled ==
    /\ state \in {"unset", "enabled", "disabled"} /\ hooked \in BOOLEAN
    /\ pc \in [Threads -> Places]
    /\ hooked \/ (\E t \in Threads : pc[t] = "hooking") => state # "unset"
    /\ state # "enabled" =>
          /\ \A t \in Threads : pc[t] \in {"idle", "hooking"}
          /\ lines = <<>> /\ fed = <<>>

(* What a thread carries into the callback.                                  *)
Carried ==
    /\ msg = [t \in Threads |-> msg[t]]
    /\ \A t \in Threads : msg[t].level \in Levels \cup {CONT}

Typed == Settled /\ Carried /\ TypeOK

(* A step keeps the options and what they silence.                           *)
LEMMA SettledStep == Settled /\ [Next]_vars => Settled'
<1> SUFFICES ASSUME Settled, [Next]_vars PROVE Settled'
  OBVIOUS
<1> USE DEF Settled, Places, Inside
<1>1. ASSUME NEW t \in Threads, NEW options \in {"enabled", "disabled"}, SetState(t, options)
      PROVE  Settled'
  BY <1>1 DEF SetState
<1>2. ASSUME NEW t \in Threads, Hook(t) PROVE Settled'
  BY <1>2 DEF Hook
<1>3. ASSUME NEW t \in Threads, NEW l \in Levels \cup {CONT}, NEW shape \in Shapes,
             Call(t, l, shape)
      PROVE  Settled'
  BY <1>3 DEF Call
<1>4. ASSUME NEW t \in Threads, Callback(t) PROVE Settled'
  <2>1. state = "enabled"
    BY <1>4 DEF Callback, Acquire, Flush, Push, EmitLine, Release
  <2>2. state' = "enabled" /\ hooked' = hooked
    BY <1>4, <2>1 DEF Callback, Acquire, Flush, Push, EmitLine, Release
  <2>3. pc' \in [Threads -> Places]
    BY <1>4 DEF Callback, Acquire, Flush, Push, EmitLine, Release, Unwind, Return
  <2> QED BY <2>1, <2>2, <2>3
<1>5. CASE UNCHANGED vars
  BY <1>5 DEF vars
<1> QED BY <1>1, <1>2, <1>3, <1>4, <1>5 DEF Next

(* A step hands the mutex over or leaves it where it is: a thread in the      *)
(* callback holds it from lock() to the drop of the guard, unwound or not.    *)
LEMMA TypedStep == Typed /\ [Next]_vars => Typed'
<1> SUFFICES ASSUME Typed, [Next]_vars PROVE Carried' /\ TypeOK'
  BY SettledStep DEF Typed
<1> USE LogAssumption DEF Typed, Carried, TypeOK, Settled, Places, Inside
<1>1. ASSUME NEW t \in Threads, NEW options \in {"enabled", "disabled"}, SetState(t, options)
      PROVE  Carried' /\ TypeOK'
  BY <1>1 DEF SetState
<1>2. ASSUME NEW t \in Threads, Hook(t) PROVE Carried' /\ TypeOK'
  BY <1>2 DEF Hook
<1>3. ASSUME NEW t \in Threads, NEW l \in Levels \cup {CONT}, NEW shape \in Shapes,
             Call(t, l, shape)
      PROVE  Carried' /\ TypeOK'
  <2>1. Message(t, calls + 1, l, shape).level = l
    BY DEF Message
  <2>2. Carried'
    BY <1>3, <2>1 DEF Call
  <2> QED BY <1>3, <2>2 DEF Call
<1>4. ASSUME NEW t \in Threads, Callback(t) PROVE Carried' /\ TypeOK'
  <2>1. CASE Acquire(t)
    BY <2>1 DEF Acquire
  <2>2. CASE Return(t) /\ pc[t] \in Inside /\ UNCHANGED <<state, hooked, level, calls, msg>>
    BY <2>2 DEF Return
  <2>3. CASE /\ lock' = lock /\ pc[t] \in Inside /\ UNCHANGED <<state, hooked, calls, msg>>
             /\ level' \in Levels \cup {"info"}
             /\ \E place \in Inside : pc' = [pc EXCEPT ![t] = place]
    BY <2>3
  <2>4. CASE Flush(t)
    BY <2>2, <2>3, <2>4 DEF Flush, Unwind
  <2>5. CASE Push(t)
    BY <2>3, <2>5 DEF Push
  <2>6. CASE EmitLine(t)
    <3>1. CASE UNCHANGED <<state, hooked, lock, level, pc, calls, msg>>
      BY <3>1
    <3> QED BY <2>2, <2>6, <3>1 DEF EmitLine, Unwind
  <2>7. CASE Release(t)
    BY <2>2, <2>7 DEF Release
  <2> QED BY <1>4, <2>1, <2>4, <2>5, <2>6, <2>7 DEF Callback
<1>5. CASE UNCHANGED vars
  BY <1>5 DEF vars
<1> QED BY <1>1, <1>2, <1>3, <1>4, <1>5 DEF Next

(* A disabled bridge delivers nothing, however many threads log and whoever   *)
(* asks for other options later.                                            *)
THEOREM Silence == Spec => []DisabledIsSilent
<1>1. Init => Settled
  BY DEF Init, Settled, Places, Inside
<1>2. Settled => DisabledIsSilent
  BY DEF Settled, DisabledIsSilent
<1> QED BY <1>1, <1>2, SettledStep, PTL DEF Spec

LEMMA TypedInit == Init => Typed
<1> SUFFICES ASSUME Init PROVE Typed
  OBVIOUS
<1>1. NoMessage.level = CONT
  BY DEF NoMessage
<1>2. Settled
  BY DEF Init, Settled, Places, Inside
<1>3. Carried
  BY <1>1 DEF Init, Carried
<1>4. \A t \in Threads : lock # t /\ pc[t] = "idle"
  BY LogAssumption DEF Init
<1>5. calls \in 0 .. MaxCalls
  BY LogAssumption DEF Init
<1>6. TypeOK
  BY <1>4, <1>5, Zenon DEF Init, TypeOK
<1> QED BY <1>2, <1>3, <1>6 DEF Typed

(* The mutex is held exactly by a thread that works on the buffer: no panic   *)
(* leaves it locked and no thread works without it.                          *)
THEOREM MutexOwned == Spec => []TypeOK
<1>1. Typed => TypeOK
  BY DEF Typed
<1> QED BY <1>1, TypedInit, TypedStep, PTL DEF Spec

-----------------------------------------------------------------------------
(* What the recursive functions compute, step by step.                       *)

(* Tokens of the texts, levels of lines, and what a reading has of a log.    *)
Toks == {Newline} \cup (Threads \X Nat \X Nat)
LineLevels == Levels \cup {CONT, "info"}
Line == [level : LineLevels, text : Seq(Toks)]
Log == [done : Seq(Line), half : Seq(Toks), level : LineLevels]
Received == [by : Threads \cup {Nobody}, level : LineLevels, text : Seq(Toks)]

LEMMA ReadTokenType ==
    ASSUME NEW log \in Log, NEW tok \in Toks
    PROVE  ReadToken(log, tok) \in Log
<1>1. log.done \in Seq(Line) /\ log.half \in Seq(Toks) /\ log.level \in LineLevels
  BY DEF Log
<1>2. CASE tok = Newline
  <2>1. Append(log.done, [level |-> log.level, text |-> log.half]) \in Seq(Line)
    BY <1>1, AppendProperties DEF Line
  <2>2. <<>> \in Seq(Toks)
    OBVIOUS
  <2> QED BY <1>1, <1>2, <2>1, <2>2 DEF ReadToken, Close, Log
<1>3. CASE tok # Newline
  <2>1. Append(log.half, tok) \in Seq(Toks)
    BY <1>1, AppendProperties
  <2> QED BY <1>1, <1>3, <2>1 DEF ReadToken, Log
<1> QED BY <1>2, <1>3

LEMMA CloseType ==
    ASSUME NEW log \in Log
    PROVE  Close(log) \in Log
<1>1. Newline \in Toks
  BY DEF Toks
<1> QED BY <1>1, ReadTokenType DEF ReadToken

LEMMA OpenedType ==
    ASSUME NEW log \in Log, NEW m \in Received
    PROVE  Opened(log, m) \in Log
<1>1. m.level \in LineLevels /\ log.done \in Seq(Line) /\ <<>> \in Seq(Toks)
  BY DEF Received, Log
<1>2. Close(log).done \in Seq(Line)
  BY CloseType DEF Log
<1>3. CASE m.level = CONT
  BY <1>3 DEF Opened
<1>4. CASE m.level # CONT
  <2> DEFINE done == IF log.half = <<>> THEN log.done ELSE Close(log).done
  <2>1. done \in Seq(Line)
    BY <1>1, <1>2
  <2>2. Opened(log, m) = [done |-> done, half |-> <<>>, level |-> m.level]
    BY <1>4 DEF Opened
  <2> HIDE DEF done
  <2> QED BY <1>1, <2>1, <2>2 DEF Log
<1> QED BY <1>3, <1>4

(* Texts, along the list.                                                    *)
LEMMA TextsDef ==
    ASSUME NEW T, NEW ls, Len(ls) \in Nat, \A i \in 1 .. Len(ls) : ls[i].text \in Seq(T)
    PROVE  \E f \in [0 .. Len(ls) -> Seq(T)] :
              /\ f[0] = <<>>
              /\ \A k \in 1 .. Len(ls) : f[k] = f[k - 1] \o ls[k].text
              /\ Texts(ls) = f[Len(ls)]
<1> DEFINE n == Len(ls)  S == Seq(T)  base == <<>>
           E(k, x) == x \o ls[k].text
           P(f) == f = [k \in 0 .. n |-> IF k = 0 THEN base ELSE E(k, f[k - 1])]
           step == [k \in 1 .. n |-> [x \in S |-> E(k, x)]]
           c == CHOOSE f : P(f)
<1>1. n \in Nat /\ base \in S /\ \A k \in 1 .. n, x \in S : E(k, x) \in S
  OBVIOUS
<1>2. Texts(ls) = c[n]
  BY DEF Texts
<1> HIDE DEF n, S, base, E
<1>3. P(c)
  <2>1. step \in [1 .. n -> [S -> S]]
    BY <1>1
  <2>2. PICK f \in [0 .. n -> S] :
           f[0] = base /\ \A k \in 1 .. n : f[k] = step[k][f[k - 1]]
    <3> HIDE DEF step
    <3>1. Definable(n, S, base, step)
      BY <1>1, <2>1, RecursiveFcn
    <3> QED BY <3>1 DEF Definable
  <2>3. \A k \in 1 .. n : k - 1 \in 0 .. n /\ f[k - 1] \in S
    BY <1>1
  <2>4. \A k \in 1 .. n : f[k] = E(k, f[k - 1])
    BY <2>2, <2>3
  <2>5. \A k \in 0 .. n : f[k] = IF k = 0 THEN base ELSE E(k, f[k - 1])
    BY <1>1, <2>2, <2>4
  <2>6. P(f)
    BY <2>5
  <2> HIDE DEF P
  <2> QED BY <2>6
<1> HIDE DEF c
<1>4. c[0] = base /\ \A k \in 1 .. n : c[k] = E(k, c[k - 1])
  BY <1>1, <1>3
<1>5. c \in [0 .. n -> S]
  <2>1. c = [k \in 0 .. n |-> c[k]] /\ c[0] \in S
    BY <1>1, <1>3, <1>4
  <2>2. \A k \in 1 .. n : c[k - 1] \in S => c[k] \in S
    BY <1>1, <1>4
  <2> QED BY ONLY <1>1, <2>1, <2>2, TypedFcn
<1> QED BY <1>2, <1>4, <1>5 DEF n, S, base, E

(* Pieces, along the text.                                                   *)
LEMMA PiecesDef ==
    ASSUME NEW T, NEW text \in Seq(T)
    PROVE  \E f \in [0 .. Len(text) -> Seq(T)] :
              /\ f[0] = <<>>
              /\ \A k \in 1 .. Len(text) : f[k] = IF text[k] = Newline THEN f[k - 1] ELSE Append(f[k - 1], text[k])
              /\ Pieces(text) = f[Len(text)]
<1> DEFINE n == Len(text)  S == Seq(T)  base == <<>>
           E(k, x) == IF text[k] = Newline THEN x ELSE Append(x, text[k])
           P(f) == f = [k \in 0 .. n |-> IF k = 0 THEN base ELSE E(k, f[k - 1])]
           step == [k \in 1 .. n |-> [x \in S |-> E(k, x)]]
           c == CHOOSE f : P(f)
<1>1. n \in Nat /\ base \in S /\ \A k \in 1 .. n, x \in S : E(k, x) \in S
  OBVIOUS
<1>2. Pieces(text) = c[n]
  BY DEF Pieces
<1> HIDE DEF n, S, base, E
<1>3. P(c)
  <2>1. step \in [1 .. n -> [S -> S]]
    BY <1>1
  <2>2. PICK f \in [0 .. n -> S] :
           f[0] = base /\ \A k \in 1 .. n : f[k] = step[k][f[k - 1]]
    <3> HIDE DEF step
    <3>1. Definable(n, S, base, step)
      BY <1>1, <2>1, RecursiveFcn
    <3> QED BY <3>1 DEF Definable
  <2>3. \A k \in 1 .. n : k - 1 \in 0 .. n /\ f[k - 1] \in S
    BY <1>1
  <2>4. \A k \in 1 .. n : f[k] = E(k, f[k - 1])
    BY <2>2, <2>3
  <2>5. \A k \in 0 .. n : f[k] = IF k = 0 THEN base ELSE E(k, f[k - 1])
    BY <1>1, <2>2, <2>4
  <2>6. P(f)
    BY <2>5
  <2> HIDE DEF P
  <2> QED BY <2>6
<1> HIDE DEF c
<1>4. c[0] = base /\ \A k \in 1 .. n : c[k] = E(k, c[k - 1])
  BY <1>1, <1>3
<1>5. c \in [0 .. n -> S]
  <2>1. c = [k \in 0 .. n |-> c[k]] /\ c[0] \in S
    BY <1>1, <1>3, <1>4
  <2>2. \A k \in 1 .. n : c[k - 1] \in S => c[k] \in S
    BY <1>1, <1>4
  <2> QED BY ONLY <1>1, <2>1, <2>2, TypedFcn
<1> QED BY <1>2, <1>4, <1>5 DEF n, S, base, E

(* ReadText, along the text.                                                 *)
LEMMA ReadTextDef ==
    ASSUME NEW log \in Log, NEW text \in Seq(Toks)
    PROVE  \E f \in [0 .. Len(text) -> Log] :
              /\ f[0] = log
              /\ \A k \in 1 .. Len(text) : f[k] = ReadToken(f[k - 1], text[k])
              /\ ReadText(log, text) = f[Len(text)]
<1> DEFINE n == Len(text)  S == Log  base == log
           E(k, x) == ReadToken(x, text[k])
           P(f) == f = [k \in 0 .. n |-> IF k = 0 THEN base ELSE E(k, f[k - 1])]
           step == [k \in 1 .. n |-> [x \in S |-> E(k, x)]]
           c == CHOOSE f : P(f)
<1>1. n \in Nat /\ base \in S /\ \A k \in 1 .. n, x \in S : E(k, x) \in S
  BY ReadTokenType
<1>2. ReadText(log, text) = c[n]
  BY DEF ReadText
<1> HIDE DEF n, S, base, E
<1>3. P(c)
  <2>1. step \in [1 .. n -> [S -> S]]
    BY <1>1
  <2>2. PICK f \in [0 .. n -> S] :
           f[0] = base /\ \A k \in 1 .. n : f[k] = step[k][f[k - 1]]
    <3> HIDE DEF step
    <3>1. Definable(n, S, base, step)
      BY <1>1, <2>1, RecursiveFcn
    <3> QED BY <3>1 DEF Definable
  <2>3. \A k \in 1 .. n : k - 1 \in 0 .. n /\ f[k - 1] \in S
    BY <1>1
  <2>4. \A k \in 1 .. n : f[k] = E(k, f[k - 1])
    BY <2>2, <2>3
  <2>5. \A k \in 0 .. n : f[k] = IF k = 0 THEN base ELSE E(k, f[k - 1])
    BY <1>1, <2>2, <2>4
  <2>6. P(f)
    BY <2>5
  <2> HIDE DEF P
  <2> QED BY <2>6
<1> HIDE DEF c
<1>4. c[0] = base /\ \A k \in 1 .. n : c[k] = E(k, c[k - 1])
  BY <1>1, <1>3
<1>5. c \in [0 .. n -> S]
  <2>1. c = [k \in 0 .. n |-> c[k]] /\ c[0] \in S
    BY <1>1, <1>3, <1>4
  <2>2. \A k \in 1 .. n : c[k - 1] \in S => c[k] \in S
    BY <1>1, <1>4
  <2> QED BY ONLY <1>1, <2>1, <2>2, TypedFcn
<1> QED BY <1>2, <1>4, <1>5 DEF n, S, base, E

LEMMA ReadTextType ==
    ASSUME NEW log \in Log, NEW text \in Seq(Toks)
    PROVE  ReadText(log, text) \in Log
<1>1. PICK f \in [0 .. Len(text) -> Log] : ReadText(log, text) = f[Len(text)]
  BY ReadTextDef
<1> QED BY <1>1

(* ReadMessages, along the messages.                                         *)
LEMMA ReadMessagesDef ==
    ASSUME NEW ms \in Seq(Received)
    PROVE  \E f \in [0 .. Len(ms) -> Log] :
              /\ f[0] = [done |-> <<>>, half |-> <<>>, level |-> "info"]
              /\ \A k \in 1 .. Len(ms) : f[k] = ReadText(Opened(f[k - 1], ms[k]), ms[k].text)
              /\ ReadMessages(ms) = f[Len(ms)]
<1> DEFINE n == Len(ms)  S == Log  base == [done |-> <<>>, half |-> <<>>, level |-> "info"]
           E(k, x) == ReadText(Opened(x, ms[k]), ms[k].text)
           P(f) == f = [k \in 0 .. n |-> IF k = 0 THEN base ELSE E(k, f[k - 1])]
           step == [k \in 1 .. n |-> [x \in S |-> E(k, x)]]
           c == CHOOSE f : P(f)
<1>1. n \in Nat /\ base \in S /\ \A k \in 1 .. n, x \in S : E(k, x) \in S
  <2>1. [done |-> <<>>, half |-> <<>>, level |-> "info"] \in Log
    BY DEF Log, LineLevels
  <2>2. \A k \in 1 .. Len(ms) : ms[k] \in Received /\ ms[k].text \in Seq(Toks)
    <3>1. \A k \in 1 .. Len(ms) : ms[k] \in Received
      BY ElementTyped
    <3>2. ASSUME NEW m \in Received PROVE m.text \in Seq(Toks)
      BY DEF Received
    <3> QED BY <3>1, <3>2
  <2>3. ASSUME NEW k \in 1 .. Len(ms), NEW x \in Log
        PROVE  ReadText(Opened(x, ms[k]), ms[k].text) \in Log
    BY <2>2, OpenedType, ReadTextType
  <2> QED BY <2>1, <2>3
<1>2. ReadMessages(ms) = c[n]
  BY DEF ReadMessages
<1> HIDE DEF n, S, base, E
<1>3. P(c)
  <2>1. step \in [1 .. n -> [S -> S]]
    BY <1>1
  <2>2. PICK f \in [0 .. n -> S] :
           f[0] = base /\ \A k \in 1 .. n : f[k] = step[k][f[k - 1]]
    <3> HIDE DEF step
    <3>1. Definable(n, S, base, step)
      BY <1>1, <2>1, RecursiveFcn
    <3> QED BY <3>1 DEF Definable
  <2>3. \A k \in 1 .. n : k - 1 \in 0 .. n /\ f[k - 1] \in S
    BY <1>1
  <2>4. \A k \in 1 .. n : f[k] = E(k, f[k - 1])
    BY <2>2, <2>3
  <2>5. \A k \in 0 .. n : f[k] = IF k = 0 THEN base ELSE E(k, f[k - 1])
    BY <1>1, <2>2, <2>4
  <2>6. P(f)
    BY <2>5
  <2> HIDE DEF P
  <2> QED BY <2>6
<1> HIDE DEF c
<1>4. c[0] = base /\ \A k \in 1 .. n : c[k] = E(k, c[k - 1])
  BY <1>1, <1>3
<1>5. c \in [0 .. n -> S]
  <2>1. c = [k \in 0 .. n |-> c[k]] /\ c[0] \in S
    BY <1>1, <1>3, <1>4
  <2>2. \A k \in 1 .. n : c[k - 1] \in S => c[k] \in S
    BY <1>1, <1>4
  <2> QED BY ONLY <1>1, <2>1, <2>2, TypedFcn
<1> QED BY <1>2, <1>4, <1>5 DEF n, S, base, E

(* The same by the last element: how each reads a sequence one longer.       *)
LEMMA TextsAppend ==
    ASSUME NEW L, NEW T, \A l \in L : l.text \in Seq(T), NEW ls \in Seq(L), NEW l \in L
    PROVE  /\ Texts(ls) \in Seq(T)
           /\ Texts(Append(ls, l)) = Texts(ls) \o l.text
<1> DEFINE n == Len(ls)  more == Append(ls, l)
<1>1. /\ more \in Seq(L) /\ n \in Nat /\ Len(more) = n + 1
      /\ \A k \in 1 .. n : more[k] = ls[k]
      /\ more[n + 1] = l
  BY SeqAppend
<1>2. /\ Len(ls) \in Nat /\ \A k \in 1 .. Len(ls) : ls[k].text \in Seq(T)
      /\ Len(more) \in Nat /\ \A k \in 1 .. Len(more) : more[k].text \in Seq(T)
  BY <1>1, ElementTyped
<1> HIDE DEF more
<1>3. PICK f \in [0 .. n -> Seq(T)] :
              /\ f[0] = <<>>
              /\ \A k \in 1 .. n : f[k] = f[k - 1] \o ls[k].text
              /\ Texts(ls) = f[n]
  BY ONLY <1>2, TextsDef
<1>4. PICK g \in [0 .. Len(more) -> Seq(T)] :
              /\ g[0] = <<>>
              /\ \A k \in 1 .. Len(more) : g[k] = g[k - 1] \o more[k].text
              /\ Texts(more) = g[Len(more)]
  BY ONLY <1>2, TextsDef
<1> HIDE DEF n
<1>5. \A k \in 0 .. n : f[k] = g[k]
  <2>1. ASSUME NEW k \in 1 .. n, f[k - 1] = g[k - 1] PROVE f[k] = g[k]
    <3>1. k \in 1 .. n + 1
      BY <1>1
    <3> QED BY ONLY <1>1, <1>3, <1>4, <2>1, <3>1, k \in 1 .. n
  <2>2. f[0] = g[0]
    BY <1>3, <1>4
  <2>3. InStep(n, f, g)
    BY <2>1, <2>2 DEF InStep
  <2>4. Alike(n, f, g)
    BY ONLY <1>1, <2>3, SameRun
  <2> QED BY <2>4 DEF Alike
<1>6. f[n] = g[n] /\ n + 1 \in 1 .. n + 1 /\ (n + 1) - 1 = n
  BY <1>1, <1>5
<1>7. g[n + 1] = g[n] \o l.text
  BY <1>1, <1>4, <1>6
<1>8. Texts(ls) \in Seq(T)
  BY <1>1, <1>3
<1>9. Texts(more) = Texts(ls) \o l.text
  BY ONLY <1>1, <1>3, <1>4, <1>6, <1>7
<1> QED BY ONLY <1>8, <1>9 DEF more

LEMMA PiecesAppend ==
    ASSUME NEW T, NEW text \in Seq(T), NEW tok \in T
    PROVE  /\ Pieces(text) \in Seq(T)
           /\ Pieces(Append(text, tok)) =
                  IF tok = Newline THEN Pieces(text) ELSE Append(Pieces(text), tok)
<1> DEFINE n == Len(text)  more == Append(text, tok)
<1>1. /\ more \in Seq(T) /\ n \in Nat /\ Len(more) = n + 1
      /\ \A k \in 1 .. n : more[k] = text[k]
      /\ more[n + 1] = tok
  BY SeqAppend
<1> HIDE DEF more
<1>3. PICK f \in [0 .. n -> Seq(T)] :
              /\ f[0] = <<>>
              /\ \A k \in 1 .. n :
                    f[k] = IF text[k] = Newline THEN f[k - 1] ELSE Append(f[k - 1], text[k])
              /\ Pieces(text) = f[n]
  BY PiecesDef
<1>4. PICK g \in [0 .. Len(more) -> Seq(T)] :
              /\ g[0] = <<>>
              /\ \A k \in 1 .. Len(more) :
                    g[k] = IF more[k] = Newline THEN g[k - 1] ELSE Append(g[k - 1], more[k])
              /\ Pieces(more) = g[Len(more)]
  BY <1>1, PiecesDef
<1> HIDE DEF n
<1>5. \A k \in 0 .. n : f[k] = g[k]
  <2>1. ASSUME NEW k \in 1 .. n, f[k - 1] = g[k - 1] PROVE f[k] = g[k]
    <3>1. k \in 1 .. n + 1
      BY <1>1
    <3> QED BY ONLY <1>1, <1>3, <1>4, <2>1, <3>1, k \in 1 .. n
  <2>2. f[0] = g[0]
    BY <1>3, <1>4
  <2>3. InStep(n, f, g)
    BY <2>1, <2>2 DEF InStep
  <2>4. Alike(n, f, g)
    BY ONLY <1>1, <2>3, SameRun
  <2> QED BY <2>4 DEF Alike
<1>6. f[n] = g[n] /\ n + 1 \in 1 .. n + 1 /\ (n + 1) - 1 = n
  BY <1>1, <1>5
<1>7. g[n + 1] = IF tok = Newline THEN g[n] ELSE Append(g[n], tok)
  BY <1>1, <1>4, <1>6
<1>8. f[n] \in Seq(T)
  BY <1>1
<1> QED BY <1>3, <1>4, <1>6, <1>7, <1>8 DEF more, n

LEMMA ReadTextAppend ==
    ASSUME NEW log \in Log, NEW text \in Seq(Toks), NEW tok \in Toks
    PROVE  ReadText(log, Append(text, tok)) = ReadToken(ReadText(log, text), tok)
<1> DEFINE n == Len(text)  more == Append(text, tok)
<1>1. /\ more \in Seq(Toks) /\ n \in Nat /\ Len(more) = n + 1
      /\ \A k \in 1 .. n : more[k] = text[k]
      /\ more[n + 1] = tok
  BY SeqAppend
<1> HIDE DEF more
<1>3. PICK f \in [0 .. n -> Log] :
              /\ f[0] = log
              /\ \A k \in 1 .. n : f[k] = ReadToken(f[k - 1], text[k])
              /\ ReadText(log, text) = f[n]
  BY ReadTextDef
<1>4. PICK g \in [0 .. Len(more) -> Log] :
              /\ g[0] = log
              /\ \A k \in 1 .. Len(more) : g[k] = ReadToken(g[k - 1], more[k])
              /\ ReadText(log, more) = g[Len(more)]
  BY <1>1, ReadTextDef
<1> HIDE DEF n
<1>5. \A k \in 0 .. n : f[k] = g[k]
  <2>1. ASSUME NEW k \in 1 .. n, f[k - 1] = g[k - 1] PROVE f[k] = g[k]
    <3>1. k \in 1 .. n + 1
      BY <1>1
    <3> QED BY ONLY <1>1, <1>3, <1>4, <2>1, <3>1, k \in 1 .. n
  <2>2. f[0] = g[0]
    BY <1>3, <1>4
  <2>3. InStep(n, f, g)
    BY <2>1, <2>2 DEF InStep
  <2>4. Alike(n, f, g)
    BY ONLY <1>1, <2>3, SameRun
  <2> QED BY <2>4 DEF Alike
<1>6. f[n] = g[n] /\ n + 1 \in 1 .. n + 1 /\ (n + 1) - 1 = n
  BY <1>1, <1>5
<1>7. g[n + 1] = ReadToken(g[n], tok)
  BY <1>1, <1>4, <1>6
<1> QED BY <1>3, <1>4, <1>6, <1>7 DEF more, n

LEMMA ReadMessagesAppend ==
    ASSUME NEW ms \in Seq(Received), NEW m \in Received
    PROVE  /\ ReadMessages(ms) \in Log
           /\ ReadMessages(Append(ms, m)) = ReadText(Opened(ReadMessages(ms), m), m.text)
<1> DEFINE n == Len(ms)  more == Append(ms, m)
<1>1. /\ more \in Seq(Received) /\ n \in Nat /\ Len(more) = n + 1
      /\ \A k \in 1 .. n : more[k] = ms[k]
      /\ more[n + 1] = m
  BY SeqAppend
<1> HIDE DEF more
<1>3. PICK f \in [0 .. n -> Log] :
              /\ f[0] = [done |-> <<>>, half |-> <<>>, level |-> "info"]
              /\ \A k \in 1 .. n : f[k] = ReadText(Opened(f[k - 1], ms[k]), ms[k].text)
              /\ ReadMessages(ms) = f[n]
  BY ReadMessagesDef
<1>4. PICK g \in [0 .. Len(more) -> Log] :
              /\ g[0] = [done |-> <<>>, half |-> <<>>, level |-> "info"]
              /\ \A k \in 1 .. Len(more) : g[k] = ReadText(Opened(g[k - 1], more[k]), more[k].text)
              /\ ReadMessages(more) = g[Len(more)]
  BY <1>1, ReadMessagesDef
<1> HIDE DEF n
<1>5. \A k \in 0 .. n : f[k] = g[k]
  <2>1. ASSUME NEW k \in 1 .. n, f[k - 1] = g[k - 1] PROVE f[k] = g[k]
    <3>1. k \in 1 .. n + 1
      BY <1>1
    <3> QED BY ONLY <1>1, <1>3, <1>4, <2>1, <3>1, k \in 1 .. n
  <2>2. f[0] = g[0]
    BY <1>3, <1>4
  <2>3. InStep(n, f, g)
    BY <2>1, <2>2 DEF InStep
  <2>4. Alike(n, f, g)
    BY ONLY <1>1, <2>3, SameRun
  <2> QED BY <2>4 DEF Alike
<1>6. f[n] = g[n] /\ n + 1 \in 1 .. n + 1 /\ (n + 1) - 1 = n
  BY <1>1, <1>5
<1>7. g[n + 1] = ReadText(Opened(g[n], m), m.text)
  BY <1>1, <1>4, <1>6
<1>8. f[n] \in Log
  BY <1>1
<1> QED BY <1>3, <1>4, <1>6, <1>7, <1>8 DEF more, n

LEMMA ReadNothing ==
    /\ Texts(<<>>) = <<>> /\ Pieces(<<>>) = <<>>
    /\ ReadMessages(<<>>) = [done |-> <<>>, half |-> <<>>, level |-> "info"]
    /\ \A log \in Log : ReadText(log, <<>>) = log
<1>1. Len(<<>>) = 0
  OBVIOUS
<1>2. Texts(<<>>) = <<>>
  <2>1. \A i \in 1 .. Len(<<>>) : <<>>[i].text \in Seq(Toks)
    BY <1>1
  <2>2. Len(<<>>) \in Nat
    BY <1>1
  <2>3. PICK f \in [0 .. Len(<<>>) -> Seq(Toks)] : f[0] = <<>> /\ Texts(<<>>) = f[Len(<<>>)]
    BY <2>1, <2>2, TextsDef
  <2> QED BY <1>1, <2>3
<1>3. Pieces(<<>>) = <<>>
  <2>1. <<>> \in Seq(Toks)
    OBVIOUS
  <2>2. PICK f \in [0 .. Len(<<>>) -> Seq(Toks)] : f[0] = <<>> /\ Pieces(<<>>) = f[Len(<<>>)]
    BY <2>1, PiecesDef
  <2> QED BY <1>1, <2>2
<1>4. ReadMessages(<<>>) = [done |-> <<>>, half |-> <<>>, level |-> "info"]
  <2>1. <<>> \in Seq(Received)
    OBVIOUS
  <2>2. PICK f \in [0 .. Len(<<>>) -> Log] :
           /\ f[0] = [done |-> <<>>, half |-> <<>>, level |-> "info"]
           /\ ReadMessages(<<>>) = f[Len(<<>>)]
    BY <2>1, ReadMessagesDef
  <2> QED BY <1>1, <2>2
<1>5. ASSUME NEW log \in Log PROVE ReadText(log, <<>>) = log
  <2>1. <<>> \in Seq(Toks)
    OBVIOUS
  <2>2. PICK f \in [0 .. Len(<<>>) -> Log] : f[0] = log /\ ReadText(log, <<>>) = f[Len(<<>>)]
    BY <2>1, ReadTextDef
  <2> QED BY <1>1, <2>2
<1> QED BY <1>2, <1>3, <1>4, <1>5

-----------------------------------------------------------------------------
(* Texts joined and cut.                                                     *)

LEMMA JoinAssociative ==
    \A a, b, c \in Seq(Toks) : (a \o b) \o c = a \o (b \o c)
BY ConcatAssociative

LEMMA PiecesConcat ==
    ASSUME NEW a \in Seq(Toks)
    PROVE  \A b \in Seq(Toks) : Pieces(a \o b) = Pieces(a) \o Pieces(b)
<1> DEFINE X == {b \in Seq(Toks) : Pieces(a \o b) = Pieces(a) \o Pieces(b)}
<1>1. <<>> \in X
  <2>1. a \o <<>> = a /\ <<>> \in Seq(Toks) /\ Pieces(a) \in Seq(Toks)
    <3>1. Newline \in Toks
      BY DEF Toks
    <3> QED BY <3>1, PiecesAppend
  <2>2. Pieces(a) \o <<>> = Pieces(a)
    BY <2>1
  <2> QED BY <2>1, <2>2, ReadNothing
<1>2. ASSUME NEW b \in Seq(Toks), NEW e \in Toks, b \in X PROVE Append(b, e) \in X
  <2>1. Append(b, e) \in Seq(Toks) /\ a \o b \in Seq(Toks) /\ a \o Append(b, e) = Append(a \o b, e)
    BY AppendConcat
  <2>2. Pieces(a \o b) = Pieces(a) \o Pieces(b)
    BY <1>2
  <2>3. Pieces(a) \in Seq(Toks) /\ Pieces(b) \in Seq(Toks)
    BY PiecesAppend
  <2>4. Pieces(Append(a \o b, e)) =
            IF e = Newline THEN Pieces(a \o b) ELSE Append(Pieces(a \o b), e)
    BY ONLY <2>1, e \in Toks, PiecesAppend
  <2>5. Pieces(Append(b, e)) = IF e = Newline THEN Pieces(b) ELSE Append(Pieces(b), e)
    BY ONLY b \in Seq(Toks), e \in Toks, PiecesAppend
  <2>6. Pieces(a) \o Append(Pieces(b), e) = Append(Pieces(a) \o Pieces(b), e)
    BY ONLY <2>3, e \in Toks, AppendConcat
  <2>7. Pieces(a \o Append(b, e)) = Pieces(a) \o Pieces(Append(b, e))
    BY ONLY <2>1, <2>2, <2>4, <2>5, <2>6
  <2> QED BY <2>1, <2>7
<1>3. \A b \in Seq(Toks) : b \in X
  <2> HIDE DEF X
  <2>1. \A b \in Seq(Toks), e \in Toks : b \in X => Append(b, e) \in X
    BY <1>2
  <2> QED BY ONLY <1>1, <2>1, AppendInduction
<1> QED BY <1>3

LEMMA ReadTextConcat ==
    ASSUME NEW log \in Log, NEW a \in Seq(Toks)
    PROVE  \A b \in Seq(Toks) : ReadText(log, a \o b) = ReadText(ReadText(log, a), b)
<1> DEFINE X == {b \in Seq(Toks) : ReadText(log, a \o b) = ReadText(ReadText(log, a), b)}
<1>0. ReadText(log, a) \in Log
  BY ReadTextType
<1>1. <<>> \in X
  <2>1. a \o <<>> = a /\ <<>> \in Seq(Toks)
    OBVIOUS
  <2>2. ReadText(ReadText(log, a), <<>>) = ReadText(log, a)
    BY <1>0, ReadNothing
  <2> QED BY <2>1, <2>2
<1>2. ASSUME NEW b \in Seq(Toks), NEW e \in Toks, b \in X PROVE Append(b, e) \in X
  <2>1. Append(b, e) \in Seq(Toks) /\ a \o b \in Seq(Toks)
        /\ a \o Append(b, e) = Append(a \o b, e)
    BY AppendConcat
  <2>2. ReadText(log, a \o b) = ReadText(ReadText(log, a), b)
    BY <1>2
  <2>3. ReadText(log, Append(a \o b, e)) = ReadToken(ReadText(log, a \o b), e)
    BY ONLY <2>1, log \in Log, e \in Toks, ReadTextAppend
  <2>4. ReadText(ReadText(log, a), Append(b, e)) = ReadToken(ReadText(ReadText(log, a), b), e)
    BY ONLY <1>0, b \in Seq(Toks), e \in Toks, ReadTextAppend
  <2> QED BY <2>1, <2>2, <2>3, <2>4
<1>3. \A b \in Seq(Toks) : b \in X
  <2> HIDE DEF X
  <2>1. \A b \in Seq(Toks), e \in Toks : b \in X => Append(b, e) \in X
    BY <1>2
  <2> QED BY ONLY <1>1, <2>1, AppendInduction
<1> QED BY <1>3

LEMMA HasNewlineAt ==
    ASSUME NEW text \in Seq(Toks)
    PROVE  HasNewline(text) <=> \E i \in 1 .. Len(text) : text[i] = Newline
BY DEF HasNewline, ToSet

(* A text without a newline is one half line.                                *)
Fresh(ls, l) == [done |-> ls, half |-> <<>>, level |-> l]

LEMMA ReadHalf ==
    ASSUME NEW ls \in Seq(Line), NEW l \in LineLevels
    PROVE  \A text \in Seq(Toks) : ~ HasNewline(text) =>
              ReadText(Fresh(ls, l), text) = [done |-> ls, half |-> text, level |-> l]
<1> DEFINE X == {text \in Seq(Toks) : ~ HasNewline(text) =>
                   ReadText(Fresh(ls, l), text) = [done |-> ls, half |-> text, level |-> l]}
<1>0. Fresh(ls, l) \in Log
  BY DEF Fresh, Log
<1>1. <<>> \in X
  BY <1>0, ReadNothing DEF Fresh
<1>2. ASSUME NEW b \in Seq(Toks), NEW e \in Toks, b \in X PROVE Append(b, e) \in X
  <2> SUFFICES ASSUME ~ HasNewline(Append(b, e))
               PROVE  ReadText(Fresh(ls, l), Append(b, e)) =
                          [done |-> ls, half |-> Append(b, e), level |-> l]
    OBVIOUS
  <2>1. /\ Append(b, e) \in Seq(Toks) /\ Len(b) \in Nat /\ Len(Append(b, e)) = Len(b) + 1
        /\ \A k \in 1 .. Len(b) : Append(b, e)[k] = b[k]
        /\ Append(b, e)[Len(b) + 1] = e
    BY SeqAppend
  <2>2. e # Newline /\ ~ HasNewline(b)
    <3>1. \A i \in 1 .. Len(b) + 1 : Append(b, e)[i] # Newline
      BY <2>1, HasNewlineAt
    <3>2. Len(b) + 1 \in 1 .. Len(b) + 1 /\ \A i \in 1 .. Len(b) : i \in 1 .. Len(b) + 1
      BY <2>1
    <3> QED BY <2>1, <3>1, <3>2, HasNewlineAt
  <2>3. ReadText(Fresh(ls, l), b) = [done |-> ls, half |-> b, level |-> l]
    BY <1>2, <2>2
  <2>4. ReadText(Fresh(ls, l), Append(b, e)) = ReadToken(ReadText(Fresh(ls, l), b), e)
    BY ONLY <1>0, b \in Seq(Toks), e \in Toks, ReadTextAppend
  <2>5. ReadToken([done |-> ls, half |-> b, level |-> l], e) =
            [done |-> ls, half |-> Append(b, e), level |-> l]
    BY <2>2 DEF ReadToken
  <2> QED BY ONLY <2>3, <2>4, <2>5
<1>3. \A b \in Seq(Toks) : b \in X
  <2> HIDE DEF X
  <2>1. \A b \in Seq(Toks), e \in Toks : b \in X => Append(b, e) \in X
    BY <1>2
  <2> QED BY ONLY <1>1, <2>1, AppendInduction
<1> QED BY <1>3

(* A text with a newline is its first line, the newline and the rest.        *)
LEMMA FirstNewlineAt ==
    ASSUME NEW text \in Seq(Toks), HasNewline(text)
    PROVE  /\ FirstNewline(text) \in 1 .. Len(text) /\ text[FirstNewline(text)] = Newline
           /\ \A j \in 1 .. FirstNewline(text) - 1 : text[j] # Newline
<1> DEFINE S == {i \in 1 .. Len(text) : text[i] = Newline}
<1>1. PICK i \in S : \A j \in S : i <= j
  <2>1. S \in SUBSET Nat /\ S # {}
    BY HasNewlineAt
  <2> HIDE DEF S
  <2> QED BY <2>1, LeastNat
<1>2. i \in 1 .. Len(text) /\ text[i] = Newline /\ \A j \in 1 .. i - 1 : text[j] # Newline
  BY <1>1
<1> QED BY <1>2 DEF FirstNewline

LEMMA CutAtNewline ==
    ASSUME NEW text \in Seq(Toks), HasNewline(text), NEW nl, nl = FirstNewline(text)
    PROVE  /\ SubSeq(text, 1, nl - 1) \in Seq(Toks) /\ ~ HasNewline(SubSeq(text, 1, nl - 1))
           /\ SubSeq(text, nl + 1, Len(text)) \in Seq(Toks)
           /\ text = Append(SubSeq(text, 1, nl - 1), Newline) \o SubSeq(text, nl + 1, Len(text))
<1> DEFINE line == SubSeq(text, 1, nl - 1)  rest == SubSeq(text, nl + 1, Len(text))
<1>1. nl \in 1 .. Len(text) /\ text[nl] = Newline /\ \A j \in 1 .. nl - 1 : text[j] # Newline
  BY FirstNewlineAt
<1>2. line \in Seq(Toks) /\ Len(line) = nl - 1 /\ \A i \in 1 .. nl - 1 : line[i] = text[i]
  BY <1>1
<1>3. /\ rest \in Seq(Toks) /\ Len(rest) = Len(text) - nl
      /\ \A i \in 1 .. Len(text) - nl : rest[i] = text[nl + i]
  BY <1>1
<1> HIDE DEF line, rest
<1>4. ~ HasNewline(line)
  BY <1>1, <1>2, HasNewlineAt
<1>5. text = Append(line, Newline) \o rest
  <2>1. Append(line, Newline) \in Seq(Toks) /\ Len(Append(line, Newline)) = nl
        /\ \A i \in 1 .. nl : Append(line, Newline)[i] = text[i]
    <3>1. Newline \in Toks
      BY DEF Toks
    <3>2. /\ Append(line, Newline) \in Seq(Toks) /\ Len(Append(line, Newline)) = (nl - 1) + 1
          /\ \A i \in 1 .. nl - 1 : Append(line, Newline)[i] = line[i]
          /\ Append(line, Newline)[(nl - 1) + 1] = Newline
      BY <1>2, <3>1, SeqAppend
    <3> QED BY <1>1, <1>2, <3>2
  <2> DEFINE first == Append(line, Newline)  whole == first \o rest
  <2>2. /\ whole \in Seq(Toks) /\ Len(whole) = nl + (Len(text) - nl)
        /\ \A i \in 1 .. nl + (Len(text) - nl) :
              whole[i] = IF i <= nl THEN first[i] ELSE rest[i - nl]
    <3>1. first \in Seq(Toks) /\ Len(first) = nl
      BY <2>1
    <3> HIDE DEF first
    <3>2. /\ whole \in Seq(Toks) /\ Len(whole) = Len(first) + Len(rest)
          /\ \A i \in 1 .. Len(first) + Len(rest) :
                whole[i] = IF i <= Len(first) THEN first[i] ELSE rest[i - Len(first)]
      BY ONLY <1>3, <3>1, ConcatProperties
    <3> HIDE DEF whole
    <3> QED BY ONLY <1>3, <3>1, <3>2
  <2> HIDE DEF whole
  <2>3. Len(whole) = Len(text) /\ \A i \in 1 .. Len(text) : whole[i] = text[i]
    <3>1. Len(text) \in Nat /\ Len(whole) = Len(text)
      BY <1>1, <2>2
    <3>2. ASSUME NEW i \in 1 .. Len(text) PROVE whole[i] = text[i]
      <4>1. CASE i <= nl
        BY ONLY <1>1, <2>1, <2>2, <3>1, <4>1, i \in 1 .. Len(text) DEF first
      <4>2. CASE ~ (i <= nl)
        <5>1. i - nl \in 1 .. Len(text) - nl /\ nl + (i - nl) = i /\ i \in 1 .. nl + (Len(text) - nl)
          BY ONLY <1>1, <3>1, <4>2, i \in 1 .. Len(text)
        <5> QED BY ONLY <1>3, <2>2, <4>2, <5>1
      <4> QED BY <4>1, <4>2
    <3> QED BY <3>1, <3>2
  <2>4. whole = text
    BY ONLY <2>2, <2>3, text \in Seq(Toks), SeqEqual
  <2> QED BY <2>4 DEF whole
<1> QED BY <1>2, <1>3, <1>4, <1>5 DEF line, rest

(* Reading it closes that line and reads the rest ...                        *)
LEMMA ReadLine ==
    ASSUME NEW ls \in Seq(Line), NEW l \in LineLevels,
           NEW text \in Seq(Toks), HasNewline(text), NEW nl, nl = FirstNewline(text),
           NEW line, line = SubSeq(text, 1, nl - 1)
    PROVE  ReadText(Fresh(ls, l), text) =
               ReadText(Fresh(Append(ls, [level |-> l, text |-> line]), l),
                        SubSeq(text, nl + 1, Len(text)))
<1> DEFINE rest == SubSeq(text, nl + 1, Len(text))
<1>1. line \in Seq(Toks) /\ ~ HasNewline(line) /\ rest \in Seq(Toks)
      /\ text = Append(line, Newline) \o rest
  BY CutAtNewline
<1> HIDE DEF rest
<1>2. Newline \in Toks /\ Fresh(ls, l) \in Log /\ Append(line, Newline) \in Seq(Toks)
  BY <1>1 DEF Toks, Fresh, Log
<1>3. ReadText(Fresh(ls, l), text) = ReadText(ReadText(Fresh(ls, l), Append(line, Newline)), rest)
  BY ONLY <1>1, <1>2, ReadTextConcat
<1>4. ReadText(Fresh(ls, l), Append(line, Newline)) =
          ReadToken(ReadText(Fresh(ls, l), line), Newline)
  BY ONLY <1>1, <1>2, ReadTextAppend
<1>5. ReadText(Fresh(ls, l), line) = [done |-> ls, half |-> line, level |-> l]
  BY <1>1, ReadHalf
<1>6. ReadToken([done |-> ls, half |-> line, level |-> l], Newline) =
          Fresh(Append(ls, [level |-> l, text |-> line]), l)
  BY DEF ReadToken, Close, Fresh
<1> QED BY <1>3, <1>4, <1>5, <1>6 DEF rest

(* ... and its pieces are those of the line and those of the rest.           *)
LEMMA PiecesLine ==
    ASSUME NEW text \in Seq(Toks), HasNewline(text), NEW nl, nl = FirstNewline(text)
    PROVE  Pieces(text) = Pieces(SubSeq(text, 1, nl - 1))
                              \o Pieces(SubSeq(text, nl + 1, Len(text)))
<1> DEFINE line == SubSeq(text, 1, nl - 1)  rest == SubSeq(text, nl + 1, Len(text))
<1>1. line \in Seq(Toks) /\ rest \in Seq(Toks) /\ text = Append(line, Newline) \o rest
  BY CutAtNewline
<1> HIDE DEF line, rest
<1>2. Newline \in Toks /\ Append(line, Newline) \in Seq(Toks)
  BY <1>1 DEF Toks
<1>3. Pieces(text) = Pieces(Append(line, Newline)) \o Pieces(rest)
  BY ONLY <1>1, <1>2, PiecesConcat
<1>4. Pieces(Append(line, Newline)) = Pieces(line)
  BY ONLY <1>1, <1>2, PiecesAppend
<1> QED BY <1>3, <1>4 DEF line, rest

-----------------------------------------------------------------------------
(* The state, typed: what the readings need of it.                           *)
LogTyped ==
    /\ lines \in Seq(Line) /\ buf \in Seq(Toks) /\ fed \in Seq(Received)
    /\ level \in LineLevels
    /\ \A t \in Threads : msg[t] \in Received

LEMMA MessageType ==
    ASSUME NEW t \in Threads, NEW n \in Nat, NEW l \in Levels \cup {CONT}, NEW shape \in Shapes
    PROVE  Message(t, n, l, shape) \in Received
<1> DEFINE text == [i \in 1 .. Len(shape) |->
                       IF shape[i] = "newline" THEN Newline ELSE <<t, n, i>>]
<1>1. Len(shape) \in Nat
  BY ShapesAssumption
<1>2. text \in Seq(Toks)
  <2>1. \A i \in 1 .. Len(shape) : text[i] \in Toks
    BY <1>1 DEF Toks
  <2>2. text \in [1 .. Len(shape) -> Toks]
    BY <2>1
  <2> HIDE DEF text
  <2> QED BY <1>1, <2>2
<1>3. Message(t, n, l, shape) = [by |-> t, level |-> l, text |-> text]
  BY DEF Message
<1> HIDE DEF text
<1> QED BY <1>2, <1>3 DEF Received, LineLevels

LEMMA LogTypedInit == Init => LogTyped
<1>1. NoMessage \in Received
  BY DEF NoMessage, Received, LineLevels
<1> QED BY <1>1 DEF Init, LogTyped, LineLevels

LEMMA LogTypedStep == Typed /\ LogTyped /\ [Next]_vars => LogTyped'
<1> SUFFICES ASSUME Typed, LogTyped, [Next]_vars PROVE LogTyped'
  OBVIOUS
<1>1. ASSUME UNCHANGED <<lines, buf, fed, level, msg>> PROVE LogTyped'
  BY <1>1 DEF LogTyped
<1>2. ASSUME NEW t \in Threads, NEW l \in Levels \cup {CONT}, NEW shape \in Shapes,
             Call(t, l, shape)
      PROVE  LogTyped'
  <2>1. calls + 1 \in Nat
    BY LogAssumption DEF Typed, TypeOK
  <2>2. Message(t, calls + 1, l, shape) \in Received
    BY <2>1, MessageType
  <2>3. \A u \in Threads : msg'[u] \in Received
    BY <1>2, <2>2 DEF Call, LogTyped, Typed, Carried
  <2> QED BY <1>2, <2>3 DEF Call, LogTyped
<1>3. ASSUME NEW t \in Threads, Flush(t) PROVE LogTyped'
  <2>1. msg[t].level \in LineLevels
    BY DEF LogTyped, Received
  <2>2. Append(lines, [level |-> level, text |-> buf]) \in Seq(Line) /\ <<>> \in Seq(Toks)
    BY DEF LogTyped, Line
  <2> QED BY <1>3, <2>1, <2>2 DEF Flush, Unwind, LogTyped
<1>4. ASSUME NEW t \in Threads, Push(t) PROVE LogTyped'
  <2>1. msg[t] \in Received /\ msg[t].text \in Seq(Toks)
    BY DEF LogTyped, Received
  <2>2. buf \o msg[t].text \in Seq(Toks) /\ Append(fed, msg[t]) \in Seq(Received)
    BY <2>1 DEF LogTyped
  <2> QED BY <1>4, <2>2 DEF Push, LogTyped
<1>5. ASSUME NEW t \in Threads, EmitLine(t) PROVE LogTyped'
  <2> DEFINE nl == FirstNewline(buf)  line == SubSeq(buf, 1, nl - 1)
             rest == SubSeq(buf, nl + 1, Len(buf))
  <2>1. line \in Seq(Toks) /\ rest \in Seq(Toks)
    BY <1>5, CutAtNewline DEF EmitLine, LogTyped
  <2>2. Append(lines, [level |-> level, text |-> line]) \in Seq(Line)
    <3> HIDE DEF line
    <3>1. [level |-> level, text |-> line] \in Line
      BY <2>1 DEF LogTyped, Line
    <3> QED BY <3>1, AppendProperties DEF LogTyped
  <2>3. \/ UNCHANGED <<lines, buf>>
        \/ lines' = Append(lines, [level |-> level, text |-> line]) /\ buf' = rest
    BY <1>5 DEF EmitLine, Unwind
  <2>4. UNCHANGED <<fed, level, msg>>
    BY <1>5 DEF EmitLine, Unwind
  <2> HIDE DEF line, rest
  <2> QED BY <2>1, <2>2, <2>3, <2>4 DEF LogTyped
<1> QED BY <1>1, <1>2, <1>3, <1>4, <1>5
        DEF Next, Callback, SetState, Hook, Acquire, Release, vars

-----------------------------------------------------------------------------
(* Nothing lost, nothing repeated.                                           *)

(* The pieces of the lines and of the buffer, after one more line.           *)
LEMMA TextsLine ==
    ASSUME NEW ls \in Seq(Line), NEW l \in LineLevels, NEW text \in Seq(Toks)
    PROVE  /\ Pieces(Texts(ls)) \in Seq(Toks) /\ Pieces(text) \in Seq(Toks)
           /\ Pieces(Texts(Append(ls, [level |-> l, text |-> text]))) =
                  Pieces(Texts(ls)) \o Pieces(text)
<1>1. [level |-> l, text |-> text] \in Line /\ \A x \in Line : x.text \in Seq(Toks)
  BY DEF Line
<1>2. /\ Texts(ls) \in Seq(Toks)
      /\ Texts(Append(ls, [level |-> l, text |-> text])) = Texts(ls) \o text
  <2>1. /\ Texts(ls) \in Seq(Toks)
        /\ \A x \in Line : Texts(Append(ls, x)) = Texts(ls) \o x.text
    BY ONLY <1>1, ls \in Seq(Line), TextsAppend
  <2> QED BY <1>1, <2>1
<1>3. Newline \in Toks
  BY DEF Toks
<1>4. Pieces(Texts(ls) \o text) = Pieces(Texts(ls)) \o Pieces(text)
  BY ONLY <1>2, text \in Seq(Toks), PiecesConcat
<1> QED BY <1>2, <1>3, <1>4, PiecesAppend

LEMMA TextsMessage ==
    ASSUME NEW ms \in Seq(Received), NEW m \in Received
    PROVE  Pieces(Texts(Append(ms, m))) = Pieces(Texts(ms)) \o Pieces(m.text)
<1>1. \A x \in Received : x.text \in Seq(Toks)
  BY DEF Received
<1>2. Texts(ms) \in Seq(Toks) /\ Texts(Append(ms, m)) = Texts(ms) \o m.text
  BY <1>1, TextsAppend
<1> QED BY ONLY <1>1, <1>2, m \in Received, PiecesConcat

LEMMA LostNothingStep ==
    Typed /\ LogTyped /\ NothingLostOrRepeated /\ [Next]_vars => NothingLostOrRepeated'
<1> SUFFICES ASSUME Typed, LogTyped, NothingLostOrRepeated, [Next]_vars
             PROVE  NothingLostOrRepeated'
  OBVIOUS
<1>0. /\ lines \in Seq(Line) /\ buf \in Seq(Toks) /\ fed \in Seq(Received)
      /\ level \in LineLevels
      /\ Pieces(Texts(lines)) \in Seq(Toks) /\ Pieces(buf) \in Seq(Toks)
      /\ Pieces(Texts(lines)) \o Pieces(buf) = Pieces(Texts(fed))
  BY TextsLine DEF LogTyped, NothingLostOrRepeated
<1>1. ASSUME UNCHANGED <<lines, buf, fed>> PROVE NothingLostOrRepeated'
  BY <1>1 DEF NothingLostOrRepeated
<1>2. ASSUME NEW line \in Seq(Toks), NEW rest \in Seq(Toks),
             Pieces(buf) = Pieces(line) \o Pieces(rest),
             lines' = Append(lines, [level |-> level, text |-> line]), buf' = rest, fed' = fed
      PROVE  NothingLostOrRepeated'
  <2>1. /\ Pieces(line) \in Seq(Toks) /\ Pieces(rest) \in Seq(Toks)
        /\ Pieces(Texts(lines')) = Pieces(Texts(lines)) \o Pieces(line)
    BY <1>0, <1>2, TextsLine
  <2>2. (Pieces(Texts(lines)) \o Pieces(line)) \o Pieces(rest) =
            Pieces(Texts(lines)) \o (Pieces(line) \o Pieces(rest))
    BY ONLY <1>0, <2>1, JoinAssociative
  <2>3. Pieces(Texts(lines')) \o Pieces(buf') = Pieces(Texts(fed'))
    BY ONLY <1>0, <1>2, <2>1, <2>2
  <2> QED BY <2>3 DEF NothingLostOrRepeated
<1>3. ASSUME NEW t \in Threads, Flush(t) PROVE NothingLostOrRepeated'
  <2>1. CASE UNCHANGED <<lines, buf, fed>>
    BY <1>1, <2>1
  <2>2. CASE buf = <<>> /\ UNCHANGED <<lines, fed>> /\ buf' = <<>>
    BY <1>1, <2>2
  <2>3. CASE /\ lines' = Append(lines, [level |-> level, text |-> buf])
             /\ buf' = <<>> /\ fed' = fed
    <3>1. <<>> \in Seq(Toks) /\ Pieces(buf) = Pieces(buf) \o Pieces(<<>>)
      BY <1>0, ReadNothing
    <3> QED BY <1>0, <1>2, <2>3, <3>1
  <2> QED BY <1>3, <2>1, <2>2, <2>3 DEF Flush, Unwind
<1>4. ASSUME NEW t \in Threads, Push(t) PROVE NothingLostOrRepeated'
  <2>1. msg[t] \in Received /\ msg[t].text \in Seq(Toks)
    BY DEF LogTyped, Received
  <2> DEFINE text == msg[t].text
  <2>2. buf' = buf \o text /\ fed' = Append(fed, msg[t]) /\ lines' = lines
    BY <1>4 DEF Push
  <2>3. Pieces(text) \in Seq(Toks)
    <3>1. Newline \in Toks
      BY DEF Toks
    <3> QED BY <2>1, <3>1, PiecesAppend
  <2>4. Pieces(Texts(Append(fed, msg[t]))) = Pieces(Texts(fed)) \o Pieces(text)
    BY <1>0, <2>1, TextsMessage
  <2> HIDE DEF text
  <2>5. Pieces(buf \o text) = Pieces(buf) \o Pieces(text)
    BY ONLY <1>0, <2>1, PiecesConcat DEF text
  <2>6. (Pieces(Texts(lines)) \o Pieces(buf)) \o Pieces(text) =
            Pieces(Texts(lines)) \o (Pieces(buf) \o Pieces(text))
    BY ONLY <1>0, <2>3, JoinAssociative
  <2>7. Pieces(Texts(lines')) \o Pieces(buf') = Pieces(Texts(fed'))
    BY ONLY <1>0, <2>2, <2>4, <2>5, <2>6
  <2> QED BY <2>7 DEF NothingLostOrRepeated
<1>5. ASSUME NEW t \in Threads, EmitLine(t) PROVE NothingLostOrRepeated'
  <2> DEFINE nl == FirstNewline(buf)  line == SubSeq(buf, 1, nl - 1)
             rest == SubSeq(buf, nl + 1, Len(buf))
  <2>1. line \in Seq(Toks) /\ rest \in Seq(Toks)
    BY <1>0, <1>5, CutAtNewline DEF EmitLine
  <2>2. Pieces(buf) = Pieces(line) \o Pieces(rest)
    BY <1>0, <1>5, PiecesLine DEF EmitLine
  <2>3. \/ UNCHANGED <<lines, buf>>
        \/ lines' = Append(lines, [level |-> level, text |-> line]) /\ buf' = rest
    BY <1>5 DEF EmitLine, Unwind
  <2>4. fed' = fed
    BY <1>5 DEF EmitLine
  <2> HIDE DEF line, rest
  <2> QED BY <1>1, <1>2, <2>1, <2>2, <2>3, <2>4
<1> QED BY <1>1, <1>3, <1>4, <1>5
        DEF Next, Callback, SetState, Hook, Call, Acquire, Release, vars

(* Every piece of text that reached the buffer is in it or was delivered     *)
(* once, in order, whatever panics: for any threads, texts and calls.        *)
THEOREM NothingLost == Spec => []NothingLostOrRepeated
<1> DEFINE Inv == Typed /\ LogTyped /\ NothingLostOrRepeated
<1>1. Init => Inv
  <2>1. ASSUME Init PROVE NothingLostOrRepeated
    <3>1. <<>> \o <<>> = <<>>
      OBVIOUS
    <3>2. lines = <<>> /\ buf = <<>> /\ fed = <<>>
      BY <2>1 DEF Init
    <3> QED BY ONLY <3>1, <3>2, ReadNothing DEF NothingLostOrRepeated
  <2> QED BY <2>1, TypedInit, LogTypedInit
<1>2. Inv /\ [Next]_vars => Inv'
  BY TypedStep, LogTypedStep, LostNothingStep
<1>3. Inv => NothingLostOrRepeated
  OBVIOUS
<1> QED BY <1>1, <1>2, <1>3, PTL DEF Spec

-----------------------------------------------------------------------------
(* The bridge follows the reference reading.                                 *)

(* What the subscriber would have if the buffer were read to its end.        *)
Pending == ReadText(Fresh(lines, level), buf)

(* Before the first panic: between callbacks, and in one before its message   *)
(* reaches the buffer, that is the reading of the messages so far; a thread  *)
(* about to push has flushed the half line its message ends; while it drains, *)
(* the buffer holds lines that are still to be delivered.                    *)
Followed ==
    ~ panicked =>
        /\ (\A t \in Threads : pc[t] \notin {"pushing", "draining"}) =>
              ~ HasNewline(buf) /\ Pending = Reading
        /\ \A t \in Threads : pc[t] = "pushing" =>
              ~ HasNewline(buf) /\ Pending = Opened(Reading, msg[t])
        /\ \A t \in Threads : pc[t] = "draining" => Pending = Reading

NoText == <<>>

LEMMA NoTextRead ==
    /\ NoText \in Seq(Toks) /\ ~ HasNewline(NoText)
    /\ \A ls \in Seq(Line), l \in LineLevels :
          Fresh(ls, l) \in Log /\ ReadText(Fresh(ls, l), NoText) = Fresh(ls, l)
<1>1. NoText \in Seq(Toks) /\ Len(NoText) = 0
  BY DEF NoText
<1>2. ~ HasNewline(NoText)
  <2>1. HasNewline(NoText) <=> \E i \in 1 .. Len(NoText) : NoText[i] = Newline
    BY ONLY <1>1, HasNewlineAt
  <2> QED BY ONLY <1>1, <2>1
<1>3. \A ls \in Seq(Line), l \in LineLevels : Fresh(ls, l) \in Log
  BY DEF Fresh, Log
<1> QED BY <1>1, <1>2, <1>3, ReadNothing DEF NoText

(* The flush of a half line is what the reading opens a message with.        *)
LEMMA FlushReads ==
    ASSUME NEW ls \in Seq(Line), NEW l \in LineLevels, NEW b \in Seq(Toks), ~ HasNewline(b),
           NEW m \in Received, m.level # CONT,
           NEW flushed, flushed = IF b = <<>> THEN ls ELSE Append(ls, [level |-> l, text |-> b])
    PROVE  Opened(ReadText(Fresh(ls, l), b), m) = Fresh(flushed, m.level)
<1>1. ReadText(Fresh(ls, l), b) = [done |-> ls, half |-> b, level |-> l]
  BY ReadHalf
<1> DEFINE log == [done |-> ls, half |-> b, level |-> l]
<1>2. log.done = ls /\ log.half = b /\ log.level = l
  OBVIOUS
<1> HIDE DEF log
<1>3. Close(log).done = Append(ls, [level |-> l, text |-> b])
  BY <1>2 DEF Close
<1>4. Opened(log, m) = [done |-> flushed, half |-> <<>>, level |-> m.level]
  BY <1>2, <1>3 DEF Opened
<1> QED BY <1>1, <1>4 DEF log, Fresh

LEMMA FollowedStep ==
    Typed /\ LogTyped /\ Followed /\ [Next]_vars => Followed'
<1> SUFFICES ASSUME Typed, LogTyped, Followed, [Next]_vars, ~ panicked, ~ panicked'
             PROVE  Followed'
  <2>1. ASSUME panicked, [Next]_vars, panicked \in BOOLEAN PROVE panicked'
    BY <2>1
    DEF Next, SetState, Hook, Call, Callback, Acquire, Flush, Push, EmitLine, Release,
        Unwind, Return, vars
  <2> QED BY <2>1 DEF Followed
<1>0. /\ lines \in Seq(Line) /\ buf \in Seq(Toks) /\ fed \in Seq(Received)
      /\ level \in LineLevels /\ pc \in [Threads -> Places]
      /\ Reading \in Log
      /\ \A t \in Threads : /\ msg[t] \in Received /\ msg[t].text \in Seq(Toks)
                            /\ (lock = t) <=> (pc[t] \in Inside)
  <2>1. \A m \in Received : m.text \in Seq(Toks)
    BY DEF Received
  <2>2. NoMessage \in Received
    BY DEF NoMessage, Received, LineLevels
  <2> QED BY <2>1, <2>2, ReadMessagesAppend
          DEF LogTyped, Typed, Settled, TypeOK, Reading, Inside
(* Steps that touch neither the buffer nor a thread that works on it.        *)
<1>1. ASSUME UNCHANGED <<lines, buf, fed, level>>,
             \A u \in Threads : \/ pc'[u] = pc[u] /\ msg'[u] = msg[u]
                                \/ {pc[u], pc'[u]} \cap {"pushing", "draining"} = {}
      PROVE  Followed'
  <2>1. Pending' = Pending /\ Reading' = Reading
    BY <1>1 DEF Pending, Reading
  <2> QED BY <1>1, <2>1 DEF Followed
<1>2. ASSUME NEW t \in Threads, Flush(t) PROVE Followed'
  <2>1. /\ pc[t] = "flushing" /\ \A u \in Threads \ {t} : pc[u] \notin Inside
        /\ pc' = [pc EXCEPT ![t] = "pushing"] /\ msg' = msg /\ fed' = fed
    BY <1>0, <1>2 DEF Flush, Unwind, Inside
  <2>2. ~ HasNewline(buf) /\ Pending = Reading
    BY <2>1 DEF Followed, Inside
  <2>3. Pending' = Opened(Reading, msg[t]) /\ ~ HasNewline(buf')
    <3>1. CASE msg[t].level = CONT
      <4>1. UNCHANGED <<lines, buf, level>>
        BY <1>2, <3>1 DEF Flush
      <4> QED BY <2>2, <3>1, <4>1 DEF Pending, Opened
    <3>2. CASE msg[t].level # CONT
      <4>1. /\ level' = msg[t].level /\ buf' = NoText
            /\ lines' = IF buf = <<>> THEN lines
                        ELSE Append(lines, [level |-> level, text |-> buf])
        BY <1>2, <3>2 DEF Flush, Unwind, NoText
      <4>2. Opened(Pending, msg[t]) = Fresh(lines', level')
        <5>1. msg[t] \in Received
          BY <1>0
        <5>2. \A flushed : flushed = (IF buf = <<>> THEN lines
                                    ELSE Append(lines, [level |-> level, text |-> buf])) =>
                 Opened(ReadText(Fresh(lines, level), buf), msg[t]) = Fresh(flushed, msg[t].level)
          BY ONLY <1>0, <2>2, <3>2, <5>1, FlushReads
        <5> QED BY ONLY <4>1, <5>2 DEF Pending
      <4>3. lines' \in Seq(Line) /\ level' \in LineLevels
        BY LogTypedStep DEF LogTyped
      <4>4. ReadText(Fresh(lines', level'), NoText) = Fresh(lines', level')
        BY <4>3, NoTextRead
      <4> QED BY <2>2, <4>1, <4>2, <4>4, NoTextRead DEF Pending
    <3> QED BY <3>1, <3>2
  <2>4. /\ \A u \in Threads : pc'[u] = "pushing" => u = t
        /\ \A u \in Threads : pc'[u] # "draining"
        /\ pc'[t] = "pushing"
    BY <1>0, <2>1 DEF Inside
  <2>5. Reading' = Reading
    BY <2>1 DEF Reading
  <2> QED BY <2>1, <2>3, <2>4, <2>5 DEF Followed
<1>3. ASSUME NEW t \in Threads, Push(t) PROVE Followed'
  <2>1. /\ pc[t] = "pushing" /\ \A u \in Threads \ {t} : pc[u] \notin Inside
        /\ pc' = [pc EXCEPT ![t] = "draining"] /\ fed' = Append(fed, msg[t])
        /\ buf' = buf \o msg[t].text /\ UNCHANGED <<lines, level>>
    BY <1>0, <1>3 DEF Push, Inside
  <2>2. Pending = Opened(Reading, msg[t])
    BY <2>1 DEF Followed
  <2>3. Fresh(lines, level) \in Log
    BY <1>0, NoTextRead
  <2>4. Pending' = ReadText(Pending, msg[t].text)
    BY <1>0, <2>1, <2>3, ReadTextConcat DEF Pending
  <2>5. Reading' = ReadText(Opened(Reading, msg[t]), msg[t].text)
    BY <1>0, <2>1, ReadMessagesAppend DEF Reading
  <2>6. /\ \A u \in Threads : pc'[u] # "pushing"
        /\ pc'[t] = "draining"
    BY <1>0, <2>1 DEF Inside
  <2> QED BY <2>2, <2>4, <2>5, <2>6 DEF Followed
<1>4. ASSUME NEW t \in Threads, EmitLine(t) PROVE Followed'
  <2> DEFINE nl == FirstNewline(buf)  line == SubSeq(buf, 1, nl - 1)
             rest == SubSeq(buf, nl + 1, Len(buf))
  <2>1. /\ pc[t] = "draining" /\ HasNewline(buf) /\ UNCHANGED <<pc, msg, fed, level>>
        /\ lines' = Append(lines, [level |-> level, text |-> line]) /\ buf' = rest
    BY <1>4 DEF EmitLine, Unwind
  <2>2. \A u \in Threads \ {t} : pc[u] \notin Inside
    BY <1>0, <2>1 DEF Inside
  <2>3. Pending' = Pending
    BY <1>0, <2>1, ReadLine DEF Pending
  <2>4. Pending = Reading /\ Reading' = Reading
    BY <2>1 DEF Followed, Reading
  <2> HIDE DEF line, rest
  <2>5. \A u \in Threads : pc'[u] # "pushing"
    BY <2>1, <2>2 DEF Inside
  <2> QED BY <2>1, <2>3, <2>4, <2>5 DEF Followed
<1>5. ASSUME NEW t \in Threads, Release(t) PROVE Followed'
  <2>1. /\ pc[t] = "draining" /\ ~ HasNewline(buf) /\ UNCHANGED <<lines, buf, level, fed>>
        /\ \A u \in Threads \ {t} : pc[u] \notin Inside
        /\ pc' = [pc EXCEPT ![t] = "idle"]
    BY <1>0, <1>5 DEF Release, Return, Inside
  <2>2. Pending' = Pending /\ Reading' = Reading /\ Pending = Reading
    BY <2>1 DEF Pending, Reading, Followed
  <2>3. \A u \in Threads : pc'[u] \notin {"pushing", "draining"}
    BY <1>0, <2>1 DEF Inside
  <2> QED BY <2>1, <2>2, <2>3 DEF Followed
<1>6. ASSUME NEW t \in Threads, NEW options, SetState(t, options) PROVE Followed'
  BY <1>0, <1>1, <1>6 DEF SetState
<1>7. ASSUME NEW t \in Threads, Hook(t) PROVE Followed'
  BY <1>0, <1>1, <1>7 DEF Hook
<1>8. ASSUME NEW t \in Threads, NEW l, NEW shape, Call(t, l, shape) PROVE Followed'
  <2>1. \A u \in Threads \ {t} : msg'[u] = msg[u]
    BY <1>8 DEF Call, Typed, Carried
  <2> QED BY <1>0, <1>1, <1>8, <2>1 DEF Call
<1>9. ASSUME NEW t \in Threads, Acquire(t) PROVE Followed'
  BY <1>0, <1>1, <1>9 DEF Acquire
<1>10. CASE UNCHANGED vars
  BY <1>1, <1>10 DEF vars
<1> QED BY <1>2, <1>3, <1>4, <1>5, <1>6, <1>7, <1>8, <1>9, <1>10 DEF Next, Callback

(* Until a subscriber panics, it receives what the reference reading of the   *)
(* messages says: the same lines at the same levels, the buffer holding the   *)
(* open one; for any threads, interleaving, texts and levels.                *)
THEOREM AsLogged == Spec => []LinesAsLogged
<1> DEFINE Inv == Typed /\ LogTyped /\ Followed
<1>1. Init => Inv
  <2> SUFFICES ASSUME Init PROVE Followed
    BY TypedInit, LogTypedInit
  <2>1. /\ lines = <<>> /\ buf = NoText /\ fed = <<>> /\ level = "info"
        /\ \A t \in Threads : pc[t] = "idle"
    BY DEF Init, NoText
  <2>2. Reading = Fresh(lines, level)
    BY <2>1, ReadNothing DEF Reading, Fresh
  <2>3. lines \in Seq(Line) /\ level \in LineLevels
    BY LogTypedInit DEF LogTyped
  <2>4. Pending = Reading /\ ~ HasNewline(buf)
    BY <2>1, <2>2, <2>3, NoTextRead DEF Pending
  <2> QED BY <2>1, <2>4 DEF Followed
<1>2. Inv /\ [Next]_vars => Inv'
  BY TypedStep, LogTypedStep, FollowedStep
<1>3. Inv => LinesAsLogged
  <2> SUFFICES ASSUME Inv, lock = Nobody, ~ panicked
               PROVE  lines = Reading.done /\ buf = Reading.half /\ level = Reading.level
    BY DEF LinesAsLogged
  <2>1. \A t \in Threads : pc[t] \notin Inside
    BY LogAssumption DEF Typed, TypeOK, Inside
  <2>2. ~ HasNewline(buf) /\ Pending = Reading
    BY <2>1 DEF Followed, Inside
  <2>3. Pending = [done |-> lines, half |-> buf, level |-> level]
    BY <2>2, ReadHalf DEF Pending, LogTyped
  <2> QED BY <2>2, <2>3
<1> QED BY <1>1, <1>2, <1>3, PTL DEF Spec

=============================================================================
