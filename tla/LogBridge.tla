------------------------------ MODULE LogBridge ------------------------------
(***************************************************************************)
(* The log bridge (log.rs): llama.cpp's log callback turned into `tracing` *)
(* events.  Any thread that runs llama.cpp may log; the callback takes one *)
(* mutex, stitches partial messages (GGML_LOG_LEVEL_CONT) into lines and   *)
(* hands each line to the subscriber while it holds the mutex.  The        *)
(* subscriber is arbitrary code and may panic; catch_unwind stops the      *)
(* panic at the callback's edge, the mutex guard is dropped on the way.    *)
(*                                                                         *)
(* A text is a sequence of tokens: Newline, or <<t, n, i>>, the i-th piece *)
(* of the n-th call, made by thread t.                                     *)
(***************************************************************************)
EXTENDS Integers, Sequences, SequencesExt

CONSTANTS
    Threads,
    Levels,     \* the ggml log levels besides CONT
    Shapes,     \* texts the library logs: sequences over {"text", "newline"}
    Bad,        \* calls whose text makes the subscriber panic
    MaxCalls    \* bound: callback invocations

CONT == "cont"
Nobody == "nobody"
ASSUME LogAssumption == MaxCalls \in Nat /\ CONT \notin Levels /\ Nobody \notin Threads
ASSUME ShapesAssumption == \A shape \in Shapes : shape \in Seq({"text", "newline"})

VARIABLES
    state,      \* the static STATE: "unset", or what its `disabled` makes of it
    hooked,     \* llama_log_set has installed logs_to_trace
    lock,       \* the thread that holds `pending`, or Nobody
    level,      \* pending.0: the level of the line in buf
    buf,        \* pending.1
    pc,         \* pc[t]: where thread t is in the callback
    msg,        \* msg[t]: its message
    lines,      \* what the subscriber was given and accepted
    calls,      \* callback invocations so far
    fed,        \* history: messages in the order they reached buf
    returned,   \* history: messages whose callback has returned
    panicked    \* history: a callback has been unwound

vars == <<state, hooked, lock, level, buf, pc, msg, lines, calls, fed, returned, panicked>>

Newline == <<>>
NoMessage == [by |-> Nobody, level |-> CONT, text |-> <<>>]

(* Message n of thread t, with a text of the given shape. *)
Message(t, n, l, shape) ==
    [by |-> t, level |-> l,
     text |-> [i \in 1 .. Len(shape) |->
                  IF shape[i] = "newline" THEN Newline ELSE <<t, n, i>>]]

HasNewline(text) == Newline \in ToSet(text)
FirstNewline(text) == CHOOSE i \in 1 .. Len(text) :
                          text[i] = Newline /\ \A j \in 1 .. i - 1 : text[j] # Newline

(* The subscriber panics, or not, on a line that holds a bad call's text.   *)
Upsets(text) == \E i \in 1 .. Len(text) : text[i] # Newline /\ text[i][2] \in Bad

-----------------------------------------------------------------------------
Init ==
    /\ state = "unset" /\ hooked = FALSE
    /\ lock = Nobody /\ level = "info" /\ buf = <<>>
    /\ pc = [t \in Threads |-> "idle"]
    /\ msg = [t \in Threads |-> NoMessage]
    /\ lines = <<>> /\ calls = 0 /\ fed = <<>> /\ returned = {}
    /\ panicked = FALSE

(* Mutant: the last call's options win. *)
SetStateAgain(t, options) ==
    /\ pc[t] = "idle"
    /\ state' = options
    /\ pc' = [pc EXCEPT ![t] = "hooking"]
    /\ UNCHANGED <<hooked, lock, level, buf, msg, lines, calls, fed, returned, panicked>>

(* send_logs_to_tracing: OnceLock::get_or_init, then llama_log_set.         *)
SetState(t, options) ==
    /\ pc[t] = "idle"
    /\ state' = IF state = "unset" THEN options ELSE state
    /\ pc' = [pc EXCEPT ![t] = "hooking"]
    /\ UNCHANGED <<hooked, lock, level, buf, msg, lines, calls, fed, returned, panicked>>

Hook(t) ==
    /\ pc[t] = "hooking"
    /\ hooked' = TRUE
    /\ pc' = [pc EXCEPT ![t] = "idle"]
    /\ UNCHANGED <<state, lock, level, buf, msg, lines, calls, fed, returned, panicked>>

(* The library logs: with the bridge disabled the callback returns at once. *)
Call(t, l, shape) ==
    /\ pc[t] = "idle" /\ hooked /\ calls < MaxCalls
    /\ calls' = calls + 1
    /\ IF state = "disabled"
       THEN UNCHANGED <<pc, msg>>
       ELSE /\ pc' = [pc EXCEPT ![t] = "locking"]
            /\ msg' = [msg EXCEPT ![t] = Message(t, calls + 1, l, shape)]
    /\ UNCHANGED <<state, hooked, lock, level, buf, lines, fed, returned, panicked>>

(* Mutant: the buffer is used without its mutex. *)
AcquireNothing(t) ==
    /\ pc[t] = "locking"
    /\ pc' = [pc EXCEPT ![t] = "flushing"]
    /\ UNCHANGED <<state, hooked, lock, level, buf, msg, lines, calls, fed, returned, panicked>>

(* A poisoned mutex is taken all the same (PoisonError::into_inner).        *)
Acquire(t) ==
    /\ pc[t] = "locking" /\ lock = Nobody
    /\ lock' = t
    /\ pc' = [pc EXCEPT ![t] = "flushing"]
    /\ UNCHANGED <<state, hooked, level, buf, msg, lines, calls, fed, returned, panicked>>

(* Mutant: a return that keeps the mutex. *)
ReturnLocked(t) ==
    /\ pc' = [pc EXCEPT ![t] = "idle"]
    /\ returned' = returned \cup {msg[t]}
    /\ UNCHANGED lock

Return(t) ==
    /\ lock' = Nobody
    /\ pc' = [pc EXCEPT ![t] = "idle"]
    /\ returned' = returned \cup {msg[t]}

(* Mutant: a panic throws the buffer away. *)
UnwindCleared(t) ==
    Return(t) /\ panicked' = TRUE /\ buf' = <<>> /\ UNCHANGED <<level, lines>>

(* emit panicked: the stack unwinds to catch_unwind, buf is as it was.      *)
Unwind(t) == Return(t) /\ panicked' = TRUE /\ UNCHANGED <<level, buf, lines>>

(* Mutant: the abandoned half line is reported at the new message's level. *)
FlushAtNewLevel(t) ==
    /\ pc[t] = "flushing"
    /\ pc' = [pc EXCEPT ![t] = "pushing"]
    /\ IF msg[t].level = CONT
       THEN UNCHANGED <<level, buf, lines>>
       ELSE /\ level' = msg[t].level
            /\ buf' = <<>>
            /\ lines' = IF buf = <<>> THEN lines
                        ELSE Append(lines, [level |-> msg[t].level, text |-> buf])
    /\ UNCHANGED <<state, hooked, lock, msg, calls, fed, returned, panicked>>

(* A non-CONT message flushes an abandoned half line at its own level.      *)
Flush(t) ==
    /\ pc[t] = "flushing"
    /\ \/ msg[t].level # CONT /\ Upsets(buf) /\ Unwind(t)
       \/ /\ IF msg[t].level = CONT
             THEN UNCHANGED <<level, buf, lines>>
             ELSE /\ level' = msg[t].level
                  /\ buf' = <<>>
                  /\ lines' = IF buf = <<>> THEN lines
                              ELSE Append(lines, [level |-> level, text |-> buf])
          /\ pc' = [pc EXCEPT ![t] = "pushing"]
          /\ UNCHANGED <<lock, returned, panicked>>
    /\ UNCHANGED <<state, hooked, msg, calls, fed>>

Push(t) ==
    /\ pc[t] = "pushing"
    /\ buf' = buf \o msg[t].text
    /\ fed' = Append(fed, msg[t])
    /\ pc' = [pc EXCEPT ![t] = "draining"]
    /\ UNCHANGED <<state, hooked, lock, level, msg, lines, calls, returned, panicked>>

(* while a newline is in buf: emit the line before it, then drain it.       *)
EmitLine(t) ==
    LET nl == FirstNewline(buf)
        line == SubSeq(buf, 1, nl - 1)
    IN
    /\ pc[t] = "draining" /\ HasNewline(buf)
    /\ \/ Upsets(line) /\ Unwind(t)
       \/ /\ lines' = Append(lines, [level |-> level, text |-> line])
          /\ buf' = SubSeq(buf, nl + 1, Len(buf))
          /\ UNCHANGED <<lock, level, pc, returned, panicked>>
    /\ UNCHANGED <<state, hooked, msg, calls, fed>>

Release(t) ==
    /\ pc[t] = "draining" /\ ~ HasNewline(buf)
    /\ Return(t)
    /\ UNCHANGED <<state, hooked, level, buf, msg, lines, calls, fed, panicked>>

Callback(t) == Acquire(t) \/ Flush(t) \/ Push(t) \/ EmitLine(t) \/ Release(t)

Next == \E t \in Threads :
    \/ \E options \in {"enabled", "disabled"} : SetState(t, options)
    \/ Hook(t)
    \/ \E l \in Levels \cup {CONT}, shape \in Shapes : Call(t, l, shape)
    \/ Callback(t)

(* A thread inside the callback keeps running; nothing makes it log.        *)
Spec == Init /\ [][Next]_vars /\ \A t \in Threads : WF_vars(Callback(t))

-----------------------------------------------------------------------------
(* Properties. *)

(* The mutex has an owner exactly while that thread is between lock() and    *)
(* the guard's drop; everything else keeps its type.                         *)
TypeOK ==
    /\ state \in {"unset", "enabled", "disabled"} /\ hooked \in BOOLEAN
    /\ level \in Levels \cup {"info"} /\ calls \in 0 .. MaxCalls
    /\ \A t \in Threads :
          (lock = t) <=> (pc[t] \in {"flushing", "pushing", "draining"})

(* The texts of a list of lines or messages, one after the other.            *)
Texts(ls) ==
    LET texts[n \in 0 .. Len(ls)] == IF n = 0 THEN <<>> ELSE texts[n - 1] \o ls[n].text
    IN  texts[Len(ls)]

(* A text without its newlines.                                              *)
Pieces(text) ==
    LET pieces[n \in 0 .. Len(text)] ==
            IF n = 0 THEN <<>>
            ELSE IF text[n] = Newline THEN pieces[n - 1] ELSE Append(pieces[n - 1], text[n])
    IN  pieces[Len(text)]

(* Every piece of text that reached the buffer is either still in it or was  *)
(* given to the subscriber once, in the order of the calls: no panic, flush  *)
(* or split drops, repeats or reorders one.                                  *)
NothingLostOrRepeated ==
    Pieces(Texts(lines)) \o Pieces(buf) = Pieces(Texts(fed))

(* The reference reading of a log: a newline closes a line; a message other   *)
(* than CONT closes the half line before it and sets the level.              *)
Close(log) ==
    [done |-> Append(log.done, [level |-> log.level, text |-> log.half]),
     half |-> <<>>, level |-> log.level]
ReadToken(log, tok) ==
    IF tok = Newline THEN Close(log)
    ELSE [done |-> log.done, half |-> Append(log.half, tok), level |-> log.level]
ReadText(log, text) ==
    LET read[n \in 0 .. Len(text)] == IF n = 0 THEN log ELSE ReadToken(read[n - 1], text[n])
    IN  read[Len(text)]
Opened(log, m) ==
    IF m.level = CONT THEN log
    ELSE [done |-> IF log.half = <<>> THEN log.done ELSE Close(log).done,
          half |-> <<>>, level |-> m.level]
ReadMessages(ms) ==
    LET read[n \in 0 .. Len(ms)] ==
            IF n = 0 THEN [done |-> <<>>, half |-> <<>>, level |-> "info"]
            ELSE ReadText(Opened(read[n - 1], ms[n]), ms[n].text)
    IN  read[Len(ms)]
Reading == ReadMessages(fed)

(* Until the subscriber panics for the first time, what it received is that  *)
(* reading of the messages: the same lines, each at the level it started at, *)
(* and the buffer holds exactly the line that is still open.                 *)
LinesAsLogged ==
    lock = Nobody /\ ~ panicked =>
        /\ lines = Reading.done
        /\ buf = Reading.half
        /\ level = Reading.level

(* A disabled bridge stays silent, whoever asked for what afterwards.        *)
DisabledIsSilent == state = "disabled" => lines = <<>> /\ fed = <<>>

(* Every callback returns to the library, panics included: the mutex is      *)
(* never left locked.                                                        *)
CallsReturn == \A t \in Threads : (pc[t] = "locking") ~> (pc[t] = "idle")

(* A line the subscriber would accept reaches it even after an earlier call  *)
(* panicked mid-buffer ("keep bridging", log.rs:85).  The line that made the *)
(* earlier call panic is still in buf, ahead of it.                          *)
KeepsBridging ==
    \A m \in returned :
        LET text == m.text IN
        /\ text # <<>> /\ text[Len(text)] = Newline /\ ~ Upsets(text)
        => \A i \in 1 .. Len(text) :
              text[i] = Newline \/ text[i] \in ToSet(Texts(lines))

=============================================================================
