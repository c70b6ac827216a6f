-------------------------------- MODULE Model --------------------------------
(***************************************************************************)
(* What lives on the backend: models, the contexts that borrow them, and   *)
(* the LoRA adapters a model owns (model.rs, context.rs, model/lora.rs).   *)
(* The borrow checker's rules are guards: a context or an adapter handle   *)
(* keeps its model from being dropped.  The one rule the types leave to    *)
(* the caller, that the backend outlives every model, is the guard of      *)
(* `DropBackend`.  A failed load or init changes nothing and is a stutter. *)
(* A call may also read a text or a header entry (Text); `answer` holds    *)
(* the last result.                                                        *)
(***************************************************************************)
EXTENDS Backend, Text

CONSTANTS
    Models, Contexts, Adapters, NoModel,
    MaxText     \* longest text, buffer or token list that is tried

ASSUME NoModelAssumption == NoModel \notin Models
ASSUME MaxTextAssumption == MaxText \in Nat

VARIABLES
    models,     \* the loaded models
    model,      \* model[c]: the model context c borrows, or NoModel
    owner,      \* owner[a]: the model adapter a registered with, or NoModel
    handles,    \* the adapters whose Rust handle is still alive
    frees,      \* frees[a]: how often the library has freed a's memory
    adapters,   \* adapters[c]: the adapters context c applies in a decode
    answer      \* the last read: what was asked, what is there, what came back

lives == <<models, model, owner, handles, frees, adapters>>
modelVars == <<INITIALIZED, library, pc, models, model, owner, handles, frees, adapters, answer>>

Nothing == [ask |-> "nothing", want |-> {}, got |-> {}]

ModelInit ==
    /\ Init
    /\ models = {} /\ handles = {}
    /\ model = [c \in Contexts |-> NoModel]
    /\ owner = [a \in Adapters |-> NoModel]
    /\ frees = [a \in Adapters |-> 0]
    /\ adapters = [c \in Contexts |-> {}]
    /\ answer = Nothing

HoldsBackend == \E t \in Threads : pc[t] = "live"

LoadFromFile(m) ==
    /\ HoldsBackend /\ m \notin models
    /\ models' = models \cup {m}
    /\ UNCHANGED <<model, owner, handles, frees, adapters>>

NewContext(c, m) ==
    /\ HoldsBackend /\ m \in models /\ model[c] = NoModel
    /\ model' = [model EXCEPT ![c] = m]
    /\ UNCHANGED <<models, owner, handles, frees, adapters>>

DropContext(c) ==
    /\ model[c] # NoModel
    /\ model' = [model EXCEPT ![c] = NoModel]
    /\ adapters' = [adapters EXCEPT ![c] = {}]
    /\ UNCHANGED <<models, owner, handles, frees>>

OwnedBy(m) == {a \in Adapters : owner[a] = m}

(* Nothing borrows the model any more; the library frees its adapters.       *)
DropModel(m) ==
    /\ m \in models /\ (\A c \in Contexts : model[c] # m) /\ OwnedBy(m) \cap handles = {}
    /\ models' = models \ {m}
    /\ owner' = [a \in Adapters |-> IF a \in OwnedBy(m) THEN NoModel ELSE owner[a]]
    /\ frees' = [a \in Adapters |-> IF a \in OwnedBy(m) THEN frees[a] + 1 ELSE frees[a]]
    /\ UNCHANGED <<model, handles, adapters>>

(* A slot stands for one adapter: it is not used again once freed.           *)
LoraAdapterInit(a, m) ==
    /\ m \in models /\ owner[a] = NoModel /\ frees[a] = 0
    /\ owner' = [owner EXCEPT ![a] = m] /\ handles' = handles \cup {a}
    /\ UNCHANGED <<models, model, frees, adapters>>

(* Mutant: the handle frees the adapter, as an `impl Drop` would. *)
DropAdapterFreeing(a) ==
    /\ a \in handles /\ handles' = handles \ {a}
    /\ frees' = [frees EXCEPT ![a] = @ + 1]
    /\ UNCHANGED <<models, model, owner, adapters>>

(* The handle has no Drop: the adapter stays with its model.                 *)
DropAdapter(a) ==
    /\ a \in handles /\ handles' = handles \ {a}
    /\ UNCHANGED <<models, model, owner, frees, adapters>>

(* Any adapter handle will do, one of another model too.                     *)
LoraAdapterSet(c, a) ==
    /\ model[c] # NoModel /\ a \in handles
    /\ adapters' = [adapters EXCEPT ![c] = @ \cup {a}]
    /\ UNCHANGED <<models, model, owner, handles, frees>>

LoraAdapterRemove(c, a) ==
    /\ model[c] # NoModel /\ a \in handles \cap adapters[c]
    /\ adapters' = [adapters EXCEPT ![c] = @ \ {a}]
    /\ UNCHANGED <<models, model, owner, handles, frees>>

LoraAdapterClear(c) ==
    /\ model[c] # NoModel /\ adapters[c] # {}
    /\ adapters' = [adapters EXCEPT ![c] = {}]
    /\ UNCHANGED <<models, model, owner, handles, frees>>

-----------------------------------------------------------------------------
(* Reads.  `want` is what the library holds.                                *)

Answered(ask, want, got) == answer' = [ask |-> ask, want |-> want, got |-> got]

(* What the library holds for a tokenizer, a metadata or a template request. *)
Sources == {{}} \cup {{Text(n)} : n \in 0..MaxText}

ReadText == \E source \in Sources :
    \/ \E bytes \in 0..MaxText : Answered("text", source, Tokenize(source, bytes))
    \/ Answered("text", source, ReadFfiString(source))
    \/ \E bytes \in 0..MaxText : Answered("text", source, ApplyChatTemplate(source, bytes))

Ids == -1..Len(Vocab)
Known(t) == t \in 0..Len(Vocab) - 1

ReadPiece == \E t \in Ids, bufSize \in 0..MaxText :
    Answered("text", IF Known(t) THEN {Vocab[t + 1]} ELSE {}, Piece(t, bufSize))

(* A piece whose text fits its string for certain: at most 7 bytes are given   *)
(* up for U+FFFD, in the code, whatever the decoder held before.             *)
FewReplaced(t) ==
    \A open \in BOOLEAN : 2 * DecodeToString(Fresh(open), Vocab[t + 1]).bad < Room

ReadTokens == \E tokens \in SeqOf(Ids, MaxText) :
    LET known == \A i \in DOMAIN tokens : Known(tokens[i])
        ask == IF known /\ \E i \in DOMAIN tokens : ~ FewReplaced(tokens[i])
               THEN "overfull" ELSE "text"
    IN  Answered(ask,
                 IF known THEN {DecodeToString(NewDecoder, BytesOf(tokens)).out} ELSE {},
                 Detokenize(tokens))

(* A caller looks its key up and reads by the index found, as gguf.rs asks.  *)
ReadHeader ==
    \/ \E i \in -1..Len(Header.tensors) :
          Answered("header", {Header.tensors[j] : j \in (DOMAIN Header.tensors) \cap {i + 1}}, Tensor(i))
    \/ \E k \in DOMAIN Header.keys :
          LET name == Header.keys[k].name
              found == FindKey(name)
          IN
          /\ found >= 0
          /\ \/ Answered("header", {name}, {KeyAt(found)})
             \/ LET items == Header.keys[found + 1].items IN
                \E i \in -1..Len(items) :
                   Answered("header", {items[j] : j \in (DOMAIN items) \cap {i + 1}},
                            ArrStr(found, i))

(* A read changes nothing, so one at a time, and only in states with a model, *)
(* is enough.                                                                *)
Read == models # {} /\ answer = Nothing /\ (ReadText \/ ReadPiece \/ ReadTokens \/ ReadHeader)

-----------------------------------------------------------------------------
DropBackend(t) == models = {} /\ Drop(t)

OnBackend == \E t \in Threads :
    Swap(t) \/ (\E u \in Threads : Send(t, u)) \/ DropBackend(t) \/ Finish(t)

OnModels ==
    \/ \E m \in Models : LoadFromFile(m) \/ DropModel(m)
    \/ \E c \in Contexts, m \in Models : NewContext(c, m)
    \/ \E c \in Contexts : DropContext(c) \/ LoraAdapterClear(c)
    \/ \E a \in Adapters, m \in Models : LoraAdapterInit(a, m)
    \/ \E a \in Adapters : DropAdapter(a)
    \/ \E c \in Contexts, a \in Adapters : LoraAdapterSet(c, a) \/ LoraAdapterRemove(c, a)

ModelNext ==
    \/ OnBackend /\ UNCHANGED lives /\ answer' = Nothing
    \/ OnModels /\ UNCHANGED vars /\ answer' = Nothing
    \/ Read /\ UNCHANGED vars /\ UNCHANGED lives

ModelSpec ==
    /\ ModelInit /\ [][ModelNext]_modelVars
    /\ \A t \in Threads : WF_modelVars(Finish(t) /\ UNCHANGED lives /\ answer' = Nothing)

-----------------------------------------------------------------------------
(* Properties. *)

(* As long as the backend is dropped after the models, as load_from_file's   *)
(* doc requires, no model lives on a library that is down: no drop of an     *)
(* earlier handle, still on its way, can free the library under it.          *)
LoadedWhileUp == models # {} => library = "up"

(* An adapter is freed once, with its model, and a context never applies a   *)
(* freed adapter that it got while both belonged to one model.  (One of      *)
(* another model is outside: no lifetime ties it to the context.)            *)
AdaptersFreedOnce ==
    /\ \A a \in Adapters : frees[a] <= 1 /\ (a \in handles => frees[a] = 0)
    /\ \A c \in Contexts, a \in Adapters :
          a \in adapters[c] /\ owner[a] = model[c] => frees[a] = 0

(* The inductive invariants: models live on a held handle; an adapter is      *)
(* freed exactly when it has left its model, and handles have not.            *)
LifeInv == models # {} => HoldsBackend

AdapterInv ==
    /\ models \subseteq Models
    /\ model \in [Contexts -> Models \cup {NoModel}]
    /\ owner \in [Adapters -> models \cup {NoModel}] /\ frees \in [Adapters -> {0, 1}]
    /\ adapters \in [Contexts -> SUBSET Adapters] /\ handles \subseteq Adapters
    /\ \A a \in Adapters : owner[a] # NoModel => frees[a] = 0
    /\ \A a \in handles : owner[a] # NoModel
    /\ \A c \in Contexts : model[c] = NoModel => adapters[c] = {}

(* Every text, piece and header entry comes back whole or not at all: a text   *)
(* whatever the first buffer was, with an error only where the library has    *)
(* none and the characters split over tokens put together again; an entry by  *)
(* an index its own lookups gave, or any index of a tensor or an array        *)
(* element, and never out of memory past its table.  Except that decoding     *)
(* tokens, never an error for known ones, may lose bytes of a piece that is   *)
(* mostly no UTF-8.                                                          *)
ReadsWhole ==
    /\ answer.got = {} <=> answer.want = {}
    /\ answer.ask # "overfull" => answer.got = answer.want

=============================================================================
