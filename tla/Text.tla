--------------------------------- MODULE Text ---------------------------------
(***************************************************************************)
(* What the crate reads out of a loaded model or of a GGUF header: tokens, *)
(* pieces, metadata and templates through buffers sized in one library     *)
(* call and filled in another (model.rs, model/meta.rs, model/chat.rs), and *)
(* header entries by index (gguf.rs).  A result is a set: {x} for Ok(x) or *)
(* Some(x), {} for an error or None.  A text is a sequence of distinct     *)
(* elements, 0 the byte a fresh buffer holds.  Texts are shorter than      *)
(* i32::MAX.                                                               *)
(***************************************************************************)
EXTENDS Integers, SequencesExt

CONSTANTS
    Slack,      \* what tokenize adds to the length of the text (16 in the code)
    Guess,      \* the buffer the decoding readers start from (8 in the code)
    Room,       \* what a piece's string has beyond its bytes (16 in the code)
    Vocab,      \* Vocab[t + 1]: the bytes of the piece of token t
    Header      \* [keys: Seq([name, items]), tensors: Seq(_)]: a parsed file

ASSUME SizesAssumption == Slack \in Nat /\ Guess \in Nat /\ Room \in Nat

Zeros(n) == [i \in 1..n |-> 0]
Text(n) == [i \in 1..n |-> i]
Cut(s, n) == SubSeq(s, 1, IF n < Len(s) THEN n ELSE Len(s))
Padded(s, cap) == Cut(s, cap) \o Zeros(cap - Len(Cut(s, cap)))

(* The library's calls: a count and the buffer they leave.  `source` is {s}  *)
(* when the library has the text s and {} when it answers with an error.    *)
FillOrNeed(source, cap) ==
    LET s == CHOOSE s \in source : TRUE IN
    CASE source = {}  -> [n |-> -1, buf |-> Zeros(cap)]
      [] source # {} /\ Len(s) > cap -> [n |-> -Len(s), buf |-> Zeros(cap)]
      [] OTHER -> [n |-> Len(s), buf |-> Padded(s, cap)]

Snprintf(source, size) ==
    LET s == CHOOSE s \in source : TRUE IN
    IF source = {} THEN [n |-> -1, buf |-> Zeros(size)]
    ELSE [n |-> Len(s), buf |-> IF size = 0 THEN << >> ELSE Padded(Cut(s, size - 1), size)]

FillWhatFits(source, cap) ==
    LET s == CHOOSE s \in source : TRUE IN
    IF source = {} THEN [n |-> -1, buf |-> Zeros(cap)]
    ELSE [n |-> Len(s), buf |-> Padded(s, cap)]

Truncated(r) == IF r.n < 0 THEN {} ELSE {Cut(r.buf, r.n)}

(* Mutant: the second buffer is one short. *)
NeededLessOne(n) == -n - 1

(* A negative count asks for that much room.                                *)
Needed(n) == -n

(* tokenize: `bytes` is the length of the text, `source` its tokens.         *)
Tokenize(source, bytes) ==
    LET first == FillOrNeed(source, bytes + Slack)
    IN  Truncated(IF first.n < 0 THEN FillOrNeed(source, Needed(first.n)) ELSE first)

(* token_to_piece_bytes: the id is checked before the library sees it.       *)
Piece(token, bufSize) ==
    LET source == {Vocab[token + 1]}
        first == FillOrNeed(source, IF bufSize = 0 THEN 1 ELSE bufSize)
    IN  IF token < 0 \/ token >= Len(Vocab) THEN {}
        ELSE Truncated(IF first.n < 0 THEN FillOrNeed(source, Needed(first.n)) ELSE first)

(* read_ffi_string: probe with no buffer, then fill one with room for NUL.   *)
ReadFfiString(source) ==
    LET probe == Snprintf(source, 0)
    IN  IF probe.n < 0 THEN {} ELSE Truncated(Snprintf(source, probe.n + 1))

(* apply_chat_template: twice the bytes of the messages, again if too small. *)
ApplyChatTemplate(source, bytes) ==
    LET first == FillWhatFits(source, 2 * bytes)
    IN  Truncated(IF first.n > 2 * bytes THEN FillWhatFits(source, first.n) ELSE first)

-----------------------------------------------------------------------------
(* Incremental decoding.  A byte is a letter (1), the lead of a two-byte       *)
(* character (2) or its continuation (3); `open` says that a lead is pending. *)
Letter == 1
Lead == 2
Continuation == 3
Character == 23
Replacement == 63
ASSUME VocabAssumption == Vocab \in Seq(Seq({Letter, Lead, Continuation}))

(* What a byte adds: its text, the room that takes in a string of UTF-8, and   *)
(* the bytes it gives up for U+FFFD.                                         *)
Emitted(open, byte) ==
    CASE byte = Letter /\ ~ open -> [text |-> <<Letter>>, size |-> 1, bad |-> 0]
      [] byte = Letter /\ open -> [text |-> <<Replacement, Letter>>, size |-> 4, bad |-> 1]
      [] byte = Lead /\ ~ open -> [text |-> << >>, size |-> 0, bad |-> 0]
      [] byte = Lead /\ open -> [text |-> <<Replacement>>, size |-> 3, bad |-> 1]
      [] byte = Continuation /\ open -> [text |-> <<Character>>, size |-> 2, bad |-> 0]
      [] byte = Continuation /\ ~ open -> [text |-> <<Replacement>>, size |-> 3, bad |-> 1]

DecodeByte(d, byte) ==
    LET e == Emitted(d.open, byte) IN
    [out |-> d.out \o e.text, open |-> byte = Lead, size |-> d.size + e.size,
     bad |-> d.bad + e.bad]

Fresh(open) == [out |-> << >>, open |-> open, size |-> 0, bad |-> 0]
NewDecoder == Fresh(FALSE)
DecodeToString(d, bytes) ==
    LET decoded[n \in 0 .. Len(bytes)] ==
            IF n = 0 THEN d ELSE DecodeByte(decoded[n - 1], bytes[n])
    IN  decoded[Len(bytes)]

(* decode_to_string with a string that does not grow: it stops at the byte    *)
(* whose text has no room.                                                   *)
DecodeInto(d, bytes, capacity) ==
    LET After(n) == DecodeToString(d, SubSeq(bytes, 1, n))
        fits == {n \in 0 .. Len(bytes) : After(n).size - d.size <= capacity}
    IN  After(Max(fits))

(* token_to_piece: the caller's decoder goes on where the last piece ended.   *)
(* That the string is full is ignored, and with it the bytes left over.      *)
TokenToPiece(d, token) ==
    {DecodeInto(d, bytes, Len(bytes) + Room) : bytes \in Piece(token, Guess)}

(* detokenize: the first bad id fails the call; an unfinished character at   *)
(* the end is never flushed.                                                *)
Detokenize(tokens) ==
    LET decoded[n \in 0 .. Len(tokens)] ==
            IF n = 0 THEN {NewDecoder}
            ELSE UNION {TokenToPiece(d, tokens[n]) : d \in decoded[n - 1]}
    IN  {d.out : d \in decoded[Len(tokens)]}

(* The bytes of a text: those of its tokens' pieces, one after the other.      *)
BytesOf(tokens) ==
    LET bytes[n \in 0 .. Len(tokens)] ==
            IF n = 0 THEN << >> ELSE bytes[n - 1] \o Vocab[tokens[n] + 1]
    IN  bytes[Len(tokens)]

-----------------------------------------------------------------------------
(* The GGUF header.  The library asserts a key index, and nothing else: an   *)
(* index past a table reads whatever lies there.                            *)

ASSUME HeaderAssumption ==
    /\ Header.keys \in Seq(ToSet(Header.keys)) /\ Header.tensors \in Seq(ToSet(Header.tensors))
    /\ \A k \in DOMAIN Header.keys :
          Header.keys[k].items \in Seq(ToSet(Header.keys[k].items))

Abort == [name |-> "aborted", items |-> << >>]
Wild == "wild memory"
LibAt(table, i) == IF i + 1 \in DOMAIN table THEN table[i + 1] ELSE Wild
LibKey(i) == IF i + 1 \in DOMAIN Header.keys THEN Header.keys[i + 1] ELSE Abort

(* find_key: the index, or -1 (also for a name that holds a NUL).            *)
FindKey(name) ==
    LET at == {i \in DOMAIN Header.keys : Header.keys[i].name = name}
    IN  IF at = {} THEN -1 ELSE (CHOOSE i \in at : \A j \in at : i <= j) - 1

Within(i, n) == i >= 0 /\ i < n

KeyAt(i) == LibKey(i).name
ArrLen(i) == Len(LibKey(i).items)
ArrStr(key, i) ==
    IF Within(i, ArrLen(key)) THEN {LibAt(LibKey(key).items, i)} ELSE {}

(* tensor_name, tensor_type and tensor_offset.                              *)
Tensor(i) ==
    IF Within(i, Len(Header.tensors)) THEN {LibAt(Header.tensors, i)} ELSE {}

=============================================================================
