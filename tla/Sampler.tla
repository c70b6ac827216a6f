------------------------------- MODULE Sampler -------------------------------
(***************************************************************************)
(* Sampling (sampling.rs, token/data_array.rs, grammar.rs): a chain of     *)
(* stages run over a candidate array, the accepted-token history behind    *)
(* the penalties, and the grammar, which is either a stage of the chain    *)
(* (`LlamaSampler::grammar`, `grammar_lazy`) or a `LlamaGrammar` the       *)
(* caller applies before the chain, next to a `LlamaDrySampler`.           *)
(*                                                                         *)
(* The caller follows the documented protocol: it samples, and accepts     *)
(* what was drawn with everything stateful it uses.  Three things that the *)
(* code neither prevents nor reports are recorded in `slips`.              *)
(*                                                                         *)
(* A logit is a level; Masked stands for -inf.  What a library function    *)
(* may do to the array is a set of outcomes, since ik sorts and truncates  *)
(* by its own rules.                                                       *)
(***************************************************************************)
EXTENDS Integers, Sequences, SequencesExt

CONSTANTS
    Vocab,      \* n_vocab: token ids are 0 .. Vocab - 1
    Eog,        \* the end-of-generation token
    Language,   \* sentences of the grammar, each ending in Eog
    Trigger,    \* the trigger token of a lazy grammar
    Levels,     \* logits the model gives: levels 1 .. Levels
    K,          \* top_k's k
    LastN,      \* penalty_last_n
    Chains,     \* the samplers callers build: [stages, outside]
    MaxAccepts  \* bound: tokens accepted in one generation

Token == 0 .. Vocab - 1

ASSUME SamplerAssumption ==
    /\ Vocab \in Nat \ {0} /\ Eog \in Token /\ Trigger \in Token
    /\ Levels \in Nat \ {0} /\ LastN \in Int /\ K \in Int /\ MaxAccepts \in Nat

Selectors == {"dist", "greedy"}
Truncating == {"top_k", "truncate", "tail_free"}
Stages == Selectors \cup Truncating \cup {"temp", "temp_ext", "penalties", "grammar"}

(* Stages that read `sorted`: told that the array is in order, they sort no   *)
(* more.                                                                     *)
Ordering == Truncating \cup {"temp_ext", "dist"}

(* "an ordered chain of transform stages ending in a selector", if it has one. *)
ASSUME ChainsAssumption ==
    \A c \in Chains :
        /\ c \in [stages : Seq(Stages), outside : BOOLEAN]
        /\ \A n \in 1 .. Len(c.stages) - 1 : c.stages[n] \notin Selectors

VARIABLES
    chain,      \* the sampler: its stages, and whether the grammar is outside
    lazy,       \* the grammar waits for its trigger
    history,    \* LlamaSampler::history
    gram,       \* tokens the grammar has accepted
    spare,      \* a try_clone of grammar and DRY sampler, if any
    dry,        \* tokens the DRY sampler has accepted since its reset
    data,       \* LlamaTokenDataArray::data
    sorted,     \* LlamaTokenDataArray::sorted
    selected,   \* LlamaTokenDataArray::selected, counted from 1
    pc,         \* where the caller is
    at,         \* the next stage of the running `apply`
    drawn,      \* the token `sample` returned
    said,       \* history: the tokens of this generation
    slips       \* history: what went by unchecked in this generation

array == <<data, sorted, selected>>
grammar == <<gram, spare, dry>>
generation == <<said, slips>>
vars == <<chain, lazy, history, grammar, array, pc, at, drawn, generation>>

(* "blind": a token was drawn from no candidates; "misled": a stage relied on *)
(* a sorted flag that was not true; "carried": the generation began with a   *)
(* grammar that had read tokens of another.                                  *)
Slips == {"blind", "misled", "carried"}

Masked == 0
Nothing == 0        \* selected = None

Ids(a) == {a[i].id : i \in 1 .. Len(a)}
Descending(a) == \A i, j \in 1 .. Len(a) : i < j => a[i].logit >= a[j].logit
Relogit(a, f(_)) == [i \in 1 .. Len(a) |-> [a[i] EXCEPT !.logit = f(a[i])]]

-----------------------------------------------------------------------------
(* The grammar engine. *)

Openings == UNION {Prefixes(s) : s \in Language}

(* Sentences end in Eog, and a lazy grammar's trigger opens one of them.     *)
ASSUME LanguageAssumption ==
    /\ \A s \in Language : s \in Seq(Token) /\ s # <<>> /\ Last(s) = Eog
    /\ <<Trigger>> \in Openings

(* The first place of an element in a sequence, or 0.                        *)
Place(s, e) == SelectInSeq(s, LAMBDA x : x = e)

(* A lazy grammar reads from its trigger on and is inert before it.         *)
Awake(g) == ~ lazy \/ Contains(g, Trigger)
Read(g) == IF lazy THEN SubSeq(g, Place(g, Trigger), Len(g)) ELSE g
Permitted(g) == {t \in Token : Awake(g) => Append(Read(g), t) \in Openings}

Mask(a) == Relogit(a, LAMBDA c : IF c.id \in Permitted(gram) THEN c.logit ELSE Masked)

(* A penalised token stays possible: its logit falls but stays finite.      *)
Penalise(a, tokens) ==
    Relogit(a, LAMBDA c : IF c.id \in tokens /\ c.logit > 1 THEN c.logit - 1 ELSE c.logit)

(* The tokens DRY would see repeat a sequence.                              *)
Repeats(h) == {h[i + 1] : i \in {j \in 1 .. Len(h) - 1 : h[j] = h[Len(h)]}}

-----------------------------------------------------------------------------
(* What each stage leaves in the C array: its data, sorted flag and         *)
(* selected index.                                                          *)

Left(a, is_sorted, sel) == [data |-> a, sorted |-> is_sorted, selected |-> sel]

Shuffles(a) == {[i \in 1 .. Len(a) |-> a[p[i]]] : p \in Bijection(1 .. Len(a), 1 .. Len(a))}
Sorts(a) == IF sorted THEN {a} ELSE {b \in Shuffles(a) : Descending(b)}

(* A k of 0 or less keeps every candidate.                                  *)
Kept(a) == IF K \in 1 .. Len(a) THEN K ELSE Len(a)
TopK == {Left(SubSeq(a, 1, Kept(a)), TRUE, selected) : a \in Sorts(data)}

(* Masked candidates come after all others.                                  *)
MaskedLast(a) == \A i, j \in 1 .. Len(a) :
                     i < j /\ a[i].logit = Masked => a[j].logit = Masked

(* top_p, min_p, typical, top_n_sigma, and tail_free with a min_keep: some   *)
(* candidates are left, and no masked one unless every other is; or the first *)
(* ones, of an array that says it is in order.                               *)
Truncate ==
    {Left(SubSeq(a, 1, n), is_sorted /\ Descending(SubSeq(a, 1, n)), selected) :
        n \in 1 .. Len(data), a \in {b \in Shuffles(data) : MaskedLast(b)},
        is_sorted \in BOOLEAN}
    \cup {Left(SubSeq(data, 1, n), sorted, selected) : n \in {m \in 1 .. Len(data) : sorted}}

(* tail_free with a min_keep of 0 may keep nothing.                           *)
TailFree == Truncate \cup {Left(<<>>, sorted, selected)}

Temp == {Left(data, sorted, selected)}
TempExt == {Left(a, TRUE, selected) : a \in Sorts(data)}

Window == SubSeq(history, Len(history) - (IF LastN < Len(history) THEN LastN ELSE Len(history)) + 1,
                 Len(history))

(* No tokens, no effect; otherwise the order is given up.                    *)
PenalisedBy(tokens) ==
    IF tokens = <<>> THEN Left(data, sorted, selected)
    ELSE Left(Penalise(data, ToSet(tokens)), FALSE, selected)

Penalties == {PenalisedBy(Window)}

(* The mask is written over the logits, and the sorted flag left as it was.  *)
Grammar == {Left(Mask(data), sorted, selected)}

(* The first of the best; the first of all when every one is masked; nothing *)
(* of nothing.                                                               *)
Greedy ==
    IF data = <<>> THEN {Left(data, sorted, Nothing)} ELSE
    {Left(data, sorted, CHOOSE i \in 1 .. Len(data) :
                            /\ \A j \in 1 .. Len(data) : data[j].logit <= data[i].logit
                            /\ \A j \in 1 .. i - 1 : data[j].logit < data[i].logit)}

(* The draw falls on a candidate of positive probability, or beyond the sum *)
(* of the rounded probabilities and so on the last candidate.               *)
Dist ==
    IF data = <<>> THEN {Left(data, sorted, Nothing)} ELSE
    UNION {{Left(a, TRUE, i) : i \in {j \in 1 .. Len(a) : a[j].logit # Masked \/ j = Len(a)}} :
           a \in Sorts(data)}

Run(stage) ==
    CASE stage = "top_k" -> TopK
      [] stage = "truncate" -> Truncate
      [] stage = "tail_free" -> TailFree
      [] stage = "temp" -> Temp
      [] stage = "temp_ext" -> TempExt
      [] stage = "penalties" -> Penalties
      [] stage = "grammar" -> Grammar
      [] stage = "dist" -> Dist
      [] stage = "greedy" -> Greedy

(* modify_as_c_llama_token_data_array takes size, sorted and selected back.  *)
Sync(left) ==
    /\ data' = left.data /\ sorted' = left.sorted
    /\ selected' = IF left.selected <= Len(left.data) THEN left.selected ELSE Nothing

HasGrammar == chain.outside \/ Contains(chain.stages, "grammar")

-----------------------------------------------------------------------------
Init ==
    /\ chain \in Chains /\ lazy = FALSE
    /\ history = <<>> /\ gram = <<>> /\ spare = {} /\ dry = <<>>
    /\ data = <<>> /\ sorted = FALSE /\ selected = Nothing
    /\ pc = "new" /\ at = 1 /\ drawn = 0
    /\ said = <<>> /\ slips = {}

(* Building the sampler.  A grammar that does not compile, like a DRY sampler *)
(* whose parameters are refused, leaves the caller without one.              *)
Built == UNCHANGED <<chain, history, grammar, array, at, drawn, generation>>

BuildPlain ==
    /\ pc = "new" /\ ~ HasGrammar /\ pc' = "idle"
    /\ lazy' = FALSE /\ Built

BuildGrammar ==
    /\ pc = "new" /\ HasGrammar /\ ~ chain.outside /\ pc' \in {"idle", "failed"}
    /\ lazy' = FALSE /\ Built

BuildGrammarLazy ==
    /\ pc = "new" /\ HasGrammar /\ ~ chain.outside /\ pc' \in {"idle", "failed"}
    /\ lazy' = TRUE /\ Built

BuildOutside ==
    /\ pc = "new" /\ chain.outside /\ pc' \in {"building dry", "failed"}
    /\ lazy' = FALSE /\ Built

BuildDry ==
    /\ pc = "building dry" /\ pc' \in {"idle", "failed"}
    /\ UNCHANGED lazy /\ Built

(* Mutant: tokens counted from 1. *)
FromLogitsFromOne(logits) == [i \in 1 .. Len(logits) |-> [id |-> i, logit |-> logits[i]]]

FromLogits(logits) == [i \in 1 .. Len(logits) |-> [id |-> i - 1, logit |-> logits[i]]]

(* Bound: the tokens any part of the sampler has taken.                      *)
WithinBound == \A taken \in {said, history, gram, dry} : Len(taken) < MaxAccepts

(* sample: one candidate per token from the row's logits, or none at all     *)
(* when the row has no logits.  A caller of `apply` may bring an array of its *)
(* own that is in order and says so.                                         *)
Candidates(logits, in_order) ==
    /\ pc = "idle" /\ ~ Contains(said, Eog) /\ WithinBound
    /\ data' \in IF in_order THEN {a \in Shuffles(FromLogits(logits)) : Descending(a)}
                              ELSE {FromLogits(logits)}
    /\ sorted' = in_order /\ selected' = Nothing
    /\ pc' = "outside"
    /\ UNCHANGED <<chain, lazy, history, grammar, at, drawn, generation>>

(* apply_repetition_penalties over the tokens so far.                        *)
PenaliseOutside ==
    /\ pc = "outside" /\ Sync(PenalisedBy(said))
    /\ UNCHANGED <<chain, lazy, history, grammar, pc, at, drawn, generation>>

(* LlamaGrammar::apply and LlamaDrySampler::apply write the logits through    *)
(* as_c, which takes nothing else back.                                      *)
GrammarApply(a) == IF chain.outside THEN Mask(a) ELSE a
DryApply(a) == IF chain.outside THEN Penalise(a, Repeats(dry)) ELSE a

ApplyOutside ==
    /\ pc = "outside" /\ pc' = "applying" /\ at' = 1
    /\ data' = DryApply(GrammarApply(data))
    /\ UNCHANGED <<chain, lazy, history, grammar, sorted, selected, drawn, generation>>

Stage(n) == chain.stages[n]

(* What the library makes of an empty array: an assertion, or nothing.       *)
RunOnNothing == pc' \in {"asserted", "applying"} /\ UNCHANGED array

(* Mutant: an empty array is handed to the library all the same. *)
ApplyStageUnguarded ==
    /\ pc = "applying" /\ at <= Len(chain.stages)
    /\ at' = at + 1
    /\ \/ /\ data # <<>> \/ Stage(at) \in Selectors
          /\ \E left \in Run(Stage(at)) : Sync(left)
          /\ slips' = IF Stage(at) \in Ordering /\ sorted /\ ~ Descending(data)
                      THEN slips \cup {"misled"} ELSE slips
          /\ UNCHANGED pc
       \/ /\ data = <<>> /\ Stage(at) \notin Selectors /\ RunOnNothing
          /\ UNCHANGED slips
    /\ UNCHANGED <<chain, lazy, history, grammar, drawn, said>>

(* apply: one stage after the other, unless the array is empty at the start; *)
(* nobody looks again, and only the selectors guard themselves.              *)
ApplyStage ==
    /\ pc = "applying" /\ at <= Len(chain.stages)
    /\ at = 1 => data # <<>>
    /\ at' = at + 1
    /\ \/ /\ data # <<>> \/ Stage(at) \in Selectors
          /\ \E left \in Run(Stage(at)) : Sync(left)
          /\ slips' = IF Stage(at) \in Ordering /\ sorted /\ ~ Descending(data)
                      THEN slips \cup {"misled"} ELSE slips
          /\ UNCHANGED pc
       \/ /\ data = <<>> /\ Stage(at) \notin Selectors /\ RunOnNothing
          /\ UNCHANGED slips
    /\ UNCHANGED <<chain, lazy, history, grammar, drawn, said>>

(* Without a selector the last of the best candidates is taken, and token 0  *)
(* when there are none.                                                      *)
Fallback ==
    IF data = <<>> THEN 0
    ELSE data[CHOOSE i \in 1 .. Len(data) :
                  /\ \A j \in 1 .. Len(data) : data[j].logit <= data[i].logit
                  /\ \A j \in i + 1 .. Len(data) : data[j].logit < data[i].logit].id

(* A caller of sample cannot tell LlamaToken(0) from a token drawn.           *)
Draw ==
    /\ pc = "applying" /\ pc' = "drawn"
    /\ (at = 1 /\ data = <<>>) \/ at > Len(chain.stages)
    /\ drawn' = IF selected = Nothing THEN Fallback ELSE data[selected].id
    /\ slips' = IF data = <<>> THEN slips \cup {"blind"} ELSE slips
    /\ UNCHANGED <<chain, lazy, history, grammar, array, at, said>>

GrammarAccept(token) == IF HasGrammar THEN Append(gram, token) ELSE gram
DryAccept(token) == IF chain.outside THEN Append(dry, token) ELSE dry
Fatal(token) == HasGrammar /\ token = Eog /\ Eog \notin Permitted(gram)

(* accept: the history, the grammar and the DRY sampler take the token; the  *)
(* grammar aborts the process on an end of generation it does not permit.    *)
Accept ==
    /\ pc = "drawn"
    /\ history' = Append(history, drawn) /\ said' = Append(said, drawn)
    /\ gram' = GrammarAccept(drawn) /\ dry' = DryAccept(drawn)
    /\ pc' = IF Fatal(drawn) THEN "aborted" ELSE "idle"
    /\ UNCHANGED <<chain, lazy, spare, array, at, drawn, slips>>

(* The caller goes on with its generation, or begins another and drops the   *)
(* clones it kept for the last.                                              *)
GoOn == UNCHANGED <<spare, generation>>
StartOver ==
    /\ said' = <<>> /\ spare' = {}
    /\ slips' = IF gram = <<>> THEN {} ELSE {"carried"}

(* LlamaSampler::reset: the history goes, the grammar's state stays.         *)
Reset ==
    /\ pc = "idle" /\ history' = <<>>
    /\ GoOn \/ StartOver
    /\ UNCHANGED <<chain, lazy, gram, dry, array, pc, at, drawn>>

(* chain_simple over samplers in use: their stages move over in order, with   *)
(* the state they are in, and their histories are left behind.               *)
ChainSimple ==
    /\ pc = "idle" /\ history' = <<>>
    /\ GoOn \/ StartOver
    /\ UNCHANGED <<chain, lazy, gram, dry, array, pc, at, drawn>>

(* The sampler, the grammar and their clones are dropped, to be built anew.   *)
DropAll ==
    /\ pc = "idle" /\ pc' = "new"
    /\ history' = <<>> /\ gram' = <<>> /\ spare' = {} /\ dry' = <<>>
    /\ said' = <<>> /\ slips' = {}
    /\ UNCHANGED <<chain, lazy, array, at, drawn>>

ResetDry ==
    /\ pc = "idle" /\ dry' = <<>>
    /\ UNCHANGED <<chain, lazy, history, gram, spare, array, pc, at, drawn, generation>>

(* Mutant: the clone shares the state of the grammar it was made from. *)
RollbackShared ==
    /\ pc = "idle" /\ spare' = {}
    /\ \E clone \in spare : said' = clone.said /\ dry' = clone.dry
    /\ UNCHANGED <<chain, lazy, history, gram, array, pc, at, drawn, slips>>

(* try_clone of a LlamaGrammar and a LlamaDrySampler, kept aside before       *)
(* tokens that may have to be taken back; either copy may fail.              *)
Clone ==
    /\ pc = "idle" /\ chain.outside /\ spare = {}
    /\ spare' \in SUBSET {[gram |-> gram, dry |-> dry, said |-> said]}
    /\ UNCHANGED <<chain, lazy, history, gram, dry, array, pc, at, drawn, generation>>

(* The tokens since the clone are taken back: the clone replaces the          *)
(* original, which is dropped; the chain's history keeps them.               *)
Rollback ==
    /\ pc = "idle" /\ spare' = {}
    /\ \E clone \in spare : gram' = clone.gram /\ dry' = clone.dry /\ said' = clone.said
    /\ UNCHANGED <<chain, lazy, history, array, pc, at, drawn, slips>>

Next ==
    \/ \E logits \in [1 .. Vocab -> 1 .. Levels] \cup {<<>>}, in_order \in BOOLEAN :
          Candidates(logits, in_order)
    \/ BuildPlain \/ BuildGrammar \/ BuildGrammarLazy \/ BuildOutside \/ BuildDry
    \/ PenaliseOutside \/ ApplyOutside \/ ApplyStage \/ Draw \/ Accept
    \/ Reset \/ ChainSimple \/ ResetDry \/ DropAll \/ Clone \/ Rollback

Spec == Init /\ [][Next]_vars

-----------------------------------------------------------------------------
(* Properties. *)

(* The array holds distinct candidates, an index in it is in range, and       *)
(* everything else keeps its type.                                           *)
TypeOK ==
    /\ chain \in Chains /\ lazy \in BOOLEAN
    /\ history \in Seq(Token) /\ gram \in Seq(Token) /\ dry \in Seq(Token)
    /\ said \in Seq(Token) /\ slips \subseteq Slips /\ drawn \in Token
    /\ data \in Seq([id : Token, logit : 0 .. Levels])
    /\ \A i, j \in 1 .. Len(data) : i # j => data[i].id # data[j].id
    /\ sorted \in BOOLEAN /\ selected \in 0 .. Len(data)
    /\ at \in 1 .. Len(chain.stages) + 1
    /\ pc \in {"new", "building dry", "failed", "idle", "outside", "applying", "drawn",
              "asserted", "aborted"}

Position(stage) == Place(chain.stages, stage)

(* The grammar sees every candidate: no stage before it drops one.            *)
GrammarFirst ==
    /\ HasGrammar
    /\ chain.outside \/ \A n \in 1 .. Position("grammar") :
                            chain.stages[n] \notin Truncating

Selector == IF chain.stages = <<>> THEN "none" ELSE Last(chain.stages)

(* With the grammar ahead of every truncating stage and a deterministic or no *)
(* selector, the tokens of a generation follow the grammar, from the trigger  *)
(* on when it is lazy: whatever else the chain does to the logits, through    *)
(* resets, re-chaining, clones and rollbacks, and on arrays whose order the   *)
(* mask upset as long as no stage was misled by it.                           *)
SaidFollowsGrammar ==
    GrammarFirst /\ Selector # "dist" /\ slips = {} /\ Awake(said) => Read(said) \in Openings

(* A tail_free ran before this place, and may have kept nothing.              *)
MayBeEmpty(place) == \E n \in 1 .. place - 1 : chain.stages[n] = "tail_free"

(* The library aborts the process in two cases only: at a stage that follows  *)
(* a tail_free which kept nothing, and at an end of generation that the       *)
(* grammar refuses, which takes a chain or a slip that SaidFollowsGrammar     *)
(* excludes.                                                                 *)
OnlyKnownAborts ==
    /\ pc = "asserted" => MayBeEmpty(at - 1)
    /\ pc = "aborted" => ~ GrammarFirst \/ Selector = "dist" \/ slips # {}

(* A token drawn while the grammar permits one of the candidates is permitted *)
(* ("tokens surviving apply").                                               *)
DrawnPermitted ==
    pc = "drawn" /\ GrammarFirst /\ slips = {} => drawn \in Permitted(gram)

-----------------------------------------------------------------------------
(* The inductive invariant.                                                 *)

Follows(g) == Awake(g) => Read(g) \in Openings

(* Ahead of the grammar every token may still be drawn; behind it some token  *)
(* may, and whichever may is permitted.                                      *)
Drawable(a) == {a[i].id : i \in {j \in 1 .. Len(a) : a[j].logit # Masked}}

Constrained == GrammarFirst /\ Selector # "dist"
PastGrammar == chain.outside \/ at > Position("grammar")

(* The grammar and its clone have read what the generation, or the part of   *)
(* it that the clone was made after, has said, and it follows the grammar;    *)
(* unless the generation began on, or was fed, something else.               *)
GrammarInStep ==
    /\ spare \subseteq [gram : Seq(Token), dry : Seq(Token), said : Seq(Token)]
    /\ pc = "new" => gram = <<>> /\ spare = {}
    /\ ~ HasGrammar => gram = <<>> /\ spare = {}
    /\ HasGrammar /\ slips = {} => gram = said /\ \A c \in spare : c.gram = c.said
    /\ Constrained /\ slips = {} => Follows(gram) /\ \A c \in spare : Follows(c.gram)

ArrayLawful ==
    /\ pc \in {"outside", "applying", "drawn"} => ~ Contains(said, Eog)
    /\ pc = "outside" => selected = Nothing
    /\ pc = "applying" /\ at <= Len(chain.stages) => selected = Nothing
    /\ pc = "applying" /\ data = <<>> => at = 1 \/ MayBeEmpty(at)
    /\ pc = "outside" /\ Constrained /\ data # <<>> => Drawable(data) = Token
    /\ pc = "applying" /\ Constrained /\ slips = {} /\ data # <<>> =>
        /\ PastGrammar => Drawable(data) # {} /\ Drawable(data) \subseteq Permitted(gram)
        /\ ~ PastGrammar => Drawable(data) = Token
        /\ selected # Nothing => data[selected].id \in Permitted(gram)
    /\ pc = "drawn" /\ Constrained /\ slips = {} => drawn \in Permitted(gram)

IInv == TypeOK /\ GrammarInStep /\ ArrayLawful /\ OnlyKnownAborts

=============================================================================
