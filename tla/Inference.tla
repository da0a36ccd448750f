----------------------------- MODULE Inference -----------------------------
(***************************************************************************)
(* TinyLLM (src/src/llm/tiny_llm_inference.cpp) as a worker process uses   *)
(* it: built once, then init for each request and inference for each       *)
(* token.  What a request leaves behind is token_ids.  The tokenizer is    *)
(* left out (see TextPath): a prompt is its ids.                           *)
(***************************************************************************)
EXTENDS TinyTransformer

CONSTANTS
  Checkpoints,   \* trained parameters
  Faults,        \* what may have happened to an export
  Prompts,       \* ids of prompts
  NoText,        \* the empty prompt
  Budgets,       \* max_tokens as asked for
  MAX_TOKENS,    \* 50
  MAX_REQUESTS   \* bound: requests a worker serves

eos_token_id == 3
Ids == 0 .. vocab_size - 1

(* What a parameter of this name may be.                                   *)
Weights(name) ==
  LET shape == Shape(name)
  IN IF Len(shape) = 1 THEN [1 .. shape[1] -> Num]
     ELSE [1 .. shape[1] -> [1 .. shape[2] -> Num]]

ASSUME InferenceAssumption ==
  /\ \A W \in Checkpoints :
       DOMAIN W = Parameters /\ \A name \in Parameters : W[name] \in Weights(name)
  /\ \A f \in Faults :
       \/ f = [kind |-> "none"]
       \/ f \in [kind : {"lost", "short", "spoiled", "reshaped"}, name : Parameters]
  /\ Prompts \subseteq Seq(Ids) /\ NoText \notin Prompts
  /\ Budgets \subseteq Int
  /\ MAX_TOKENS \in Nat \ {0} /\ MAX_REQUESTS \in Nat
  /\ eos_token_id \in Ids   \* <PAD>, <UNK>, <BOS>, <EOS> are in the vocabulary

VARIABLES
  checkpoint, fault,  \* where the export came from
  stage,              \* of the worker
  model,              \* the weights in the layers
  token_ids,
  max_tokens, generated_tokens, next_token,  \* of the worker's loop
  logits,             \* of the last call of forward, if it was defined
  requests,           \* requests served
  prompt, before,     \* history: of this request; token_ids it found
  answer              \* history: the tokens generated for it

history == <<prompt, before, answer>>
constants == <<checkpoint, fault>>
vars == <<constants, stage, model, token_ids, max_tokens, generated_tokens,
          next_token, logits, requests, history>>

(* An export may have lost a file, or part of one, or have a line that is  *)
(* no metadata, or come from a network of another shape.                   *)
Damaged(export, f) ==
  LET line == MetadataLine(f.name)
      others == export.metadata \ {line}
  IN CASE f.kind = "none" -> export
       [] f.kind = "lost" -> [export EXCEPT !.files = [n \in Parameters \ {f.name} |-> @[n]]]
       [] f.kind = "short" -> [export EXCEPT !.files[f.name] = Tail(@)]
       [] f.kind = "spoiled" -> [export EXCEPT !.metadata = others \cup {<<f.name>>}]
       [] f.kind = "reshaped" ->
            [export EXCEPT !.metadata = others \cup {[line EXCEPT ![2] = @ + 1]}]

export_dir == Damaged(Export(checkpoint), fault)

Init ==
  /\ checkpoint \in Checkpoints /\ fault \in Faults
  /\ stage = "starting"
  /\ model = <<>> /\ token_ids = <<>> /\ logits = <<>>
  /\ max_tokens = 0 /\ generated_tokens = 0 /\ next_token = -1
  /\ requests = 0
  /\ prompt = NoText /\ before = <<>> /\ answer = <<>>

idle == <<token_ids, max_tokens, generated_tokens, next_token, logits, requests, history>>

(* The constructor.  Embedding::set_weight looks at shape[0] of a tensor   *)
(* that may have none: undefined.                                          *)
Load ==
  /\ stage = "starting" /\ stage' = "waiting"
  /\ model' = load_weights(export_dir)
  /\ UNCHANGED <<constants, idle>>

LoadUndefined ==
  /\ stage = "starting" /\ ~Loaded(export_dir, <<"token_embedding.weight">>)
  /\ stage' = "dead"
  /\ UNCHANGED <<constants, model, idle>>

Cap(budget) == IF budget > MAX_TOKENS THEN MAX_TOKENS ELSE budget

(* Mutant: the ids of the prompt are added to what is there.               *)
init_appends(text) ==
  token_ids' = IF text = NoText THEN token_ids ELSE token_ids \o text

init(text) == token_ids' = IF text = NoText THEN token_ids ELSE text

(* The worker takes a request; with no budget its loop runs no turn.       *)
Request(text, budget) ==
  /\ stage = "waiting" /\ requests < MAX_REQUESTS
  /\ requests' = requests + 1
  /\ init(text)
  /\ max_tokens' = Cap(budget)
  /\ stage' = IF Cap(budget) > 0 THEN "generating" ELSE "waiting"
  /\ generated_tokens' = 0 /\ next_token' = -1 /\ logits' = <<>>
  /\ prompt' = text /\ before' = token_ids /\ answer' = <<>>
  /\ UNCHANGED <<constants, model>>

(* Mutant: the logits of the first token are looked at.                    *)
start_index_first(seq) == 0

start_index(seq) == vocab_size * (seq - 1)

(* max_index begins as 0, not as start_index.                              *)
ArgMax(data, seq) ==
  LET range == start_index(seq) .. start_index(seq) + vocab_size - 1
      max_value == Max({Item(data, i) : i \in range})
      max_index == IF Item(data, start_index(seq)) = max_value THEN 0
                   ELSE Min({i \in range : Item(data, i) = max_value})
  IN max_index - start_index(seq)

(* One turn of the worker's loop with the token inference returned.        *)
Generated(token) ==
  /\ next_token' = token
  /\ answer' = Append(answer, token)
  /\ generated_tokens' = IF token = eos_token_id THEN generated_tokens
                         ELSE generated_tokens + 1
  /\ stage' = IF token = eos_token_id \/ generated_tokens + 1 >= max_tokens
                THEN "waiting" ELSE "generating"

Pushed == IF next_token = -1 THEN token_ids ELSE Append(token_ids, next_token)

(* The indices stay inside embedding, positional table and logits.         *)
Defined(ids) == Len(ids) \in 1 .. max_context /\ \A i \in DOMAIN ids : ids[i] \in Ids

Inference ==
  /\ stage = "generating"
  /\ Defined(Pushed)
  /\ token_ids' = Pushed
  /\ logits' = forward(model, Pushed)
  /\ Generated(ArgMax(logits', Len(Pushed)))
  /\ UNCHANGED <<constants, model, max_tokens, requests, prompt, before>>

(* Other memory is read as numbers, or the process dies of it.  As in      *)
(* ArgMax, the index found is one after the first, or 0 itself.            *)
InferenceUndefined ==
  /\ stage = "generating"
  /\ ~Defined(Pushed)
  /\ token_ids' = Pushed
  /\ logits' = <<>>
  /\ \E token \in (Ids \ {0}) \cup {-start_index(Len(Pushed))} : Generated(token)
  /\ UNCHANGED <<constants, model, max_tokens, requests, prompt, before>>

InferenceDies ==
  /\ stage = "generating" /\ ~Defined(Pushed)
  /\ stage' = "dead"
  /\ UNCHANGED <<constants, model, idle>>

Next ==
  \/ Load \/ LoadUndefined
  \/ \E text \in Prompts \cup {NoText}, budget \in Budgets : Request(text, budget)
  \/ Inference \/ InferenceUndefined \/ InferenceDies

Spec == Init /\ [][Next]_vars

-----------------------------------------------------------------------------
(* Properties *)

(* The parameters the server is expected to have: those of the checkpoint, *)
(* but for one that could not be read.                                     *)
Expected ==
  IF fault.kind = "none" THEN checkpoint
  ELSE [checkpoint EXCEPT ![fault.name] = Untrained(fault.name)]

(* But for one factor the server computes the network of the script,       *)
(* number by number, from the files the script exported: the network with  *)
(* its scores multiplied by Scale[head_size], where the script has         *)
(* Scale[n_embd] (see MatchesScript).  Indices, masks, rows and names of   *)
(* parameters are the same; a parameter that cannot be read is as in a     *)
(* network not trained and disturbs no other.                              *)
MatchesRescaled ==
  logits # <<>> =>
    logits = FlattenSeq(Network(Expected, Scale[head_size], token_ids))

(* "The model is implemented from scratch in C++ for the inference server, *)
(* with the original model trained in PyTorch" (src/README.md): the server *)
(* computes the network of the script as it was trained.  Violated, as     *)
(* Head::forward scales by head_size.                                      *)
MatchesScript ==
  logits # <<>> => logits = FlattenSeq(TinyTransformer(Expected, token_ids))

(* An answer goes on from its own prompt and tokens, the last one not yet  *)
(* pushed, and from nothing of another request, unless the prompt is       *)
(* empty: then from all that the requests before have left.  So it stays   *)
(* within MAX_TOKENS - 1 tokens of its prompt.                             *)
OwnContext ==
  stage \in {"waiting", "generating"} =>
    /\ token_ids = (IF prompt = NoText THEN before ELSE prompt)
                     \o (IF answer = <<>> THEN <<>> ELSE Front(answer))
    /\ prompt # NoText => Len(token_ids) <= Len(prompt) + MAX_TOKENS - 1

(* The tokens with the highest logit at the last place.                    *)
BestTokens ==
  LET last == SubSeq(logits, Len(logits) - vocab_size + 1, Len(logits))
  IN {v \in Ids : \A u \in Ids : Item(last, u) <= Item(last, v)}

(* The token of a turn is one with the highest logit at the last place,    *)
(* unless that is token 0, <PAD>: then it is 0 minus the place's first     *)
(* index, which is no token: the search begins with index 0 instead.       *)
GreedyUnlessPad ==
  logits # <<>> =>
    IF 0 \in BestTokens THEN next_token = -vocab_size * (Len(token_ids) - 1)
    ELSE next_token \in BestTokens
=============================================================================
