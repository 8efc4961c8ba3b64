------------------------------- MODULE Inference -------------------------------
(***************************************************************************)
(* The inference providers of src/crates/model-runtime: which slot a kind  *)
(* of inference goes to and what the provider behind it answers.  Without  *)
(* the llama and onnx features, as the project is built, the providers     *)
(* compute their answers from the text.  An answer has an error or a       *)
(* result.                                                                 *)
(***************************************************************************)
EXTENDS Extraction

CONSTANTS Strategy,       \* default_strategy: from kinds of inference to slots
          EmbeddingSlot,  \* the slot has a model: its dimension, or None
          LlmSlot         \* the slot has a model

(* infer_kind: the model a kind asks for, whatever the slot holds.         *)
ModelFor(kind) == IF kind = "embedding" THEN "bge-small-en-v1.5" ELSE "mistral-7b-instruct"

NoLists == [entities |-> None, claims |-> None, relationships |-> None, vector |-> None]
Answer(text, structured) == [error |-> None, text |-> text, structured |-> structured]
Refusal(error) == [error |-> error, text |-> "", structured |-> None]

(* OnnxRuntime: a vector of the slot's dimension, which it divides by: of  *)
(* dimension zero there is no vector and the task panics.                  *)
Embedding(chunk) == [i \in 1..EmbeddingSlot |-> <<chunk.text, i>>]

OnnxInfer(kind, chunk) ==
    IF kind # "embedding" THEN Refusal("unavailable")
    ELSE IF EmbeddingSlot = None THEN Refusal("invalid config")
    ELSE IF EmbeddingSlot = 0 THEN Refusal("panic")
    ELSE Answer("", [NoLists EXCEPT !.vector = Embedding(chunk)])

(* LlamaRuntime::deterministic_output: the first three capitalised words   *)
(* are entities; the first word is what the claim is about, the first two  *)
(* are related.  Any other kind gets an empty object.                      *)
Word(chunk, i) == IF i \in DOMAIN chunk.tokens THEN chunk.tokens[i] ELSE Unknown
FirstOf(s, n) == SubSeq(s, 1, IF Len(s) < n THEN Len(s) ELSE n)

LlamaEntities(chunk) ==
    LET names == FirstOf(Filtered(chunk.tokens, LAMBDA w : w \in chunk.capitals), 3)
    IN  [i \in DOMAIN names |-> [name |-> names[i], type |-> "Concept", confidence |-> 50]]

DeterministicOutput(kind, chunk) ==
    CASE kind = "ner" -> [NoLists EXCEPT !.entities = LlamaEntities(chunk)]
      [] kind = "claim_extraction" ->
            [NoLists EXCEPT !.claims = <<[subject |-> Word(chunk, 1), predicate |-> "stated", object |-> None,
                                          text |-> chunk.text, confidence |-> 60]>>]
      [] kind = "relation_extraction" ->
            [NoLists EXCEPT !.relationships = <<[from |-> Word(chunk, 1), type |-> "related_to",
                                                 to |-> Word(chunk, 2), confidence |-> 50]>>]
      [] OTHER -> NoLists

LlamaInfer(kind, chunk) ==
    IF ~LlmSlot THEN Refusal("invalid config")
    ELSE Answer("json", DeterministicOutput(kind, chunk))

(* LocalModelRuntime::handler_for, infer.                                  *)
LocalInfer(kind, chunk) ==
    IF kind \notin DOMAIN Strategy \/ Strategy[kind] = "custom" THEN Refusal("backend")
    ELSE IF Strategy[kind] = "embedding" THEN OnnxInfer(kind, chunk) ELSE LlamaInfer(kind, chunk)

===============================================================================
