------------------------------ MODULE Extraction ------------------------------
(***************************************************************************)
(* What src/crates/extraction makes of a document: the heuristic service's *)
(* entities, claims and relationships, and what the runtime service        *)
(* decodes from a model's answers.                                         *)
(*                                                                         *)
(* A body is what the rules look at: the capitalised phrases the pattern   *)
(* captures, in order; its sentences, each with its length, the phrases    *)
(* and the words it contains and its first number; and the pairs for which *)
(* it reads "from in to".  Confidences are per cent.                       *)
(***************************************************************************)
EXTENDS Options, Naturals, Sequences, SequencesExt

CONSTANTS Letters,     \* Letters[t]: the bytes of a text
          Organizations, Locations   \* names that classify_entity knows, by suffix or by name

Noise == {"The", "A", "An", "This", "That"}

(* extract_entities: each captured name once, of three letters or more.    *)
ClassifyEntity(name) ==
    IF name \in Organizations THEN "Organization"
    ELSE IF name \in Locations THEN "Location" ELSE "Concept"

Firsts(names) == {i \in DOMAIN names : \A j \in 1..(i - 1) : names[j] # names[i]}

ExtractEntities(body) ==
    LET kept == Filtered(body.captures, LAMBDA n : Letters[n] > 2 /\ n \notin Noise)
        firsts == Filtered([i \in DOMAIN kept |-> i], LAMBDA i : i \in Firsts(kept))
    IN  [i \in DOMAIN firsts |->
            [name |-> kept[firsts[i]], type |-> ClassifyEntity(kept[firsts[i]]), confidence |-> 55,
             snippet |-> kept[firsts[i]]]]

InferPredicate(s) ==
    IF "announced" \in s.words THEN "announced"
    ELSE IF "reported" \in s.words THEN "reported"
    ELSE IF {"said", "stated"} \cap s.words # {} THEN "stated" ELSE "related_to"

InferClaimType(s) ==
    IF s.number # None THEN "Quantification"
    ELSE IF {"said", "stated"} \cap s.words # {} THEN "Attribution" ELSE "Relation"

(* extract_claims: a sentence of more than 20 bytes that names an entity.  *)
(* The subject is the entity found first in the document, not in the       *)
(* sentence.                                                               *)
Named(s, entities) == Filtered(entities, LAMBDA e : e.name \in s.names)

ExtractClaim(s, entities) ==
    [text |-> s.text, subject |-> Named(s, entities)[1].name, predicate |-> InferPredicate(s),
     object |-> IF Len(Named(s, entities)) > 1 THEN Named(s, entities)[2].name ELSE None,
     value |-> s.number, type |-> InferClaimType(s), confidence |-> 50, by |-> None]

ExtractClaims(body, entities) ==
    LET told == Filtered(body.sentences, LAMBDA s : s.length > 20 /\ Named(s, entities) # <<>>)
    IN  [i \in DOMAIN told |-> ExtractClaim(told[i], entities)]

(* extract_relationships: all ordered pairs, in the order of the entities. *)
ExtractRelationships(body, entities) ==
    FlattenSeq([i \in DOMAIN entities |->
        LET found == Filtered(entities, LAMBDA e : e.name # entities[i].name
                                                    /\ <<entities[i].name, e.name>> \in body.located)
        IN  [j \in DOMAIN found |-> [from |-> entities[i].name, to |-> found[j].name,
                                     type |-> "located_in", confidence |-> 55]]])

(* HeuristicExtractionService::process.                                    *)
Heuristic(document) ==
    LET entities == ExtractEntities(document.body)
    IN  [document |-> document.id, entities |-> entities,
         claims |-> ExtractClaims(document.body, entities),
         relationships |-> ExtractRelationships(document.body, entities),
         vectors |-> <<>>]

-----------------------------------------------------------------------------
(* chunk_body: the sentences that are not blank, of any length.            *)
ChunkBody(body) == Filtered(body.sentences, LAMBDA s : s.length > 0)

(* An answer is a result with a text and a structured payload, each list   *)
(* of which may be missing.                                                *)
ClassifyEntityType(label) ==
    CASE label \in {"Organization", "Org", "Company", "Corporation"} -> "Organization"
      [] label \in {"Location", "Place", "City", "Country", "State"} -> "Location"
      [] label \in {"Person", "People", "Human"} -> "Person"
      [] label \in {"Event", "EventTopic"} -> "EventTopic"
      [] OTHER -> "Concept"

(* decode_entities: an entry without a name is skipped.                    *)
DecodeEntities(payload, chunk) ==
    LET named == Filtered(Or(payload.entities, <<>>), LAMBDA v : v.name \notin {None, ""})
    IN  [i \in DOMAIN named |->
            [name |-> named[i].name, snippet |-> chunk.text,
             type |-> IF named[i].type = None THEN "Concept" ELSE ClassifyEntityType(named[i].type),
             confidence |-> Or(named[i].confidence, 50)]]

(* decode_claims: every entry counts, with what it lacks filled in.        *)
DecodeClaims(payload, chunk) ==
    LET claims == Or(payload.claims, <<>>)
    IN  [i \in DOMAIN claims |->
            [text |-> Or(claims[i].text, chunk.text), subject |-> Or(claims[i].subject, Unknown),
             predicate |-> Or(claims[i].predicate, "related_to"), object |-> claims[i].object,
             value |-> None, type |-> "Relation", confidence |-> Or(claims[i].confidence, 50),
             by |-> "model-runtime"]]

(* decode_relationships: an entry without both ends is skipped.            *)
DecodeRelationships(payload) ==
    LET both == Filtered(Or(payload.relationships, <<>>),
                          LAMBDA v : v.from # None /\ v.to # None)
    IN  [i \in DOMAIN both |->
            [from |-> both[i].from, to |-> both[i].to, type |-> Or(both[i].type, "related_to"),
             confidence |-> Or(both[i].confidence, 50)]]

(* runtime_text_to_claim.                                                  *)
TextToClaims(text) ==
    IF text = "" THEN <<>>
    ELSE <<[text |-> text, subject |-> Unknown, predicate |-> "stated", object |-> None,
            value |-> None, type |-> "Attribution", confidence |-> 60, by |-> "model-runtime"]>>

(* The claims of a chunk: those of the payload, or the answer's text.      *)
ClaimsOf(answer, chunk) ==
    LET decoded == IF answer.structured = None THEN <<>> ELSE DecodeClaims(answer.structured, chunk)
    IN  IF decoded = <<>> THEN TextToClaims(answer.text) ELSE decoded

(* push_embedding: a payload that is no vector, or an empty one, is        *)
(* dropped.                                                                *)
PushEmbedding(vectors, answer, index) ==
    IF answer.structured = None \/ answer.structured.vector \in {None, <<>>} THEN vectors
    ELSE Append(vectors, [chunk |-> index, embedding |-> answer.structured.vector])
===============================================================================
