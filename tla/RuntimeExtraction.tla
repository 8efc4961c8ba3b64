-------------------------- MODULE RuntimeExtraction --------------------------
(***************************************************************************)
(* The pipeline worker's extraction of documents with the model runtime,   *)
(* src/crates/extraction/src/runtime_extractor.rs: four calls for each     *)
(* sentence, each to the instance that is live when it starts, each of     *)
(* which may fail without failing the document; then the runtime's lists   *)
(* with the heuristic ones behind them are saved.                          *)
(***************************************************************************)
EXTENDS ModelRuntimeHandle

CONSTANTS Documents,   \* the archive, in the order it grows
          MaxCycles    \* bound: extraction cycles

(* A document's id is a new Ulid.                                          *)
ASSUME ExtractionAssumption ==
    /\ MaxCycles \in Nat /\ Documents \in Seq(ToSet(Documents)) \ {<<>>}
    /\ \A d, e \in ToSet(Documents) : d.id = e.id => d = e
    /\ \A d \in ToSet(Documents) :
          /\ d.body.captures \in Seq(ToSet(d.body.captures))
          /\ d.body.sentences \in Seq(ToSet(d.body.sentences))
          /\ \A s \in ToSet(d.body.sentences) : s.tokens \in Seq(ToSet(s.tokens))

VARIABLES archived,      \* how many documents there are
          extractions,   \* RuntimeStore::extractions
          work,          \* where the worker is
          cycles,        \* extraction cycles begun
          (* history *)
          saved          \* calls of save_extraction that returned

workVars == <<archived, extractions, work, cycles, saved>>

Kinds == <<"ner", "claim_extraction", "relation_extraction", "embedding">>

NoWork == [step |-> "idle", todo |-> <<>>, chunk |-> 1, kind |-> 1, runtime |-> 0,
           result |-> [entities |-> <<>>, claims |-> <<>>, relationships |-> <<>>, vectors |-> <<>>]]

WorkTypeOK ==
    /\ archived \in 0..Len(Documents)
    /\ work.step \in {"idle", "next", "infer", "waiting", "save", "dead"}
    /\ work.runtime \in 0..Len(runtimes)
    /\ cycles \in 0..MaxCycles
    /\ \A i \in DOMAIN extractions : extractions[i].document \in {Documents[d].id : d \in 1..archived}

WorkInit ==
    /\ archived = 1 /\ extractions = <<>> /\ work = NoWork /\ cycles = 0 /\ saved = 0

Document == Head(work.todo)
Chunks == ChunkBody(Document.body)
Chunk == Chunks[work.chunk]
Kind == Kinds[work.kind]

ArchiveDocument ==
    /\ archived < Len(Documents) /\ archived' = archived + 1
    /\ UNCHANGED <<extractions, work, cycles, saved>>

(* run_extraction: all documents there are at the time, in every cycle.    *)
StartCycle ==
    /\ work.step = "idle" /\ cycles < MaxCycles /\ cycles' = cycles + 1
    /\ work' = [NoWork EXCEPT !.step = "next", !.todo = SubSeq(Documents, 1, archived)]
    /\ UNCHANGED <<archived, extractions, saved>>

NextDocument ==
    /\ work.step = "next"
    /\ work' = IF work.todo = <<>> THEN NoWork
               ELSE [NoWork EXCEPT !.todo = work.todo,
                                   !.step = IF Chunks = <<>> THEN "save" ELSE "infer"]
    /\ UNCHANGED <<archived, extractions, cycles, saved>>

(* infer_kind: current_runtime.                                            *)
Infer ==
    /\ work.step = "infer"
    /\ work' = [work EXCEPT !.step = "waiting", !.runtime = swappable]
    /\ UNCHANGED <<archived, extractions, cycles, saved>>

(* What an answer to the call adds to the document's lists.                *)
Decoded(result, answer) ==
    CASE Kind = "ner" /\ answer.structured # None ->
            [result EXCEPT !.entities = @ \o DecodeEntities(answer.structured, Chunk)]
      [] Kind = "claim_extraction" -> [result EXCEPT !.claims = @ \o ClaimsOf(answer, Chunk)]
      [] Kind = "relation_extraction" /\ answer.structured # None ->
            [result EXCEPT !.relationships = @ \o DecodeRelationships(answer.structured)]
      [] Kind = "embedding" -> [result EXCEPT !.vectors = PushEmbedding(@, answer, work.chunk)]
      [] OTHER -> result

Advanced(result) ==
    LET lastKind == work.kind = Len(Kinds)
    IN  [work EXCEPT !.result = result, !.runtime = 0,
                     !.kind = IF lastKind THEN 1 ELSE @ + 1,
                     !.chunk = IF lastKind /\ @ < Len(Chunks) THEN @ + 1 ELSE @,
                     !.step = IF lastKind /\ work.chunk = Len(Chunks) THEN "save" ELSE "infer"]

(* The provider answers, or says it cannot.  A kind without a handler is   *)
(* not recorded; a panic is the end of the worker's task.                  *)
Answered ==
    LET answer == LocalInfer(Kind, Chunk)
    IN  /\ work.step = "waiting"
        /\ work' = IF answer.error = "panic" THEN [NoWork EXCEPT !.step = "dead"]
                   ELSE IF answer.error # None THEN Advanced(work.result)
                   ELSE Advanced(Decoded(work.result, answer))
        /\ IF answer.error \in {"backend", "panic"} THEN UNCHANGED runtimes
           ELSE Record(work.runtime, Kind, IF answer.error = None THEN "ok" ELSE "error")
        /\ UNCHANGED <<archived, extractions, cycles, saved, faults>>

(* The queue or the provider takes too long: the runtime says so, or the   *)
(* service gives up first and the runtime never records the call.          *)
TimedOut ==
    /\ work.step = "waiting" /\ Kind \in DOMAIN Strategy
    /\ Fault
    /\ work' = Advanced(work.result)
    /\ Record(work.runtime, Kind, "timeout") \/ UNCHANGED runtimes
    /\ UNCHANGED <<archived, extractions, cycles, saved>>

Merged(document, result) ==
    LET baseline == Heuristic(document)
    IN  [document |-> document.id,
         entities |-> result.entities \o baseline.entities,
         claims |-> result.claims \o baseline.claims,
         relationships |-> result.relationships \o baseline.relationships,
         vectors |-> result.vectors]

(* process returns; save_extraction.                                       *)
SaveExtraction ==
    /\ work.step = "save"
    /\ extractions' = Append(extractions, Merged(Document, work.result))
    /\ saved' = saved + 1
    /\ work' = [NoWork EXCEPT !.step = "next", !.todo = Tail(work.todo)]
    /\ UNCHANGED <<archived, cycles>>
===============================================================================
