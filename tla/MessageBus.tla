------------------------------ MODULE MessageBus ------------------------------
(***************************************************************************)
(* InMemoryMessageBus of src/crates/message-bus: a list that only grows    *)
(* and is lost with the process.  Readers poll it: each asks for the whole *)
(* list and keeps the index it has come to.                                *)
(***************************************************************************)
EXTENDS Naturals, Sequences

VARIABLE log   \* the envelopes published, as records with their type

BusInit == log = <<>>

Publish(envelope) == log' = Append(log, envelope)

(* What a reader that has come to index i has not seen.                    *)
NewSince(i) == SubSeq(log, i + 1, Len(log))
===============================================================================
