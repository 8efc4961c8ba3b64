------------------------------ MODULE MCPluginHost -----------------------------
(* Two plugins on the two kinds of event that matter: an audit log, which  *)
(* subscribes to both by their types, and a re-emitter, which subscribes   *)
(* to every event about a document.                                        *)
EXTENDS PluginHost

CONSTANTS audit, reEmitter
MCSubscribes == [p \in Plugins |-> IF p = audit THEN {"processed", "received"} ELSE {}]
MCEntityTypes == [p \in Plugins |-> IF p = audit THEN {} ELSE {"document"}]
MCEntityType == [t \in EventTypes |-> IF t = "processed" THEN "document" ELSE ""]
MCEmits == [p \in Plugins |-> IF p = audit THEN Nothing ELSE "re_emitted"]
================================================================================
