-------------------------- MODULE ModelRuntimeHandle --------------------------
(***************************************************************************)
(* The handle of src/crates/api-gateway/src/server.rs through which a      *)
(* client reloads the model runtime while documents are extracted.  The    *)
(* extraction service asks the swappable instance, the routes and the      *)
(* metrics publisher read the view; both are to be one instance.  At       *)
(* startup they are not: the daemon builds two.                            *)
(*                                                                         *)
(* An instance is a number; all have the same configuration and differ in  *)
(* their metrics (their queues are SlotQueue's).                           *)
(***************************************************************************)
EXTENDS SourceRegistry, Inference, RuntimeMetrics

VARIABLES runtimes,    \* the metrics of every instance built
          swappable,   \* ModelRuntimeHandle::swappable
          view,        \* ModelRuntimeHandle::view
          reload,      \* per client, how far its reload is
          (* history *)
          strayed      \* the last reload to end had another beside it, or there was none

handleVars == <<runtimes, swappable, view, reload, strayed>>

NoReload == [step |-> "idle", new |-> 0, alone |-> TRUE]
Reloading == {c \in Clients : reload[c].step # "idle"}

HandleTypeOK ==
    /\ \A r \in DOMAIN runtimes : runtimes[r].calls \in Nat
    /\ swappable \in DOMAIN runtimes /\ view \in DOMAIN runtimes
    /\ reload \in [Clients -> [step : {"idle", "built", "swapped"}, new : 0..Len(runtimes),
                               alone : BOOLEAN]]
    /\ strayed \in BOOLEAN

(* build_model_runtime_handle.                                             *)
HandleInit ==
    /\ runtimes = <<EmptyMetrics, EmptyMetrics>> /\ view = 1 /\ swappable = 2
    /\ reload = [c \in Clients |-> NoReload] /\ strayed = TRUE

(* reload: a new instance, from the configuration of the start.            *)
BuildRuntime(c) ==
    /\ reload[c] = NoReload
    /\ changes < MaxChanges /\ changes' = changes + 1
    /\ runtimes' = Append(runtimes, EmptyMetrics)
    /\ reload' = [d \in Clients |->
                    IF d = c THEN [step |-> "built", new |-> Len(runtimes) + 1, alone |-> Reloading = {}]
                    ELSE IF d \in Reloading THEN [reload[d] EXCEPT !.alone = FALSE] ELSE reload[d]]
    /\ UNCHANGED <<swappable, view, strayed>>

SwapRuntime(c) ==
    /\ reload[c].step = "built"
    /\ swappable' = reload[c].new
    /\ reload' = [reload EXCEPT ![c].step = "swapped"]
    /\ UNCHANGED <<runtimes, view, strayed, changes>>

(* Mutant: the view gets an instance of its own, as at startup.            *)
RefreshView_Own(c) ==
    /\ reload[c].step = "swapped"
    /\ runtimes' = Append(runtimes, EmptyMetrics)
    /\ view' = Len(runtimes) + 1
    /\ reload' = [reload EXCEPT ![c] = NoReload]
    /\ strayed' = ~reload[c].alone
    /\ UNCHANGED <<swappable, changes>>

RefreshView(c) ==
    /\ reload[c].step = "swapped"
    /\ view' = reload[c].new
    /\ reload' = [reload EXCEPT ![c] = NoReload]
    /\ strayed' = ~reload[c].alone
    /\ UNCHANGED <<runtimes, swappable, changes>>

Reload(c) == BuildRuntime(c) \/ SwapRuntime(c) \/ RefreshView(c)

(* What GET /model-runtime, the reload's response and, every second, the   *)
(* monitoring service are given.                                           *)
ShownMetrics == runtimes[view]

-----------------------------------------------------------------------------
(* A call that reaches a queue is recorded in the instance that answered   *)
(* it, also when that has been replaced meanwhile.                         *)
Record(r, kind, outcome) ==
    runtimes' = [runtimes EXCEPT ![r] = RecordCall(@, kind, ModelFor(kind), 1, outcome)]

-----------------------------------------------------------------------------
(* After a reload with no other beside it the routes look at the instance  *)
(* that answers the calls (server.rs ModelRuntimeHandle::reload, whose two *)
(* locks are taken one after the other), and what they show adds up,       *)
(* whichever instances the calls under way were made to (metrics.rs        *)
(* record_call).                                                           *)
ViewIsLive ==
    /\ Reloading = {} /\ ~strayed => view = swappable
    /\ AddsUp(ShownMetrics)

(* What the documentation says, and what the code does not do.             *)

(* app.rs:470 "polls the live LocalModelRuntime for its latency histograms *)
(* [...] so /api/v1/monitoring and the persisted JSON file both reflect    *)
(* the live metrics": no calls go unseen while no reload is under way.     *)
LiveMetricsShown == Reloading = {} => ShownMetrics.calls >= runtimes[swappable].calls
===============================================================================
