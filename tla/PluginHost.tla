------------------------------ MODULE PluginHost ------------------------------
(***************************************************************************)
(* The plugin host of src/crates/plugin-host: one task polls the bus and   *)
(* hands every new event to the plugins that subscribe to it, one plugin   *)
(* after the other, and between two polls asks the plugins for their       *)
(* health; requests of the API restart a plugin or ask for their health    *)
(* beside it.  What a plugin publishes goes to the bus it is fed from.     *)
(*                                                                         *)
(* A handler succeeds, fails or takes too long; a plugin's records count   *)
(* failures up to FailureCap.  Counters that are only displayed are left   *)
(* out.  A plugin's own state, which builtin plugins do not keep, is the   *)
(* number of times it was set, up to MaxEvents.                            *)
(***************************************************************************)
EXTENDS MessageBus, FiniteSets

CONSTANTS Plugins,
          EventTypes,
          Subscribes,   \* Subscribes[p]: PluginSubscription::event_types
          EntityTypes,  \* EntityTypes[p]: PluginSubscription::entity_types
          EntityType,   \* EntityType[t]: the entity_type in the data of an event of type t
          Emits,        \* Emits[p]: the type p publishes for what it handles, or Nothing
          Stateful,     \* the plugins whose outputs set state
          Nothing, Torn,
          Routers,      \* callers of route_once: run's loop, and others
          Requests,     \* restart and reload requests of the API
          MaxEvents, MaxFaults, FailureCap   \* bounds

ASSUME PluginAssumption ==
    /\ Subscribes \in [Plugins -> SUBSET EventTypes]
    /\ Emits \in [Plugins -> EventTypes \cup {Nothing}] /\ Nothing \notin EventTypes
    /\ Stateful \subseteq Plugins /\ IsFiniteSet(Routers)
    /\ MaxEvents \in Nat /\ MaxFaults \in Nat /\ FailureCap \in Nat \ {0}

VARIABLES lastIndex,  \* PluginHost::last_index
          record,     \* each plugin's record
          rpc,        \* where each router is
          seen,       \* how many events it was given by the bus
          batch,      \* the places in the log it has still to dispatch
          waiting,    \* the plugins the first of them has still to be given to
          outputs,    \* the plugin whose outputs it is to act on, or Nothing
          starting,   \* plugins run() has still to start
          late,       \* plugins registered again since, which nothing starts
          request,    \* what each request is doing, and to which plugin
          store,      \* PluginStateStore::state
          file,       \* its file
          alive,      \* the host was constructed
          (* history *)
          given,      \* per plugin, the places in the log of the events it was given
          faults

vars == <<log, lastIndex, record, rpc, seen, batch, waiting, outputs, starting, late, request,
          store, file, alive, given, faults>>

PluginRecord == [state : {"validated", "running", "error"}, failures : 0..FailureCap]
Steps == {"none", "stopping", "starting", "health"}

TypeOK ==
    /\ log \in Seq(EventTypes)
    /\ lastIndex \in 0..Len(log)
    /\ record \in [Plugins -> PluginRecord]
    /\ rpc \in [Routers -> {"idle", "read", "dispatching"}]
    /\ \A r \in Routers : /\ seen[r] \in 0..Len(log)
                          /\ \A k \in DOMAIN batch[r] : batch[r][k] \in DOMAIN log
    /\ waiting \in [Routers -> SUBSET Plugins]
    /\ outputs \in [Routers -> Plugins \cup {Nothing}]
    /\ starting \subseteq Plugins /\ late \subseteq Plugins
    /\ request \in [Requests -> Steps \X (Plugins \cup {Nothing})]
    /\ store \in [Plugins -> 0..MaxEvents]
    /\ file \in [Plugins -> 0..MaxEvents] \cup {Torn}
    /\ alive \in BOOLEAN
    /\ faults \in 0..MaxFaults

NoValues == [p \in Plugins |-> 0]
NewRecord == [state |-> "validated", failures |-> 0]

Init ==
    /\ BusInit
    /\ lastIndex = 0
    /\ record = [p \in Plugins |-> NewRecord]
    /\ rpc = [r \in Routers |-> "idle"] /\ seen = [r \in Routers |-> 0]
    /\ batch = [r \in Routers |-> <<>>] /\ waiting = [r \in Routers |-> {}]
    /\ outputs = [r \in Routers |-> Nothing]
    /\ starting = Plugins /\ late = {}
    /\ request = [q \in Requests |-> <<"none", Nothing>>]
    /\ store = NoValues /\ file = NoValues /\ alive = TRUE
    /\ given = [p \in Plugins |-> <<>>] /\ faults = 0

Fault == faults < MaxFaults /\ faults' = faults + 1

-----------------------------------------------------------------------------
(* Everyone else publishes.                                                *)
Event ==
    /\ alive /\ Len(log) < MaxEvents
    /\ \E t \in EventTypes : t \notin {Emits[p] : p \in Plugins} /\ Publish(t)
    /\ UNCHANGED <<lastIndex, record, rpc, seen, batch, waiting, outputs, starting, late, request,
                   store, file, alive, given, faults>>

Failed(rec) == IF rec.failures < FailureCap THEN rec.failures + 1 ELSE rec.failures

(* mark_error and mark_state after an on_start.                            *)
MarkStarted(p) ==
    \/ record' = [record EXCEPT ![p].state = "running"] /\ UNCHANGED faults
    \/ record' = [record EXCEPT ![p] = [state |-> "error", failures |-> Failed(@)]] /\ Fault

(* run: on_start of each plugin.                                           *)
StartPlugin(p) ==
    /\ alive /\ p \in starting
    /\ MarkStarted(p)
    /\ starting' = starting \ {p}
    /\ UNCHANGED <<log, lastIndex, rpc, seen, batch, waiting, outputs, late, request, store, file,
                   alive, given>>

(* route_once asks the bus, before it has the index's lock.                *)
ReadBus(r) ==
    /\ alive /\ starting = {} /\ rpc[r] = "idle"
    /\ seen' = [seen EXCEPT ![r] = Len(log)]
    /\ rpc' = [rpc EXCEPT ![r] = "read"]
    /\ UNCHANGED <<log, lastIndex, record, batch, waiting, outputs, starting, late, request, store,
                   file, alive, given, faults>>

(* Mutant: the index stays one behind.                                     *)
TakeBatch_KeepsIndex(r) ==
    /\ alive /\ rpc[r] = "read"
    /\ LET base == IF seen[r] < lastIndex THEN 0 ELSE lastIndex
       IN  /\ batch' = [batch EXCEPT ![r] = [k \in 1..(seen[r] - base) |-> base + k]]
           /\ lastIndex' = IF base + 1 < seen[r] THEN seen[r] - 1 ELSE seen[r]
    /\ rpc' = [rpc EXCEPT ![r] = IF batch'[r] = <<>> THEN "idle" ELSE "dispatching"]
    /\ waiting' = [waiting EXCEPT ![r] = IF batch'[r] = <<>> THEN {} ELSE Plugins]
    /\ UNCHANGED <<log, record, seen, outputs, starting, late, request, store, file, alive, given,
                   faults>>

(* route_once under the index's lock: a log shorter than the index is      *)
(* taken for a new one.                                                    *)
TakeBatch(r) ==
    /\ alive /\ rpc[r] = "read"
    /\ LET base == IF seen[r] < lastIndex THEN 0 ELSE lastIndex
       IN  /\ batch' = [batch EXCEPT ![r] = [k \in 1..(seen[r] - base) |-> base + k]]
           /\ lastIndex' = seen[r]
    /\ rpc' = [rpc EXCEPT ![r] = IF batch'[r] = <<>> THEN "idle" ELSE "dispatching"]
    /\ waiting' = [waiting EXCEPT ![r] = IF batch'[r] = <<>> THEN {} ELSE Plugins]
    /\ UNCHANGED <<log, record, seen, outputs, starting, late, request, store, file, alive, given,
                   faults>>

(* plugin_subscribes.                                                      *)
PluginSubscribes(p, type) ==
    /\ Subscribes[p] = {} \/ type \in Subscribes[p]
    /\ EntityTypes[p] = {} \/ EntityType[type] \in EntityTypes[p]

(* dispatch passes over a plugin.                                          *)
Pass(r, p) ==
    /\ alive /\ rpc[r] = "dispatching" /\ p \in waiting[r] /\ outputs[r] = Nothing
    /\ ~PluginSubscribes(p, log[Head(batch[r])])
    /\ waiting' = [waiting EXCEPT ![r] = @ \ {p}]
    /\ UNCHANGED <<log, lastIndex, record, rpc, seen, batch, outputs, starting, late, request, store,
                   file, alive, given, faults>>

(* The record after a handle: a success clears the failures; an error and  *)
(* a timeout count, and leave the state as it is.                          *)
HandleEnds(p) ==
    \/ record' = [record EXCEPT ![p].failures = 0] /\ UNCHANGED faults
    \/ record' = [record EXCEPT ![p].failures = Failed(record[p])] /\ Fault

(* dispatch: a plugin has handled the event; its state was not looked at.  *)
Handle(r, p) ==
    /\ alive /\ rpc[r] = "dispatching" /\ p \in waiting[r] /\ outputs[r] = Nothing
    /\ PluginSubscribes(p, log[Head(batch[r])])
    /\ HandleEnds(p)
    /\ given' = [given EXCEPT ![p] = Append(@, Head(batch[r]))]
    /\ waiting' = [waiting EXCEPT ![r] = @ \ {p}]
    /\ outputs' = [outputs EXCEPT ![r] = IF faults' = faults THEN p ELSE Nothing]
    /\ UNCHANGED <<log, lastIndex, rpc, seen, batch, starting, late, request, store, file, alive>>

(* update_state: set in memory, then written; a failed write is logged.    *)
UpdateState(p) ==
    IF p \notin Stateful THEN UNCHANGED <<store, file, faults>>
    ELSE /\ store' = [store EXCEPT ![p] = IF @ < MaxEvents THEN @ + 1 ELSE @]
         /\ \/ file' = store' /\ UNCHANGED faults
            \/ file' \in {file, Torn} /\ Fault

(* dispatch: the outputs of a successful handle.                           *)
ActOnOutputs(r) ==
    /\ alive /\ outputs[r] # Nothing
    /\ LET p == outputs[r]
       IN  /\ IF Emits[p] = Nothing THEN UNCHANGED log ELSE Publish(Emits[p])
           /\ UpdateState(p)
    /\ outputs' = [outputs EXCEPT ![r] = Nothing]
    /\ UNCHANGED <<lastIndex, record, rpc, seen, batch, waiting, starting, late, request, alive, given>>

(* The event has been to everyone.                                         *)
NextEvent(r) ==
    /\ alive /\ rpc[r] = "dispatching" /\ waiting[r] = {} /\ outputs[r] = Nothing
    /\ batch' = [batch EXCEPT ![r] = Tail(@)]
    /\ waiting' = [waiting EXCEPT ![r] = IF Len(batch[r]) > 1 THEN Plugins ELSE {}]
    /\ rpc' = [rpc EXCEPT ![r] = IF Len(batch[r]) > 1 THEN "dispatching" ELSE "idle"]
    /\ UNCHANGED <<log, lastIndex, record, seen, outputs, starting, late, request, store, file, alive,
                   given, faults>>

(* Mutant: the plugins that still fail are the healed ones.                *)
CheckHealth_Inverted(p) ==
    record' = [record EXCEPT ![p].state =
                  IF @ = "error" /\ record[p].failures > 0 THEN "running" ELSE @]

(* tick_health for one plugin.                                             *)
CheckHealth(p) ==
    record' = [record EXCEPT ![p].state =
                  IF @ = "error" /\ record[p].failures = 0 THEN "running" ELSE @]

(* The loop's health tick: between two route cycles.                       *)
TickHealth(p) ==
    /\ alive /\ starting = {} /\ \A r \in Routers : rpc[r] = "idle"
    /\ CheckHealth(p) /\ record' # record
    /\ UNCHANGED <<log, lastIndex, rpc, seen, batch, waiting, outputs, starting, late, request, store,
                   file, alive, given, faults>>

(* POST /plugins/reload: tick_health and the names, nothing more.          *)
Reload(p) ==
    /\ alive /\ Requests # {}
    /\ CheckHealth(p) /\ record' # record
    /\ UNCHANGED <<log, lastIndex, rpc, seen, batch, waiting, outputs, starting, late, request, store,
                   file, alive, given, faults>>

(* register_builtin of a known name, which discover_into also comes to: a  *)
(* new plugin and a new record, in one step under the plugins' lock.       *)
Reregister(p) ==
    /\ alive /\ starting = {} /\ p \notin late
    /\ record' = [record EXCEPT ![p] = NewRecord]
    /\ late' = late \cup {p}
    /\ UNCHANGED <<log, lastIndex, rpc, seen, batch, waiting, outputs, starting, request, store,
                   file, alive, given, faults>>

(* restart: on_stop of the plugin.                                         *)
BeginRestart(q, p) ==
    /\ alive /\ request[q][1] = "none"
    /\ request' = [request EXCEPT ![q] = <<"stopping", p>>]
    /\ UNCHANGED <<log, lastIndex, record, rpc, seen, batch, waiting, outputs, starting, late, store,
                   file, alive, given, faults>>

(* Its record begins anew.                                                 *)
ResetRecord(q) ==
    /\ alive /\ request[q][1] = "stopping"
    /\ record' = [record EXCEPT ![request[q][2]] = NewRecord]
    /\ request' = [request EXCEPT ![q][1] = "starting"]
    /\ UNCHANGED <<log, lastIndex, rpc, seen, batch, waiting, outputs, starting, late, store, file,
                   alive, given, faults>>

(* Mutant: a failed on_start is only logged.                               *)
EndRestart_Silent(q) ==
    /\ alive /\ request[q][1] = "starting"
    /\ \/ record' = [record EXCEPT ![request[q][2]].state = "running"] /\ UNCHANGED faults
       \/ UNCHANGED record /\ Fault
    /\ request' = [request EXCEPT ![q] = <<"none", Nothing>>]
    /\ late' = late \ {request[q][2]}
    /\ UNCHANGED <<log, lastIndex, rpc, seen, batch, waiting, outputs, starting, store, file,
                   alive, given>>

(* on_start, and the state it leads to.                                    *)
EndRestart(q) ==
    /\ alive /\ request[q][1] = "starting"
    /\ MarkStarted(request[q][2])
    /\ request' = [request EXCEPT ![q] = <<"none", Nothing>>]
    /\ late' = late \ {request[q][2]}
    /\ UNCHANGED <<log, lastIndex, rpc, seen, batch, waiting, outputs, starting, store, file,
                   alive, given>>

(* The process dies and starts: a state file that does not parse makes     *)
(* PluginHost::new fail, and the daemon with it.                           *)
Restart ==
    /\ alive /\ Fault
    /\ log' = <<>> /\ lastIndex' = 0
    /\ record' = [p \in Plugins |-> NewRecord]
    /\ rpc' = [r \in Routers |-> "idle"] /\ seen' = [r \in Routers |-> 0]
    /\ batch' = [r \in Routers |-> <<>>] /\ waiting' = [r \in Routers |-> {}]
    /\ outputs' = [r \in Routers |-> Nothing]
    /\ starting' = Plugins /\ late' = {}
    /\ request' = [q \in Requests |-> <<"none", Nothing>>]
    /\ alive' = (file # Torn)
    /\ store' = IF file = Torn THEN NoValues ELSE file
    /\ given' = [p \in Plugins |-> <<>>]
    /\ UNCHANGED file

RouterStep(r) ==
    \/ ReadBus(r) \/ TakeBatch(r) \/ ActOnOutputs(r) \/ NextEvent(r)
    \/ \E p \in Plugins : Pass(r, p) \/ Handle(r, p)

RequestStep(q) == ResetRecord(q) \/ EndRestart(q)

Next ==
    \/ Event \/ Restart
    \/ \E r \in Routers : RouterStep(r)
    \/ \E p \in Plugins : StartPlugin(p) \/ TickHealth(p) \/ Reload(p) \/ Reregister(p)
    \/ \E q \in Requests : RequestStep(q) \/ \E p \in Plugins : BeginRestart(q, p)

Spec == Init /\ [][Next]_vars

(* The host's task and the requests run; select! takes its ready branches  *)
(* at random, so the health tick comes although events do.                 *)
FairSpec ==
    /\ Spec
    /\ \A r \in Routers : WF_vars(RouterStep(r))
    /\ \A p \in Plugins : WF_vars(StartPlugin(p)) /\ SF_vars(TickHealth(p))
    /\ \A q \in Requests : WF_vars(RequestStep(q))
-----------------------------------------------------------------------------
(* What is being dispatched to p, the event at the head included while p   *)
(* still waits for it.                                                     *)
Ahead(r, p) == {k \in 1..Len(batch[r]) : k > 1 \/ p \in waiting[r]}
Wanted(p) == {i \in 1..lastIndex : PluginSubscribes(p, log[i])}
Due(p) == Wanted(p) \ UNION {{batch[r][k] : k \in Ahead(r, p)} : r \in Routers}

(* With one caller of route_once a plugin is given each event it           *)
(* subscribes to once and in the log's order, and misses none, whatever    *)
(* fails or is restarted meanwhile.                                        *)
GivenOnce ==
    Cardinality(Routers) <= 1 =>
        \A p \in Plugins :
            /\ Len(given[p]) = Cardinality(Due(p))
            /\ \A k \in DOMAIN given[p] : given[p][k] \in Due(p)
            /\ \A k \in DOMAIN given[p], l \in DOMAIN given[p] :
                  k < l => given[p][k] < given[p][l]

(* A plugin that was registered before the host ran, or is restarted, ends *)
(* up running or in error.                                                 *)
StartsEnd ==
    \A p \in Plugins : (alive /\ record[p].state = "validated" /\ p \notin late)
                           ~> (~alive \/ record[p].state # "validated" \/ p \in late)

(* A plugin in error that has since handled an event is shown as running   *)
(* again, or has failed again.                                             *)
ErrorsHeal ==
    \A p \in Plugins : (alive /\ record[p].state = "error" /\ record[p].failures = 0)
                           ~> (~alive \/ record[p].state # "error" \/ record[p].failures > 0)
===============================================================================
