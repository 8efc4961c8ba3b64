---------------------------- MODULE PluginHostProofs ----------------------------
(***************************************************************************)
(* Type correctness of PluginHost, and the delivery of events: with one    *)
(* caller of route_once each plugin is given what it subscribes to once,   *)
(* in order and without gaps.                                              *)
(***************************************************************************)
EXTENDS PluginHost, FiniteSetTheorems, SequenceTheorems, TLAPS

(* An envelope more.                                                       *)
LEMMA AppendsOne ==
    ASSUME NEW S, NEW s \in Seq(S), NEW e \in S
    PROVE  /\ Append(s, e) \in Seq(S) /\ Len(s) \in Nat /\ Len(Append(s, e)) = Len(s) + 1
           /\ \A i \in 1..Len(s) : Append(s, e)[i] = s[i]
OBVIOUS

LEMMA TailOfSeq ==
    ASSUME NEW S, NEW s \in Seq(S), s # <<>>
    PROVE  /\ Len(s) \in Nat /\ Len(s) > 0 /\ DOMAIN s = 1..Len(s)
           /\ Tail(s) \in Seq(S) /\ Len(Tail(s)) = Len(s) - 1
           /\ DOMAIN Tail(s) = 1..(Len(s) - 1)
           /\ \A k \in 1..(Len(s) - 1) : Tail(s)[k] = s[k + 1]
           /\ Tail(s) = <<>> <=> ~(Len(s) > 1)
           /\ Head(s) = s[1]
<1>1. Len(s) \in Nat /\ Len(s) > 0 /\ DOMAIN s = 1..Len(s)
  BY EmptySeq, LenProperties
<1>2. /\ Tail(s) \in Seq(S) /\ Len(Tail(s)) = Len(s) - 1 /\ Head(s) = s[1]
      /\ \A k \in 1..Len(Tail(s)) : Tail(s)[k] = s[k + 1]
  BY HeadTailProperties
<1>3. DOMAIN Tail(s) = 1..(Len(s) - 1)
  BY <1>2, LenProperties
<1>4. Tail(s) = <<>> <=> Len(Tail(s)) = 0
  BY <1>2, EmptySeq
<1> QED
  BY <1>1, <1>2, <1>3, <1>4

(***************************************************************************)
(* Types.                                                                  *)
(***************************************************************************)
TypeInv ==
    /\ TypeOK
    /\ batch \in [Routers -> Seq(Nat)]
    /\ seen \in [Routers -> Nat]
    /\ given \in [Plugins -> Seq(Nat)]
    /\ \A r \in Routers : rpc[r] = "dispatching" <=> batch[r] # <<>>

(* A record that is replaced or changed in one field stays a record; a     *)
(* request without a plugin changes none.                                  *)
LEMMA RecordTypes ==
    ASSUME record \in [Plugins -> PluginRecord], NEW p
    PROVE  /\ [record EXCEPT ![p] = NewRecord] \in [Plugins -> PluginRecord]
           /\ [record EXCEPT ![p].state = "running"] \in [Plugins -> PluginRecord]
           /\ [record EXCEPT ![p].state = IF @ = "error" /\ record[p].failures = 0 THEN "running" ELSE @]
                \in [Plugins -> PluginRecord]
           /\ [record EXCEPT ![p].failures = 0] \in [Plugins -> PluginRecord]
           /\ [record EXCEPT ![p].failures = Failed(record[p])] \in [Plugins -> PluginRecord]
           /\ [record EXCEPT ![p] = [state |-> "error", failures |-> Failed(@)]]
                \in [Plugins -> PluginRecord]
<1>1. FailureCap \in Nat \ {0}
  BY PluginAssumption
<1>2. CASE p \notin Plugins
  BY <1>2
<1>3. CASE p \in Plugins
  <2>1. record[p] \in PluginRecord
    BY <1>3
  <2>2. Failed(record[p]) \in 0..FailureCap
    BY <1>1, <2>1 DEF Failed, PluginRecord
  <2>3. 0 \in 0..FailureCap
    BY <1>1
  <2> QED
    BY <1>3, <2>1, <2>2, <2>3 DEF PluginRecord, NewRecord
<1> QED
  BY <1>2, <1>3

LEMMA FaultTypes == faults \in 0..MaxFaults /\ (UNCHANGED faults \/ Fault) => faults' \in 0..MaxFaults
  BY PluginAssumption DEF Fault

LEMMA MarkStartedTypes ==
    ASSUME TypeOK, NEW p, MarkStarted(p)
    PROVE  record' \in [Plugins -> PluginRecord] /\ faults' \in 0..MaxFaults
<1>1. record' \in [Plugins -> PluginRecord]
  <2>1. record \in [Plugins -> PluginRecord]
    BY DEF TypeOK
  <2>2. CASE record' = [record EXCEPT ![p].state = "running"]
    BY <2>1, <2>2, RecordTypes
  <2>3. CASE record' = [record EXCEPT ![p] = [state |-> "error", failures |-> Failed(@)]]
    BY <2>1, <2>3, RecordTypes
  <2> QED
    BY <2>2, <2>3 DEF MarkStarted
<1>2. UNCHANGED faults \/ Fault
  BY DEF MarkStarted
<1> QED
  BY <1>1, <1>2, FaultTypes DEF TypeOK

LEMMA TypeInvInit == Init => TypeInv
<1> SUFFICES ASSUME Init  PROVE TypeInv
  OBVIOUS
<1>1. /\ log = <<>> /\ Len(log) = 0 /\ lastIndex = 0 /\ faults = 0 /\ 0 \in 0..MaxFaults
      /\ 0 \in 0..MaxEvents /\ 0 \in 0..FailureCap
  BY PluginAssumption DEF Init, BusInit
<1>2. NewRecord \in PluginRecord /\ NoValues \in [Plugins -> 0..MaxEvents]
  BY <1>1 DEF NewRecord, PluginRecord, NoValues
<1>3. /\ log \in Seq(EventTypes) /\ lastIndex \in 0..Len(log)
      /\ batch \in [Routers -> Seq(Nat)] /\ seen \in [Routers -> Nat] /\ given \in [Plugins -> Seq(Nat)]
      /\ \A r \in Routers : seen[r] = 0 /\ batch[r] = <<>>
      /\ \A r \in Routers : rpc[r] = "idle"
  BY <1>1 DEF Init
<1>4. \A r \in Routers : /\ seen[r] \in 0..Len(log)
                         /\ \A k \in DOMAIN batch[r] : batch[r][k] \in DOMAIN log
  BY <1>1, <1>3
<1>5. /\ record \in [Plugins -> PluginRecord]
      /\ rpc \in [Routers -> {"idle", "read", "dispatching"}]
      /\ waiting \in [Routers -> SUBSET Plugins]
      /\ outputs \in [Routers -> Plugins \cup {Nothing}]
      /\ starting \subseteq Plugins /\ late \subseteq Plugins
  BY <1>2 DEF Init
<1>6. request \in [Requests -> Steps \X (Plugins \cup {Nothing})]
  BY DEF Init, Steps
<1>7. store \in [Plugins -> 0..MaxEvents] /\ file = store /\ alive = TRUE
  BY <1>2 DEF Init
<1> QED
  BY <1>1, <1>3, <1>4, <1>5, <1>6, <1>7 DEF TypeInv, TypeOK

(* A log that only grows leaves what points into it in place.              *)
LEMMA LogGrows ==
    ASSUME TypeOK, NEW t \in EventTypes, Publish(t), UNCHANGED <<lastIndex, seen, batch>>
    PROVE  /\ log' \in Seq(EventTypes) /\ lastIndex' \in 0..Len(log')
           /\ \A r \in Routers : /\ seen'[r] \in 0..Len(log')
                                 /\ \A k \in DOMAIN batch'[r] : batch'[r][k] \in DOMAIN log'
<1>1. log \in Seq(EventTypes) /\ log' = Append(log, t)
  BY DEF TypeOK, Publish
<1> HIDE DEF Publish
<1>2. /\ log' \in Seq(EventTypes) /\ Len(log) \in Nat /\ Len(log') = Len(log) + 1
  BY <1>1, AppendsOne
<1>3. DOMAIN log = 1..Len(log) /\ DOMAIN log' = 1..Len(log')
  BY <1>1, <1>2
<1> QED
  BY <1>2, <1>3 DEF TypeOK

LEMMA TypeInvNext == TypeInv /\ [Next]_vars => TypeInv'
<1> SUFFICES ASSUME TypeInv, [Next]_vars  PROVE TypeInv'
  OBVIOUS
<1>t. TypeOK
  BY DEF TypeInv
<1>r. record \in [Plugins -> PluginRecord] /\ Len(log) \in Nat /\ lastIndex \in Nat
  BY DEF TypeInv, TypeOK
<1>1. CASE Event
  <2>1. PICK t \in EventTypes : Publish(t)
    BY <1>1 DEF Event
  <2>2. UNCHANGED <<lastIndex, record, rpc, seen, batch, waiting, outputs, starting, late, request,
                    store, file, alive, given, faults>>
    BY <1>1 DEF Event
  <2>3. /\ log' \in Seq(EventTypes) /\ lastIndex' \in 0..Len(log')
        /\ \A r \in Routers : /\ seen'[r] \in 0..Len(log')
                              /\ \A k \in DOMAIN batch'[r] : batch'[r][k] \in DOMAIN log'
    BY <1>t, <2>1, <2>2, LogGrows
  <2> QED
    BY <2>2, <2>3 DEF TypeInv, TypeOK
<1>2. CASE Restart
  <2>1. /\ log' = <<>> /\ lastIndex' = 0 /\ faults' \in 0..MaxFaults
        /\ record' = [p \in Plugins |-> NewRecord]
        /\ rpc' = [r \in Routers |-> "idle"] /\ seen' = [r \in Routers |-> 0]
        /\ batch' = [r \in Routers |-> <<>>] /\ waiting' = [r \in Routers |-> {}]
        /\ outputs' = [r \in Routers |-> Nothing]
        /\ starting' = Plugins /\ late' = {}
        /\ request' = [q \in Requests |-> <<"none", Nothing>>]
        /\ alive' \in BOOLEAN
        /\ store' = IF file = Torn THEN NoValues ELSE file
        /\ given' = [p \in Plugins |-> <<>>] /\ file' = file
    BY <1>2, FaultTypes DEF Restart, TypeInv, TypeOK
  <2>2. 0 \in 0..FailureCap /\ 0 \in 0..MaxEvents
    BY PluginAssumption
  <2>3. log' \in Seq(EventTypes) /\ Len(log') = 0
    BY <2>1
  <2>4. /\ lastIndex' \in 0..Len(log')
        /\ \A r \in Routers : seen'[r] = 0 /\ batch'[r] = <<>>
    BY <2>1, <2>3
  <2>5. \A r \in Routers : /\ seen'[r] \in 0..Len(log')
                           /\ \A k \in DOMAIN batch'[r] : batch'[r][k] \in DOMAIN log'
    BY <2>3, <2>4
  <2>6. /\ batch' \in [Routers -> Seq(Nat)] /\ seen' \in [Routers -> Nat] /\ given' \in [Plugins -> Seq(Nat)]
    BY <2>1
  <2>7. store' \in [Plugins -> 0..MaxEvents]
    BY <2>1, <2>2 DEF TypeInv, TypeOK, NoValues
  <2>8. record' \in [Plugins -> PluginRecord]
    BY <2>1, <2>2 DEF PluginRecord, NewRecord
  <2>9. request' \in [Requests -> Steps \X (Plugins \cup {Nothing})]
    BY <2>1 DEF Steps
  <2>10. /\ rpc' \in [Routers -> {"idle", "read", "dispatching"}]
         /\ waiting' \in [Routers -> SUBSET Plugins]
         /\ outputs' \in [Routers -> Plugins \cup {Nothing}]
         /\ starting' \subseteq Plugins /\ late' \subseteq Plugins
         /\ file' \in [Plugins -> 0..MaxEvents] \cup {Torn}
    BY <2>1 DEF TypeInv, TypeOK
  <2> QED
    BY <2>1, <2>3, <2>4, <2>5, <2>6, <2>7, <2>8, <2>9, <2>10 DEF TypeInv, TypeOK
<1>3. ASSUME NEW p \in Plugins, StartPlugin(p)  PROVE TypeInv'
  <2>1. record' \in [Plugins -> PluginRecord] /\ faults' \in 0..MaxFaults
    BY <1>3, <1>t, MarkStartedTypes DEF StartPlugin
  <2> QED
    BY <1>3, <2>1 DEF StartPlugin, TypeInv, TypeOK
<1>4. ASSUME NEW p \in Plugins, CheckHealth(p),
             UNCHANGED <<log, lastIndex, rpc, seen, batch, waiting, outputs, starting, late, request,
                         store, file, alive, given, faults>>
      PROVE  TypeInv'
  <2>1. record' \in [Plugins -> PluginRecord]
    BY <1>4, <1>r, RecordTypes DEF CheckHealth
  <2> QED
    BY <1>4, <2>1 DEF TypeInv, TypeOK
<1>5. ASSUME NEW p \in Plugins, TickHealth(p) \/ Reload(p)  PROVE TypeInv'
  BY <1>4, <1>5 DEF TickHealth, Reload
<1>6. ASSUME NEW p \in Plugins, Reregister(p)  PROVE TypeInv'
  <2>1. record' \in [Plugins -> PluginRecord]
    BY <1>6, <1>r, RecordTypes DEF Reregister
  <2> QED
    BY <1>6, <2>1 DEF Reregister, TypeInv, TypeOK
<1>7. ASSUME NEW q \in Requests, NEW p \in Plugins, BeginRestart(q, p)  PROVE TypeInv'
  BY <1>7 DEF BeginRestart, TypeInv, TypeOK, Steps
<1>8. ASSUME NEW q \in Requests, ResetRecord(q)  PROVE TypeInv'
  <2>1. record' \in [Plugins -> PluginRecord]
    BY <1>8, <1>r, RecordTypes DEF ResetRecord
  <2>2. request' \in [Requests -> Steps \X (Plugins \cup {Nothing})]
    BY <1>8 DEF ResetRecord, TypeInv, TypeOK, Steps
  <2> QED
    BY <1>8, <2>1, <2>2 DEF ResetRecord, TypeInv, TypeOK
<1>9. ASSUME NEW q \in Requests, EndRestart(q)  PROVE TypeInv'
  <2>1. record' \in [Plugins -> PluginRecord] /\ faults' \in 0..MaxFaults
    BY <1>9, <1>t, MarkStartedTypes DEF EndRestart
  <2> QED
    BY <1>9, <2>1 DEF EndRestart, TypeInv, TypeOK, Steps
<1>10. ASSUME NEW r \in Routers, ReadBus(r)  PROVE TypeInv'
  <2>1. /\ seen' = [seen EXCEPT ![r] = Len(log)] /\ rpc' = [rpc EXCEPT ![r] = "read"]
        /\ UNCHANGED <<log, lastIndex, record, batch, waiting, outputs, starting, late, request, store,
                       file, alive, given, faults>>
    BY <1>10 DEF ReadBus
  <2>2. seen' \in [Routers -> Nat] /\ \A s \in Routers : seen'[s] \in 0..Len(log)
    BY <1>r, <2>1 DEF TypeInv, TypeOK
  <2>3. rpc' \in [Routers -> {"idle", "read", "dispatching"}]
    BY <2>1 DEF TypeInv, TypeOK
  <2>4. \A s \in Routers : rpc'[s] = "dispatching" <=> batch'[s] # <<>>
    BY <1>10, <2>1 DEF ReadBus, TypeInv, TypeOK
  <2> QED
    BY <2>1, <2>2, <2>3, <2>4 DEF TypeInv, TypeOK
<1>11. ASSUME NEW r \in Routers, TakeBatch(r)  PROVE TypeInv'
  <2> DEFINE base == IF seen[r] < lastIndex THEN 0 ELSE lastIndex
             b == [k \in 1..(seen[r] - base) |-> base + k]
  <2>1. /\ batch' = [batch EXCEPT ![r] = b] /\ lastIndex' = seen[r]
        /\ rpc' = [rpc EXCEPT ![r] = IF batch'[r] = <<>> THEN "idle" ELSE "dispatching"]
        /\ waiting' = [waiting EXCEPT ![r] = IF batch'[r] = <<>> THEN {} ELSE Plugins]
        /\ UNCHANGED <<log, record, seen, outputs, starting, late, request, store, file, alive, given,
                       faults>>
    BY <1>11 DEF TakeBatch
  <2>2. seen[r] \in 0..Len(log) /\ base \in Nat /\ base <= seen[r]
    BY <1>r DEF TypeInv, TypeOK
  <2> HIDE DEF base
  <2>3. b \in Seq(Nat) /\ \A k \in DOMAIN b : b[k] \in 1..Len(log)
    <3>1. seen[r] - base \in Nat
      BY <1>r, <2>2
    <3>2. \A k \in 1..(seen[r] - base) : base + k \in Nat /\ base + k \in 1..Len(log)
      BY <1>r, <2>2
    <3> QED
      BY <3>1, <3>2
  <2>4. DOMAIN log = 1..Len(log)
    BY DEF TypeInv, TypeOK
  <2> HIDE DEF b
  <2>5. /\ batch' \in [Routers -> Seq(Nat)]
        /\ \A s \in Routers : \A k \in DOMAIN batch'[s] : batch'[s][k] \in DOMAIN log
    BY <2>1, <2>3, <2>4 DEF TypeInv, TypeOK
  <2>6. rpc' \in [Routers -> {"idle", "read", "dispatching"}]
    BY <2>1 DEF TypeInv, TypeOK
  <2>7. waiting' \in [Routers -> SUBSET Plugins]
    BY <2>1 DEF TypeInv, TypeOK
  <2>8. \A s \in Routers : rpc'[s] = "dispatching" <=> batch'[s] # <<>>
    <3>1. ASSUME NEW s \in Routers, s # r  PROVE rpc'[s] = rpc[s] /\ batch'[s] = batch[s]
      BY <2>1, <3>1 DEF TypeInv, TypeOK
    <3>2. rpc'[r] = IF batch'[r] = <<>> THEN "idle" ELSE "dispatching"
      BY <2>1 DEF TypeInv, TypeOK
    <3> QED
      BY <3>1, <3>2 DEF TypeInv
  <2> QED
    BY <2>1, <2>2, <2>5, <2>6, <2>7, <2>8 DEF TypeInv, TypeOK
<1>12. ASSUME NEW r \in Routers, NEW p \in Plugins, Pass(r, p)  PROVE TypeInv'
  BY <1>12 DEF Pass, TypeInv, TypeOK
<1>13. ASSUME NEW r \in Routers, NEW p \in Plugins, Handle(r, p)  PROVE TypeInv'
  <2>1. record' \in [Plugins -> PluginRecord]
    <3>1. CASE record' = [record EXCEPT ![p].failures = 0]
      BY <1>r, <3>1, RecordTypes
    <3>2. CASE record' = [record EXCEPT ![p].failures = Failed(record[p])]
      BY <1>r, <3>2, RecordTypes
    <3> QED
      BY <1>13, <3>1, <3>2 DEF Handle, HandleEnds
  <2>2. faults' \in 0..MaxFaults
    BY <1>13, FaultTypes DEF Handle, HandleEnds, TypeInv, TypeOK
  <2>3. batch[r] \in Seq(Nat) /\ batch[r] # <<>> /\ Head(batch[r]) \in Nat
    BY <1>13 DEF TypeInv, Handle
  <2>4. given' \in [Plugins -> Seq(Nat)]
    <3>1. given' = [given EXCEPT ![p] = Append(@, Head(batch[r]))] /\ given[p] \in Seq(Nat)
      BY <1>13 DEF Handle, TypeInv
    <3>2. Append(given[p], Head(batch[r])) \in Seq(Nat)
      BY <2>3, <3>1
    <3> QED
      BY <3>1, <3>2 DEF TypeInv
  <2>5. waiting' \in [Routers -> SUBSET Plugins] /\ outputs' \in [Routers -> Plugins \cup {Nothing}]
    BY <1>13 DEF Handle, TypeInv, TypeOK
  <2> QED
    BY <1>13, <2>1, <2>2, <2>4, <2>5 DEF Handle, TypeInv, TypeOK
<1>14. ASSUME NEW r \in Routers, ActOnOutputs(r)  PROVE TypeInv'
  <2> DEFINE p == outputs[r]
  <2>1. /\ p \in Plugins /\ UpdateState(p) /\ outputs' = [outputs EXCEPT ![r] = Nothing]
        /\ IF Emits[p] = Nothing THEN UNCHANGED log ELSE Publish(Emits[p])
        /\ UNCHANGED <<lastIndex, record, rpc, seen, batch, waiting, starting, late, request, alive, given>>
    BY <1>14 DEF ActOnOutputs, TypeInv, TypeOK
  <2> HIDE DEF p
  <2>2. /\ log' \in Seq(EventTypes) /\ lastIndex' \in 0..Len(log')
        /\ \A s \in Routers : /\ seen'[s] \in 0..Len(log')
                              /\ \A k \in DOMAIN batch'[s] : batch'[s][k] \in DOMAIN log'
    <3>1. CASE UNCHANGED log
      BY <2>1, <3>1 DEF TypeInv, TypeOK
    <3>2. CASE Emits[p] # Nothing
      <4>1. Emits[p] \in EventTypes
        BY <2>1, <3>2, PluginAssumption
      <4> QED
        BY <1>t, <2>1, <3>2, <4>1, LogGrows
    <3> QED
      BY <2>1, <3>1, <3>2
  <2>3. /\ store' \in [Plugins -> 0..MaxEvents]
        /\ file' \in [Plugins -> 0..MaxEvents] \cup {Torn}
    <3>1. CASE p \notin Stateful
      BY <2>1, <3>1 DEF UpdateState, TypeInv, TypeOK
    <3>2. CASE p \in Stateful
      <4>1. store' = [store EXCEPT ![p] = IF @ < MaxEvents THEN @ + 1 ELSE @]
        BY <2>1, <3>2 DEF UpdateState
      <4>2. store[p] \in 0..MaxEvents /\ MaxEvents \in Nat
        BY <2>1, PluginAssumption DEF TypeInv, TypeOK
      <4>3. (IF store[p] < MaxEvents THEN store[p] + 1 ELSE store[p]) \in 0..MaxEvents
        BY <4>2
      <4>4. store' \in [Plugins -> 0..MaxEvents]
        BY <4>1, <4>3 DEF TypeInv, TypeOK
      <4>5. file' \in {store', file, Torn}
        BY <2>1, <3>2 DEF UpdateState
      <4> QED
        BY <4>4, <4>5 DEF TypeInv, TypeOK
    <3> QED
      BY <3>1, <3>2
  <2>4. faults' \in 0..MaxFaults
    BY <2>1, FaultTypes DEF UpdateState, TypeInv, TypeOK
  <2>5. outputs' \in [Routers -> Plugins \cup {Nothing}]
    BY <2>1 DEF TypeInv, TypeOK
  <2> QED
    BY <2>1, <2>2, <2>3, <2>4, <2>5 DEF TypeInv, TypeOK
<1>15. ASSUME NEW r \in Routers, NextEvent(r)  PROVE TypeInv'
  <2>1. /\ rpc[r] = "dispatching"
        /\ batch' = [batch EXCEPT ![r] = Tail(@)]
        /\ waiting' = [waiting EXCEPT ![r] = IF Len(batch[r]) > 1 THEN Plugins ELSE {}]
        /\ rpc' = [rpc EXCEPT ![r] = IF Len(batch[r]) > 1 THEN "dispatching" ELSE "idle"]
        /\ UNCHANGED <<log, lastIndex, record, seen, outputs, starting, late, request, store, file, alive,
                       given, faults>>
    BY <1>15 DEF NextEvent
  <2>2. batch[r] \in Seq(Nat) /\ batch[r] # <<>>
    BY <2>1 DEF TypeInv
  <2>3. /\ Tail(batch[r]) \in Seq(Nat) /\ Len(batch[r]) \in Nat /\ Len(batch[r]) > 0
        /\ DOMAIN batch[r] = 1..Len(batch[r]) /\ DOMAIN Tail(batch[r]) = 1..(Len(batch[r]) - 1)
        /\ \A k \in 1..(Len(batch[r]) - 1) : Tail(batch[r])[k] = batch[r][k + 1]
        /\ Tail(batch[r]) = <<>> <=> ~(Len(batch[r]) > 1)
    BY <2>2, TailOfSeq
  <2>4. /\ batch' \in [Routers -> Seq(Nat)] /\ batch'[r] = Tail(batch[r])
        /\ \A s \in Routers : s # r => batch'[s] = batch[s]
    BY <2>1, <2>3 DEF TypeInv
  <2>5. \A s \in Routers : \A k \in DOMAIN batch'[s] : batch'[s][k] \in DOMAIN log
    <3>1. ASSUME NEW k \in DOMAIN Tail(batch[r])  PROVE Tail(batch[r])[k] \in DOMAIN log
      <4>1. k \in 1..(Len(batch[r]) - 1) /\ k + 1 \in DOMAIN batch[r]
        BY <2>3
      <4> QED
        BY <2>3, <4>1 DEF TypeInv, TypeOK
    <3> QED
      BY <2>4, <3>1 DEF TypeInv, TypeOK
  <2>6. rpc' \in [Routers -> {"idle", "read", "dispatching"}]
    BY <2>1 DEF TypeInv, TypeOK
  <2>7. waiting' \in [Routers -> SUBSET Plugins]
    BY <2>1 DEF TypeInv, TypeOK
  <2>8. \A s \in Routers : rpc'[s] = "dispatching" <=> batch'[s] # <<>>
    <3>1. ASSUME NEW s \in Routers, s # r  PROVE rpc'[s] = rpc[s] /\ batch'[s] = batch[s]
      BY <2>1, <2>4, <3>1 DEF TypeInv, TypeOK
    <3>2. rpc'[r] = IF Len(batch[r]) > 1 THEN "dispatching" ELSE "idle"
      BY <2>1 DEF TypeInv, TypeOK
    <3>3. rpc'[r] = "dispatching" <=> batch'[r] # <<>>
      BY <2>3, <2>4, <3>2
    <3> QED
      BY <3>1, <3>3 DEF TypeInv
  <2> QED
    BY <2>1, <2>4, <2>5, <2>6, <2>7, <2>8 DEF TypeInv, TypeOK
<1>16. CASE UNCHANGED vars
  BY <1>16 DEF vars, TypeInv, TypeOK
<1> QED
  BY <1>1, <1>2, <1>3, <1>5, <1>6, <1>7, <1>8, <1>9, <1>10, <1>11, <1>12, <1>13, <1>14, <1>15, <1>16
     DEF Next, RouterStep, RequestStep

(* Records, indices, batches and the state store keep their types, for any *)
(* plugins, routers and requests.                                          *)
THEOREM TypeCorrect == Spec => []TypeOK
<1>1. TypeInv => TypeOK
  BY DEF TypeInv
<1> QED
  BY <1>1, TypeInvInit, TypeInvNext, PTL DEF Spec

(***************************************************************************)
(* What has been given to a plugin is a list of numbers; Exactly says that *)
(* it lists a set, in order.                                               *)
(***************************************************************************)
Exactly(g, S) ==
    /\ \A k \in 1..Len(g) : g[k] \in S
    /\ \A i \in S : \E k \in 1..Len(g) : g[k] = i
    /\ \A k \in 1..Len(g) : \A l \in 1..Len(g) : k < l => g[k] < g[l]

(* A number behind all the others is listed by appending it.               *)
LEMMA ExactlyAppend ==
    ASSUME NEW g \in Seq(Nat), NEW S, NEW h \in Nat, Exactly(g, S), \A i \in S : i < h
    PROVE  Exactly(Append(g, h), S \cup {h})
<1> DEFINE a == Append(g, h)
<1>1. /\ Len(g) \in Nat /\ Len(a) = Len(g) + 1 /\ a[Len(g) + 1] = h
      /\ \A k \in 1..Len(g) : a[k] = g[k] /\ a[k] \in S
  BY DEF Exactly
<1> HIDE DEF a
<1>2. \A k \in 1..Len(a) : k \in 1..Len(g) \/ k = Len(g) + 1
  BY <1>1
<1>3. \A k \in 1..Len(a) : a[k] \in S \cup {h}
  BY <1>1, <1>2
<1>4. ASSUME NEW i \in S \cup {h}  PROVE \E k \in 1..Len(a) : a[k] = i
  <2>1. CASE i \in S
    <3>1. PICK k \in 1..Len(g) : g[k] = i
      BY <2>1 DEF Exactly
    <3>2. k \in 1..Len(a) /\ a[k] = i
      BY <1>1, <3>1
    <3> QED
      BY <3>2
  <2>2. CASE i = h
    <3>1. Len(g) + 1 \in 1..Len(a)
      BY <1>1
    <3> QED
      BY <1>1, <2>2, <3>1
  <2> QED
    BY <2>1, <2>2
<1>5. ASSUME NEW k \in 1..Len(a), NEW l \in 1..Len(a), k < l  PROVE a[k] < a[l]
  <2>1. k \in 1..Len(g)
    BY <1>1, <1>5
  <2>2. CASE l \in 1..Len(g)
    BY <1>1, <1>5, <2>1, <2>2 DEF Exactly
  <2>3. CASE l = Len(g) + 1
    BY <1>1, <2>1, <2>3
  <2> QED
    BY <1>2, <2>2, <2>3
<1> QED
  BY <1>3, <1>4, <1>5 DEF Exactly, a

(* A list of a set has as many entries as the set has elements.            *)
LEMMA ExactlyCounts ==
    ASSUME NEW g \in Seq(Nat), NEW S, Exactly(g, S)
    PROVE  Cardinality(S) = Len(g)
<1>1. Len(g) \in Nat /\ g \in [1..Len(g) -> Nat]
  BY LenProperties
<1>2. g \in [1..Len(g) -> S]
  BY <1>1 DEF Exactly
<1>3. ASSUME NEW k \in 1..Len(g), NEW l \in 1..Len(g), g[k] = g[l]  PROVE k = l
  <2>1. g[k] \in Nat /\ ~(g[k] < g[l]) /\ ~(g[l] < g[k])
    BY <1>1, <1>3
  <2>2. ~(k < l) /\ ~(l < k)
    BY <2>1 DEF Exactly
  <2> QED
    BY <1>1, <2>2
<1>4. \A i \in S : \E k \in 1..Len(g) : g[k] = i
  BY DEF Exactly
<1>5. g \in Bijection(1..Len(g), S)
  BY <1>2, <1>3, <1>4 DEF Bijection, Injection, Surjection, IsInjective
<1> QED
  BY <1>1, <1>5, FS_CountingElements DEF ExistsBijection

(***************************************************************************)
(* A batch is the end of what the index has passed.  Cut is the event up   *)
(* to which a plugin has been served.                                      *)
(***************************************************************************)
Consecutive(b, last) ==
    /\ Len(b) <= last
    /\ \A k \in 1..Len(b) : b[k] = (last - Len(b)) + k

Cut(b, w, last, p) ==
    IF b = <<>> THEN last
    ELSE IF p \in w THEN b[1] - 1 ELSE b[1]

Served(p, l, n) == {i \in 1..n : PluginSubscribes(p, l[i])}

(* What is ahead of a plugin is what the index has passed beyond its cut.  *)
LEMMA AheadOfCut ==
    ASSUME NEW b \in Seq(Nat), NEW last \in Nat, Consecutive(b, last), NEW w, NEW p
    PROVE  /\ Cut(b, w, last, p) \in 0..last
           /\ \A i \in 1..last :
                 (\E k \in 1..Len(b) : (k > 1 \/ p \in w) /\ b[k] = i) <=> i > Cut(b, w, last, p)
<1>1. CASE b = <<>>
  BY <1>1 DEF Cut
<1>2. CASE b # <<>>
  <2>1. Len(b) \in Nat /\ Len(b) > 0 /\ 1 \in 1..Len(b)
    BY <1>2, TailOfSeq
  <2>2. b[1] = (last - Len(b)) + 1 /\ b[1] \in 1..last
    BY <2>1 DEF Consecutive
  <2> DEFINE c == Cut(b, w, last, p)
  <2>3. c \in 0..last /\ c = IF p \in w THEN b[1] - 1 ELSE b[1]
    BY <1>2, <2>1, <2>2 DEF Cut
  <2> HIDE DEF c
  <2>4. ASSUME NEW i \in 1..last, NEW k \in 1..Len(b), k > 1 \/ p \in w, b[k] = i  PROVE i > c
    <3>1. i = (last - Len(b)) + k
      BY <2>4 DEF Consecutive
    <3> QED
      BY <2>1, <2>2, <2>3, <2>4, <3>1
  <2>5. ASSUME NEW i \in 1..last, i > c  PROVE \E k \in 1..Len(b) : (k > 1 \/ p \in w) /\ b[k] = i
    <3> DEFINE k == i - (last - Len(b))
    <3>1. k \in 1..Len(b) /\ (k > 1 \/ p \in w) /\ (last - Len(b)) + k = i
      BY <2>1, <2>2, <2>3, <2>5
    <3> HIDE DEF k
    <3>2. b[k] = i
      BY <3>1 DEF Consecutive
    <3> QED
      BY <3>1, <3>2
  <2>6. \A i \in 1..last :
           (\E k \in 1..Len(b) : (k > 1 \/ p \in w) /\ b[k] = i) <=> i > c
    BY <2>4, <2>5
  <2> QED
    BY <2>3, <2>6 DEF c
<1> QED
  BY <1>1, <1>2

(***************************************************************************)
(* The invariant, for the one router there is: its cycle began with an     *)
(* index that the index read from the bus has not fallen behind, its batch *)
(* ends where the index is, and each plugin has exactly what it subscribes *)
(* to up to its cut.  Without a router nothing is read.                    *)
(***************************************************************************)
GivenTo(r, p) ==
    Exactly(given[p], Served(p, log, Cut(batch[r], waiting[r], lastIndex, p)))

DeliveryInv ==
    /\ Routers = {} => lastIndex = 0 /\ \A p \in Plugins : given[p] = <<>>
    /\ \A r \in Routers : Routers = {r} =>
          /\ rpc[r] = "read" => lastIndex <= seen[r]
          /\ Consecutive(batch[r], lastIndex)
          /\ \A p \in Plugins : GivenTo(r, p)

LEMMA ServedSame ==
    ASSUME NEW p, NEW l \in Seq(EventTypes), NEW m, NEW n \in 0..Len(l),
           \A i \in 1..Len(l) : m[i] = l[i]
    PROVE  Served(p, m, n) = Served(p, l, n)
  BY DEF Served

(* The places in a plugin's list and its cut are numbers of the log.       *)
LEMMA DeliveryTypes ==
    ASSUME TypeInv, NEW r \in Routers, Consecutive(batch[r], lastIndex)
    PROVE  /\ lastIndex \in Nat /\ Len(log) \in Nat /\ lastIndex <= Len(log)
           /\ log \in Seq(EventTypes) /\ batch[r] \in Seq(Nat)
           /\ \A p \in Plugins : /\ given[p] \in Seq(Nat)
                                 /\ Cut(batch[r], waiting[r], lastIndex, p) \in 0..lastIndex
                                 /\ Cut(batch[r], waiting[r], lastIndex, p) \in 0..Len(log)
<1>1. /\ lastIndex \in Nat /\ Len(log) \in Nat /\ lastIndex <= Len(log)
      /\ log \in Seq(EventTypes) /\ batch[r] \in Seq(Nat)
      /\ \A p \in Plugins : given[p] \in Seq(Nat)
  BY DEF TypeInv, TypeOK
<1>2. \A p \in Plugins : Cut(batch[r], waiting[r], lastIndex, p) \in 0..lastIndex
  BY <1>1, AheadOfCut
<1>3. 0..lastIndex \subseteq 0..Len(log)
  BY <1>1
<1> QED
  BY <1>1, <1>2, <1>3

(* Publishing and what the plugins' records go through deliver nothing.    *)
LEMMA DeliverySame ==
    ASSUME TypeInv, DeliveryInv, UNCHANGED <<lastIndex, rpc, seen, batch, waiting, given>>,
           UNCHANGED log \/ \E t \in EventTypes : Publish(t)
    PROVE  DeliveryInv'
<1>1. \A i \in 1..Len(log) : log'[i] = log[i]
  <2>1. log \in Seq(EventTypes)
    BY DEF TypeInv, TypeOK
  <2>2. ASSUME NEW t \in EventTypes, Publish(t)  PROVE \A i \in 1..Len(log) : log'[i] = log[i]
    BY <2>1, <2>2, AppendsOne DEF Publish
  <2> QED
    BY <2>2
<1> HIDE DEF Publish
<1>2. ASSUME NEW r \in Routers, Routers = {r}
      PROVE  /\ (rpc[r] = "read" => lastIndex <= seen[r])'
             /\ Consecutive(batch[r], lastIndex)'
             /\ \A p \in Plugins : GivenTo(r, p)'
  <2>1. /\ rpc[r] = "read" => lastIndex <= seen[r]
        /\ Consecutive(batch[r], lastIndex)
        /\ \A p \in Plugins : GivenTo(r, p)
    BY <1>2 DEF DeliveryInv
  <2>2. ASSUME NEW p \in Plugins  PROVE GivenTo(r, p)'
    <3> DEFINE c == Cut(batch[r], waiting[r], lastIndex, p)
    <3>1. c \in 0..Len(log) /\ log \in Seq(EventTypes)
      BY <2>1, DeliveryTypes
    <3>2. Served(p, log', c) = Served(p, log, c)
      BY <1>1, <3>1, ServedSame
    <3>3. Exactly(given[p], Served(p, log, c))
      BY <2>1 DEF GivenTo
    <3>4. Exactly(given'[p], Served(p, log', Cut(batch'[r], waiting'[r], lastIndex', p)))
      BY <3>2, <3>3
    <3> QED
      BY <3>4 DEF GivenTo
  <2> QED
    BY <2>1, <2>2
<1>3. Routers = {} => lastIndex' = 0 /\ \A p \in Plugins : given'[p] = <<>>
  BY DEF DeliveryInv
<1> QED
  BY <1>2, <1>3 DEF DeliveryInv

(* At the start nobody has been given anything, and nothing is due.        *)
LEMMA NothingGiven ==
    ASSUME NEW w, NEW p
    PROVE  Exactly(<<>>, Served(p, <<>>, Cut(<<>>, w, 0, p))) /\ Consecutive(<<>>, 0)
<1>1. Len(<<>>) = 0
  OBVIOUS
<1>2. Cut(<<>>, w, 0, p) = 0
  BY DEF Cut
<1>3. Served(p, <<>>, 0) = {}
  BY DEF Served
<1>4. Exactly(<<>>, {}) /\ Consecutive(<<>>, 0)
  BY <1>1 DEF Exactly, Consecutive
<1> QED
  BY <1>2, <1>3, <1>4

LEMMA DeliveryInit == Init => DeliveryInv
<1> SUFFICES ASSUME Init  PROVE DeliveryInv
  OBVIOUS
<1>1. /\ log = <<>> /\ lastIndex = 0
      /\ \A r \in Routers : rpc[r] = "idle" /\ batch[r] = <<>>
      /\ \A p \in Plugins : given[p] = <<>>
  BY DEF Init, BusInit
<1>2. ASSUME NEW r \in Routers, NEW p \in Plugins  PROVE GivenTo(r, p)
  BY <1>1, NothingGiven DEF GivenTo
<1>3. \A r \in Routers : Consecutive(batch[r], lastIndex) /\ rpc[r] # "read"
  BY <1>1, NothingGiven
<1> QED
  BY <1>1, <1>2, <1>3 DEF DeliveryInv

(* Taking a batch moves the index and nobody's cut.                        *)
LEMMA BatchRead ==
    ASSUME NEW last \in Nat, NEW n \in Nat, last <= n,
           NEW b, b = [k \in 1..(n - last) |-> last + k]
    PROVE  /\ Consecutive(b, n)
           /\ b = <<>> => n = last
           /\ b # <<>> => b[1] - 1 = last
<1>1. n - last \in Nat /\ n - last <= n /\ n - (n - last) = last
  OBVIOUS
<1>2. \A k \in 1..(n - last) : last + k \in Nat
  OBVIOUS
<1>3. b \in Seq(Nat) /\ Len(b) = n - last /\ \A k \in 1..Len(b) : b[k] = last + k
  BY <1>1, <1>2
<1>4. Consecutive(b, n)
  BY <1>1, <1>3 DEF Consecutive
<1>5. ASSUME b = <<>>  PROVE n = last
  <2>1. Len(b) = 0
    BY <1>5
  <2> QED
    BY <1>3, <2>1
<1>6. ASSUME b # <<>>  PROVE b[1] - 1 = last
  <2>1. 1 \in 1..Len(b)
    BY <1>3, <1>6, EmptySeq
  <2>2. b[1] = last + 1
    BY <1>3, <2>1
  <2> QED
    BY <2>2
<1> QED
  BY <1>4, <1>5, <1>6

(* Going on to the next event moves nobody's cut either.                   *)
LEMMA NextEventCut ==
    ASSUME NEW last \in Nat, NEW b \in Seq(Nat), b # <<>>, Consecutive(b, last)
    PROVE  /\ Consecutive(Tail(b), last)
           /\ \A p, w : (Len(b) > 1 => p \in w) =>
                 Cut(Tail(b), w, last, p) = Cut(b, {}, last, p)
<1>1. /\ Len(b) \in Nat /\ Len(b) > 0 /\ Tail(b) \in Seq(Nat) /\ Len(Tail(b)) = Len(b) - 1
      /\ \A k \in 1..(Len(b) - 1) : Tail(b)[k] = b[k + 1]
      /\ Tail(b) = <<>> <=> ~(Len(b) > 1)
  BY TailOfSeq
<1>2. Len(b) <= last /\ \A k \in 1..Len(b) : b[k] = (last - Len(b)) + k
  BY DEF Consecutive
<1>3. Consecutive(Tail(b), last)
  <2>1. Len(Tail(b)) <= last
    BY <1>1, <1>2
  <2>2. ASSUME NEW k \in 1..Len(Tail(b))  PROVE Tail(b)[k] = (last - Len(Tail(b))) + k
    <3>1. k \in 1..(Len(b) - 1) /\ k + 1 \in 1..Len(b)
      BY <1>1
    <3>2. Tail(b)[k] = (last - Len(b)) + (k + 1)
      BY <1>1, <1>2, <3>1
    <3> QED
      BY <1>1, <3>2
  <2> QED
    BY <2>1, <2>2 DEF Consecutive
<1>4. \A p : Cut(b, {}, last, p) = (last - Len(b)) + 1
  BY <1>1, <1>2 DEF Cut
<1>5. ASSUME NEW p, NEW w, Len(b) > 1, p \in w
      PROVE  Cut(Tail(b), w, last, p) = Cut(b, {}, last, p)
  <2>1. 1 \in 1..(Len(b) - 1) /\ 2 \in 1..Len(b)
    BY <1>1, <1>5
  <2>2. Tail(b)[1] = (last - Len(b)) + 2
    BY <1>1, <1>2, <2>1
  <2>3. Tail(b) # <<>>
    BY <1>1, <1>5
  <2>4. Cut(Tail(b), w, last, p) = Tail(b)[1] - 1
    BY <1>5, <2>3 DEF Cut
  <2>5. ((last - Len(b)) + 2) - 1 = (last - Len(b)) + 1
    BY <1>1
  <2> QED
    BY <1>4, <2>2, <2>4, <2>5
<1>6. ASSUME NEW p, NEW w, ~(Len(b) > 1)
      PROVE  Cut(Tail(b), w, last, p) = Cut(b, {}, last, p)
  <2>1. Len(b) = 1 /\ Tail(b) = <<>>
    BY <1>1, <1>6
  <2>2. Cut(Tail(b), w, last, p) = last
    BY <2>1 DEF Cut
  <2> QED
    BY <1>4, <2>1, <2>2
<1> QED
  BY <1>3, <1>5, <1>6

(* The router's cycle, once it is known what becomes of every plugin's cut *)
(* and list.                                                               *)
RouterInv(r) ==
    /\ rpc[r] = "read" => lastIndex <= seen[r]
    /\ Consecutive(batch[r], lastIndex)
    /\ \A p \in Plugins : GivenTo(r, p)

LEMMA ReadBusDelivers ==
    ASSUME TypeInv, NEW r \in Routers, RouterInv(r), ReadBus(r)
    PROVE  RouterInv(r)'
<1>1. /\ seen' = [seen EXCEPT ![r] = Len(log)]
      /\ UNCHANGED <<log, lastIndex, batch, waiting, given>>
  BY DEF ReadBus
<1>2. seen'[r] = Len(log) /\ lastIndex <= Len(log)
  BY <1>1 DEF TypeInv, TypeOK
<1> QED
  BY <1>1, <1>2 DEF RouterInv, GivenTo

LEMMA TakeBatchDelivers ==
    ASSUME TypeInv, NEW r \in Routers, RouterInv(r), TakeBatch(r)
    PROVE  RouterInv(r)'
<1> DEFINE b == [k \in 1..(seen[r] - lastIndex) |-> lastIndex + k]
<1>1. rpc[r] = "read" /\ lastIndex <= seen[r] /\ lastIndex \in Nat /\ seen[r] \in Nat
  BY DEF TakeBatch, RouterInv, TypeInv, TypeOK
<1>2. batch[r] = <<>>
  BY <1>1 DEF TypeInv
<1>3. ~(seen[r] < lastIndex)
  BY <1>1
<1>4. /\ batch' = [batch EXCEPT ![r] = b] /\ lastIndex' = seen[r]
      /\ rpc' = [rpc EXCEPT ![r] = IF batch'[r] = <<>> THEN "idle" ELSE "dispatching"]
      /\ waiting' = [waiting EXCEPT ![r] = IF batch'[r] = <<>> THEN {} ELSE Plugins]
      /\ UNCHANGED <<log, seen, given>>
  BY <1>3 DEF TakeBatch
<1> HIDE DEF b
<1>5. batch'[r] = b
  BY <1>4 DEF TypeInv
<1>6. waiting'[r] = IF b = <<>> THEN {} ELSE Plugins
  BY <1>4, <1>5 DEF TypeInv, TypeOK
<1>7. rpc'[r] # "read"
  BY <1>4 DEF TypeInv, TypeOK
<1>8. b = [k \in 1..(seen[r] - lastIndex) |-> lastIndex + k]
  BY DEF b
<1>9. /\ Consecutive(b, seen[r])
      /\ b = <<>> => seen[r] = lastIndex
      /\ b # <<>> => b[1] - 1 = lastIndex
  BY <1>1, <1>8, BatchRead
<1>10. ASSUME NEW p \in Plugins  PROVE GivenTo(r, p)'
  <2>1. Cut(batch'[r], waiting'[r], lastIndex', p) = lastIndex
    <3>1. lastIndex' = seen[r]
      BY <1>4
    <3>2. CASE b = <<>>
      BY <1>5, <1>9, <3>1, <3>2 DEF Cut
    <3>3. CASE b # <<>>
      <4>1. p \in waiting'[r]
        BY <1>6, <3>3
      <4> QED
        BY <1>5, <1>9, <3>3, <4>1 DEF Cut
    <3> QED
      BY <3>2, <3>3
  <2>2. Cut(batch[r], waiting[r], lastIndex, p) = lastIndex
    BY <1>2 DEF Cut
  <2>3. Exactly(given[p], Served(p, log, lastIndex))
    BY <2>2 DEF RouterInv, GivenTo
  <2>4. given' = given /\ log' = log
    BY <1>4
  <2>5. Exactly(given'[p], Served(p, log', Cut(batch'[r], waiting'[r], lastIndex', p)))
    BY <2>1, <2>3, <2>4
  <2> QED
    BY <2>5 DEF GivenTo
<1>11. Consecutive(batch'[r], lastIndex')
  BY <1>4, <1>5, <1>9
<1> QED
  BY <1>7, <1>10, <1>11 DEF RouterInv

(* A plugin's turn moves its cut on by the event at the head.              *)
LEMMA TurnCut ==
    ASSUME NEW last \in Nat, NEW b \in Seq(Nat), b # <<>>, Consecutive(b, last),
           NEW w, NEW v, NEW p, p \in w, p \notin v, NEW l
    PROVE  /\ Head(b) \in Nat /\ \A i \in Served(p, l, Cut(b, w, last, p)) : i < Head(b)
           /\ PluginSubscribes(p, l[Head(b)]) =>
                 Served(p, l, Cut(b, v, last, p)) = Served(p, l, Cut(b, w, last, p)) \cup {Head(b)}
           /\ ~PluginSubscribes(p, l[Head(b)]) =>
                 Served(p, l, Cut(b, v, last, p)) = Served(p, l, Cut(b, w, last, p))
<1> DEFINE h == Head(b)
<1>1. /\ h = b[1] /\ Len(b) \in Nat /\ 1 \in 1..Len(b)
  BY TailOfSeq
<1>2. h = (last - Len(b)) + 1 /\ Len(b) <= last
  BY <1>1 DEF Consecutive
<1>3. h \in Nat /\ h >= 1
  BY <1>1, <1>2
<1>4. Cut(b, w, last, p) = h - 1 /\ Cut(b, v, last, p) = h
  BY <1>1 DEF Cut
<1> HIDE DEF h
<1>5. 1..h = (1..(h - 1)) \cup {h} /\ \A i \in 1..(h - 1) : i < h
  BY <1>3
<1>6. /\ \A i \in Served(p, l, h - 1) : i < h
      /\ PluginSubscribes(p, l[h]) => Served(p, l, h) = Served(p, l, h - 1) \cup {h}
      /\ ~PluginSubscribes(p, l[h]) => Served(p, l, h) = Served(p, l, h - 1)
  BY <1>5 DEF Served
<1> QED
  BY <1>3, <1>4, <1>6 DEF h

LEMMA PassDelivers ==
    ASSUME TypeInv, NEW r \in Routers, RouterInv(r), NEW p \in Plugins, Pass(r, p)
    PROVE  RouterInv(r)'
<1>1. /\ waiting' = [waiting EXCEPT ![r] = @ \ {p}] /\ p \in waiting[r] /\ rpc[r] = "dispatching"
      /\ UNCHANGED <<log, lastIndex, rpc, seen, batch, given>>
      /\ ~PluginSubscribes(p, log[Head(batch[r])])
  BY DEF Pass
<1>2. waiting'[r] = waiting[r] \ {p}
  BY <1>1 DEF TypeInv, TypeOK
<1>3. batch[r] # <<>> /\ batch[r] \in Seq(Nat) /\ lastIndex \in Nat
  BY <1>1 DEF TypeInv, TypeOK
<1>4. Consecutive(batch[r], lastIndex) /\ \A q \in Plugins : GivenTo(r, q)
  BY DEF RouterInv
<1>5. ASSUME NEW q \in Plugins  PROVE GivenTo(r, q)'
  <2>1. Served(q, log, Cut(batch[r], waiting'[r], lastIndex, q))
          = Served(q, log, Cut(batch[r], waiting[r], lastIndex, q))
    <3>1. CASE q = p
      <4>1. p \notin waiting'[r]
        BY <1>2
      <4>2. p \in waiting[r] /\ ~PluginSubscribes(p, log[Head(batch[r])])
        BY <1>1
      <4>3. Served(p, log, Cut(batch[r], waiting'[r], lastIndex, p))
              = Served(p, log, Cut(batch[r], waiting[r], lastIndex, p))
        BY <1>3, <1>4, <4>1, <4>2, TurnCut
      <4> QED
        BY <3>1, <4>3
    <3>2. CASE q # p
      <4>1. q \in waiting'[r] <=> q \in waiting[r]
        BY <1>2, <3>2
      <4> QED
        BY <4>1 DEF Cut
    <3> QED
      BY <3>1, <3>2
  <2>2. Exactly(given'[q], Served(q, log', Cut(batch'[r], waiting'[r], lastIndex', q)))
    BY <1>1, <1>2, <1>4, <2>1 DEF GivenTo
  <2> QED
    BY <2>2 DEF GivenTo
<1> QED
  BY <1>1, <1>5 DEF RouterInv

LEMMA HandleDelivers ==
    ASSUME TypeInv, NEW r \in Routers, RouterInv(r), NEW p \in Plugins, Handle(r, p)
    PROVE  RouterInv(r)'
<1> DEFINE h == Head(batch[r])
<1>1. /\ waiting' = [waiting EXCEPT ![r] = @ \ {p}] /\ p \in waiting[r] /\ rpc[r] = "dispatching"
      /\ given' = [given EXCEPT ![p] = Append(@, h)]
      /\ UNCHANGED <<log, lastIndex, rpc, seen, batch>>
      /\ PluginSubscribes(p, log[h])
  BY DEF Handle
<1>2. waiting'[r] = waiting[r] \ {p}
  BY <1>1 DEF TypeInv, TypeOK
<1>3. batch[r] # <<>> /\ batch[r] \in Seq(Nat) /\ lastIndex \in Nat
  BY <1>1 DEF TypeInv, TypeOK
<1>4. Consecutive(batch[r], lastIndex) /\ \A q \in Plugins : GivenTo(r, q)
  BY DEF RouterInv
<1>5. ASSUME NEW q \in Plugins  PROVE GivenTo(r, q)'
  <2> DEFINE before == Served(q, log, Cut(batch[r], waiting[r], lastIndex, q))
             after == Served(q, log, Cut(batch[r], waiting'[r], lastIndex, q))
  <2>1. Exactly(given[q], before) /\ given[q] \in Seq(Nat)
    BY <1>4 DEF GivenTo, TypeInv
  <2>2. Exactly(given'[q], after)
    <3>1. CASE q = p
      <4>1. /\ h \in Nat /\ \A i \in before : i < h
            /\ after = before \cup {h}
        <5>1. p \notin waiting'[r]
          BY <1>2
        <5>2. p \in waiting[r] /\ PluginSubscribes(p, log[Head(batch[r])])
          BY <1>1
        <5>3. /\ Head(batch[r]) \in Nat
              /\ \A i \in Served(p, log, Cut(batch[r], waiting[r], lastIndex, p)) : i < Head(batch[r])
              /\ Served(p, log, Cut(batch[r], waiting'[r], lastIndex, p))
                   = Served(p, log, Cut(batch[r], waiting[r], lastIndex, p)) \cup {Head(batch[r])}
          BY <1>3, <1>4, <5>1, <5>2, TurnCut
        <5> QED
          BY <3>1, <5>3
      <4>2. given'[q] = Append(given[q], h)
        BY <1>1, <3>1 DEF TypeInv
      <4> HIDE DEF before, after, h
      <4>3. Exactly(Append(given[q], h), before \cup {h})
        BY <2>1, <4>1, ExactlyAppend
      <4> QED
        BY <4>1, <4>2, <4>3
    <3>2. CASE q # p
      <4>1. given'[q] = given[q]
        BY <1>1, <3>2 DEF TypeInv
      <4>2. after = before
        <5>1. q \in waiting'[r] <=> q \in waiting[r]
          BY <1>2, <3>2
        <5> QED
          BY <5>1 DEF Cut
      <4> QED
        BY <2>1, <4>1, <4>2
    <3> QED
      BY <3>1, <3>2
  <2>3. Exactly(given'[q], Served(q, log', Cut(batch'[r], waiting'[r], lastIndex', q)))
    BY <1>1, <1>2, <2>2
  <2> QED
    BY <2>3 DEF GivenTo
<1> QED
  BY <1>1, <1>4, <1>5 DEF RouterInv

LEMMA NextEventDelivers ==
    ASSUME TypeInv, NEW r \in Routers, RouterInv(r), NextEvent(r)
    PROVE  RouterInv(r)'
<1>1. /\ rpc[r] = "dispatching" /\ waiting[r] = {}
      /\ batch' = [batch EXCEPT ![r] = Tail(@)]
      /\ waiting' = [waiting EXCEPT ![r] = IF Len(batch[r]) > 1 THEN Plugins ELSE {}]
      /\ rpc' = [rpc EXCEPT ![r] = IF Len(batch[r]) > 1 THEN "dispatching" ELSE "idle"]
      /\ UNCHANGED <<log, lastIndex, seen, given>>
  BY DEF NextEvent
<1>2. batch'[r] = Tail(batch[r]) /\ waiting'[r] = IF Len(batch[r]) > 1 THEN Plugins ELSE {}
  BY <1>1 DEF TypeInv, TypeOK
<1>3. rpc'[r] # "read"
  BY <1>1 DEF TypeInv, TypeOK
<1>4. batch[r] # <<>> /\ batch[r] \in Seq(Nat) /\ lastIndex \in Nat
  BY <1>1 DEF TypeInv, TypeOK
<1>5. Consecutive(batch[r], lastIndex) /\ \A p \in Plugins : GivenTo(r, p)
  BY DEF RouterInv
<1>6. /\ Consecutive(Tail(batch[r]), lastIndex)
      /\ \A p, w : (Len(batch[r]) > 1 => p \in w) =>
            Cut(Tail(batch[r]), w, lastIndex, p) = Cut(batch[r], {}, lastIndex, p)
  BY <1>4, <1>5, NextEventCut
<1>7. \A p \in Plugins : Cut(Tail(batch[r]), waiting'[r], lastIndex, p) = Cut(batch[r], {}, lastIndex, p)
  BY <1>2, <1>6
<1>8. ASSUME NEW p \in Plugins  PROVE GivenTo(r, p)'
  <2>1. Exactly(given[p], Served(p, log, Cut(batch[r], {}, lastIndex, p)))
    BY <1>1, <1>5 DEF GivenTo
  <2>2. Exactly(given'[p], Served(p, log', Cut(batch'[r], waiting'[r], lastIndex', p)))
    BY <1>1, <1>2, <1>7, <2>1
  <2> QED
    BY <2>2 DEF GivenTo
<1> QED
  BY <1>1, <1>2, <1>3, <1>6, <1>8 DEF RouterInv

LEMMA DeliveryNext == TypeInv /\ DeliveryInv /\ [Next]_vars => DeliveryInv'
<1> SUFFICES ASSUME TypeInv, DeliveryInv, [Next]_vars  PROVE DeliveryInv'
  OBVIOUS
<1>1. ASSUME UNCHANGED <<log, lastIndex, rpc, seen, batch, waiting, given>>  PROVE DeliveryInv'
  BY <1>1, DeliverySame
<1>2. CASE Event
  <2>1. \E t \in EventTypes : Publish(t)
    BY <1>2 DEF Event
  <2>2. UNCHANGED <<lastIndex, rpc, seen, batch, waiting, given>>
    BY <1>2 DEF Event
  <2> QED
    BY <2>1, <2>2, DeliverySame
<1>3. CASE Restart
  <2>1. /\ log' = <<>> /\ lastIndex' = 0
        /\ \A r \in Routers : rpc'[r] = "idle" /\ batch'[r] = <<>>
        /\ \A p \in Plugins : given'[p] = <<>>
    BY <1>3 DEF Restart
  <2>2. ASSUME NEW r \in Routers, NEW p \in Plugins  PROVE GivenTo(r, p)'
    <3>1. Exactly(given'[p], Served(p, log', Cut(batch'[r], waiting'[r], lastIndex', p)))
      BY <2>1, NothingGiven
    <3> QED
      BY <3>1 DEF GivenTo
  <2>3. \A r \in Routers : Consecutive(batch'[r], lastIndex') /\ rpc'[r] # "read"
    BY <2>1, NothingGiven
  <2> QED
    BY <2>1, <2>2, <2>3 DEF DeliveryInv
<1>4. ASSUME NEW r \in Routers, RouterStep(r)  PROVE DeliveryInv'
  <2>1. CASE ActOnOutputs(r)
    <3>1. UNCHANGED <<lastIndex, rpc, seen, batch, waiting, given>>
      BY <2>1 DEF ActOnOutputs
    <3>2. outputs[r] \in Plugins
      BY <2>1 DEF ActOnOutputs, TypeInv, TypeOK
    <3>3. IF Emits[outputs[r]] = Nothing THEN UNCHANGED log ELSE Publish(Emits[outputs[r]])
      BY <2>1 DEF ActOnOutputs
    <3>4. UNCHANGED log \/ \E t \in EventTypes : Publish(t)
      <4>1. CASE Emits[outputs[r]] = Nothing
        BY <3>3, <4>1
      <4>2. CASE Emits[outputs[r]] # Nothing
        <5>1. Emits[outputs[r]] \in EventTypes
          BY <3>2, <4>2, PluginAssumption
        <5> QED
          BY <3>3, <4>2, <5>1
      <4> QED
        BY <4>1, <4>2
    <3> QED
      BY <3>1, <3>4, DeliverySame
  <2>2. CASE ~ActOnOutputs(r)
    <3>1. \/ ReadBus(r) \/ TakeBatch(r) \/ NextEvent(r)
          \/ \E p \in Plugins : Pass(r, p) \/ Handle(r, p)
      BY <1>4, <2>2 DEF RouterStep
    <3>2. ASSUME Routers = {r}  PROVE RouterInv(r)'
      <4>1. RouterInv(r)
        BY <3>2 DEF DeliveryInv, RouterInv
      <4>2. ASSUME NEW p \in Plugins, Pass(r, p) \/ Handle(r, p)  PROVE RouterInv(r)'
        BY <4>1, <4>2, PassDelivers, HandleDelivers
      <4>3. ReadBus(r) => RouterInv(r)'
        BY <4>1, ReadBusDelivers
      <4>4. TakeBatch(r) => RouterInv(r)'
        BY <4>1, TakeBatchDelivers
      <4>5. NextEvent(r) => RouterInv(r)'
        BY <4>1, NextEventDelivers
      <4> QED
        BY <3>1, <4>2, <4>3, <4>4, <4>5
    <3>3. ASSUME NEW s \in Routers, Routers = {s}
          PROVE  /\ (rpc[s] = "read" => lastIndex <= seen[s])'
                 /\ Consecutive(batch[s], lastIndex)'
                 /\ \A p \in Plugins : GivenTo(s, p)'
      <4>1. s = r /\ Routers = {r}
        BY <3>3
      <4> QED
        BY <3>2, <4>1 DEF RouterInv
    <3> QED
      BY <3>3 DEF DeliveryInv
  <2> QED
    BY <2>1, <2>2
<1>5. ASSUME NEW p \in Plugins, StartPlugin(p) \/ TickHealth(p) \/ Reload(p) \/ Reregister(p)
      PROVE  DeliveryInv'
  BY <1>1, <1>5 DEF StartPlugin, TickHealth, Reload, Reregister
<1>6. ASSUME NEW q \in Requests, RequestStep(q) \/ \E p \in Plugins : BeginRestart(q, p)
      PROVE  DeliveryInv'
  BY <1>1, <1>6 DEF RequestStep, ResetRecord, EndRestart, BeginRestart
<1>7. CASE UNCHANGED vars
  BY <1>1, <1>7 DEF vars
<1> QED
  BY <1>2, <1>3, <1>4, <1>5, <1>6, <1>7 DEF Next

LEMMA OnceFollows == TypeInv /\ DeliveryInv => GivenOnce
<1> SUFFICES ASSUME TypeInv, DeliveryInv, Cardinality(Routers) <= 1, NEW p \in Plugins
             PROVE  /\ Len(given[p]) = Cardinality(Due(p))
                    /\ \A k \in DOMAIN given[p] : given[p][k] \in Due(p)
                    /\ \A k \in DOMAIN given[p], l \in DOMAIN given[p] :
                          k < l => given[p][k] < given[p][l]
  BY DEF GivenOnce
<1>1. given[p] \in Seq(Nat) /\ DOMAIN given[p] = 1..Len(given[p])
  BY DEF TypeInv
<1>2. Exactly(given[p], Due(p))
  <2>1. CASE Routers = {}
    <3>1. lastIndex = 0 /\ given[p] = <<>>
      BY <2>1 DEF DeliveryInv
    <3>2. Due(p) = {}
      BY <3>1 DEF Due, Wanted
    <3>3. Len(<<>>) = 0
      OBVIOUS
    <3> QED
      BY <3>1, <3>2, <3>3 DEF Exactly
  <2>2. CASE Routers # {}
    <3>1. PICK r : Routers = {r}
      <4>1. IsFiniteSet(Routers)
        BY PluginAssumption
      <4>2. Cardinality(Routers) \in Nat /\ Cardinality(Routers) # 0
        BY <2>2, <4>1, FS_CardinalityType, FS_EmptySet
      <4>3. Cardinality(Routers) = 1
        BY <4>2
      <4> QED
        BY <4>1, <4>3, FS_Singleton
    <3>2. r \in Routers /\ Consecutive(batch[r], lastIndex) /\ GivenTo(r, p)
      BY <3>1 DEF DeliveryInv
    <3>3. lastIndex \in Nat /\ batch[r] \in Seq(Nat) /\ DOMAIN batch[r] = 1..Len(batch[r])
      BY <3>2 DEF TypeInv, TypeOK
    <3> DEFINE c == Cut(batch[r], waiting[r], lastIndex, p)
    <3>4. c \in 0..lastIndex
      BY <3>2, <3>3, AheadOfCut
    <3>5. \A i \in 1..lastIndex :
             (\E k \in 1..Len(batch[r]) : (k > 1 \/ p \in waiting[r]) /\ batch[r][k] = i) <=> i > c
      BY <3>2, <3>3, AheadOfCut
    <3>6. Exactly(given[p], Served(p, log, c))
      BY <3>2 DEF GivenTo
    <3> HIDE DEF c
    <3>7. Due(p) = {i \in Wanted(p) : ~ \E k \in Ahead(r, p) : batch[r][k] = i}
      BY <3>1 DEF Due
    <3>8. \A i \in 1..lastIndex : (\E k \in Ahead(r, p) : batch[r][k] = i) <=> i > c
      BY <3>5 DEF Ahead
    <3>9. Due(p) = {i \in Wanted(p) : ~(i > c)}
      BY <3>7, <3>8 DEF Wanted
    <3>10. \A i : i \in 1..lastIndex /\ ~(i > c) <=> i \in 1..c
      BY <3>3, <3>4
    <3>11. Due(p) = Served(p, log, c)
      BY <3>9, <3>10 DEF Wanted, Served
    <3> QED
      BY <3>6, <3>11
  <2> QED
    BY <2>1, <2>2
<1> QED
  BY <1>1, <1>2, ExactlyCounts DEF Exactly

(* With one caller of route_once, for any plugins, subscriptions, failures *)
(* and restarts: each plugin is given exactly what it subscribes to of     *)
(* what the index has passed and is not still in the batch, once and in    *)
(* the log's order.                                                        *)
THEOREM GivenAlwaysOnce == Spec => []GivenOnce
<1>1. Init => TypeInv /\ DeliveryInv
  BY TypeInvInit, DeliveryInit
<1>2. TypeInv /\ DeliveryInv /\ [Next]_vars => TypeInv' /\ DeliveryInv'
  BY TypeInvNext, DeliveryNext
<1> QED
  BY <1>1, <1>2, OnceFollows, PTL DEF Spec
===============================================================================
