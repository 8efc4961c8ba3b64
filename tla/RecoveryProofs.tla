----------------------------- MODULE RecoveryProofs -----------------------------
(***************************************************************************)
(* Theorems of Recovery, for any thresholds, windows, numbers of loops and *)
(* clients, and bounds.  They hold of Spec, whatever is fair.              *)
(***************************************************************************)
EXTENDS Recovery, TLAPS

(* record_event keeps a history of events and lets it grow no longer than  *)
(* MaxHistory (recovery.rs record_event).                                  *)
LEMMA RecordEventType ==
    ASSUME RecoveryAssumption,
           NEW h \in Seq(RecoveryEvent), Len(h) <= MaxHistory,
           NEW p \in Statuses, NEW s \in Statuses
    PROVE  /\ RecordEvent(h, p, s) \in Seq(RecoveryEvent)
           /\ Len(RecordEvent(h, p, s)) <= MaxHistory
<1> DEFINE e == [status |-> s, previous |-> p]
           longer == <<e>> \o h
<1>1. e \in RecoveryEvent
  BY DEF RecoveryEvent
<1>2. longer \in Seq(RecoveryEvent) /\ Len(longer) = Len(h) + 1
  BY <1>1
<1>3. MaxHistory \in Nat
  BY DEF RecoveryAssumption
<1>4. CASE Len(longer) > MaxHistory
  <2>1. RecordEvent(h, p, s) = SubSeq(longer, 1, MaxHistory)
    BY <1>4 DEF RecordEvent
  <2> HIDE DEF longer, e
  <2> QED
    BY <1>2, <1>3, <1>4, <2>1
<1>5. CASE ~(Len(longer) > MaxHistory)
  <2>1. RecordEvent(h, p, s) = longer
    BY <1>5 DEF RecordEvent
  <2> HIDE DEF longer, e
  <2> QED
    BY <1>2, <1>3, <1>5, <2>1
<1> QED
  BY <1>4, <1>5

(* A transition recorded against the status it found extends the chain,    *)
(* also when the oldest entry is dropped for it (recovery.rs record_event).*)
LEMMA RecordEventChains ==
    ASSUME RecoveryAssumption, MaxHistory > 0,
           NEW h \in Seq(RecoveryEvent),
           NEW p \in Statuses, NEW s \in Statuses, Chained(h, p)
    PROVE  Chained(RecordEvent(h, p, s), s)
<1> DEFINE e == [status |-> s, previous |-> p]
           longer == <<e>> \o h
<1>1. e \in RecoveryEvent /\ e.status = s /\ e.previous = p
  BY DEF RecoveryEvent
<1>2. longer \in Seq(RecoveryEvent) /\ Len(longer) = Len(h) + 1 /\ longer[1] = e
  BY <1>1
<1>3. \A i \in 2..Len(longer) : longer[i] = h[i - 1]
  BY <1>1, <1>2
<1>4. MaxHistory \in Nat \ {0}
  BY DEF RecoveryAssumption
<1>5. ASSUME NEW i \in 1..Len(longer), NEW j \in 1..Len(longer), j = i + 1
      PROVE  longer[i].previous = longer[j].status
  <2>1. CASE i = 1
    <3>1. longer[j] = h[1] /\ h # <<>>
      BY <1>2, <1>3, <1>5, <2>1
    <3>2. h[1].status = p
      BY <3>1 DEF Chained
    <3> HIDE DEF longer, e
    <3> QED
      BY <1>1, <1>2, <2>1, <3>1, <3>2
  <2>2. CASE i # 1
    <3>1. i - 1 \in DOMAIN h /\ j - 1 \in DOMAIN h /\ j - 1 = (i - 1) + 1
      BY <1>2, <1>5, <2>2
    <3>2. h[i - 1].previous = h[j - 1].status
      BY <3>1 DEF Chained
    <3>3. longer[i] = h[i - 1] /\ longer[j] = h[j - 1]
      BY <1>3, <1>5, <2>2
    <3> QED
      BY <3>2, <3>3
  <2> QED
    BY <2>1, <2>2
<1> HIDE DEF longer, e
<1>6. CASE Len(longer) > MaxHistory
  <2>1. RecordEvent(h, p, s) = SubSeq(longer, 1, MaxHistory)
    BY <1>6 DEF RecordEvent, longer, e
  <2>2. \A i \in 1..MaxHistory : SubSeq(longer, 1, MaxHistory)[i] = longer[i]
    BY <1>2, <1>4, <1>6
  <2>3. DOMAIN SubSeq(longer, 1, MaxHistory) = 1..MaxHistory
    BY <1>2, <1>4, <1>6
  <2>4. 1 \in 1..MaxHistory /\ 1..MaxHistory \subseteq 1..Len(longer)
    BY <1>2, <1>4, <1>6
  <2> QED
    BY <1>1, <1>2, <1>5, <2>1, <2>2, <2>3, <2>4 DEF Chained
<1>7. CASE ~(Len(longer) > MaxHistory)
  <2>1. RecordEvent(h, p, s) = longer
    BY <1>7 DEF RecordEvent, longer, e
  <2> QED
    BY <1>1, <1>2, <1>5, <2>1 DEF Chained
<1> QED
  BY <1>6, <1>7

(* The counters of crashes stay below their bound.                         *)
LEMMA CountedType ==
    ASSUME RecoveryAssumption, NEW n \in 0..CountCap
    PROVE  Counted(n) \in 0..CountCap
BY DEF Counted, RecoveryAssumption

(* What apply_check leaves is a recovery state, with a history no longer   *)
(* than it may be.                                                         *)
LEMMA AppliedType ==
    ASSUME RecoveryAssumption, TypeOK, NEW s \in Statuses
    PROVE  Applied(s) \in RecoveryState /\ Len(Applied(s).history) <= MaxHistory
<1>1. state \in RecoveryState /\ Len(state.history) <= MaxHistory
  BY DEF TypeOK
<1>2. /\ state.status \in Statuses /\ state.crashes \in 0..CountCap
      /\ state.history \in Seq(RecoveryEvent)
  BY <1>1 DEF RecoveryState
<1>3. Counted(state.crashes) \in 0..CountCap
  BY <1>2, CountedType
<1>4. /\ RecordEvent(state.history, state.status, s) \in Seq(RecoveryEvent)
      /\ Len(RecordEvent(state.history, state.status, s)) <= MaxHistory
  BY <1>1, <1>2, RecordEventType
<1> QED
  BY <1>1, <1>2, <1>3, <1>4 DEF Applied, RecoveryState

-----------------------------------------------------------------------------
(* One lemma per conjunct of TypeOK that a step disturbs: a check that is  *)
(* applied, written and published keeps every part in its type.            *)
LEMMA ApplyCheckType ==
    ASSUME RecoveryAssumption, TypeOK, NEW c \in Callers, ApplyCheck(c)
    PROVE  TypeOK'
<1>1. check[c] \in Statuses
  BY DEF TypeOK
<1>2. state' \in RecoveryState /\ Len(state'.history) <= MaxHistory
  BY <1>1, AppliedType DEF ApplyCheck
<1>3. file' \in RecoveryState \cup {NoState} /\ faults' \in 0..MaxFaults
  <2>1. CASE file' = state' /\ UNCHANGED faults
    BY <1>2, <2>1 DEF TypeOK
  <2>2. CASE Fault /\ file' \in {file, NoState}
    BY <2>2 DEF Fault, TypeOK, RecoveryAssumption
  <2> QED
    BY <2>1, <2>2 DEF ApplyCheck, PersistState
<1>4. pc' \in [Callers -> {"off", "waiting", "locking", "publishing"}]
  BY DEF ApplyCheck, Goto, TypeOK
<1>5. check' \in [Callers -> Statuses]
  BY DEF ApplyCheck, TypeOK, Statuses
<1>6. action' \in [Callers -> TransitionAction]
  BY DEF ApplyCheck, TypeOK, Transition, TransitionAction
<1>7. UNCHANGED <<metrics, metricsFile, window, running, announced>>
  BY DEF ApplyCheck
<1> QED
  BY <1>2, <1>3, <1>4, <1>5, <1>6, <1>7 DEF TypeOK, MonitoringTypeOK

LEMMA PublishType ==
    ASSUME RecoveryAssumption, TypeOK, NEW c \in Callers, PublishTransition(c)
    PROVE  TypeOK'
<1>1. pc' \in [Callers -> {"off", "waiting", "locking", "publishing"}]
  BY DEF PublishTransition, Goto, TypeOK
<1>2. action' \in [Callers -> TransitionAction]
  BY DEF PublishTransition, TypeOK, TransitionAction
<1>3. announced' \in TransitionAction /\ faults' \in 0..MaxFaults
  BY DEF PublishTransition, TypeOK, Fault, RecoveryAssumption
<1> QED
  BY <1>1, <1>2, <1>3 DEF PublishTransition, TypeOK, MonitoringTypeOK

LEMMA BeginType ==
    ASSUME TypeOK, NEW c \in Callers, BeginCheck(c)
    PROVE  TypeOK'
<1>1. Evaluate(metrics) \in Statuses
  BY DEF Evaluate, Statuses
<1>2. check' \in [Callers -> Statuses]
  BY <1>1 DEF BeginCheck, TypeOK
<1>3. pc' \in [Callers -> {"off", "waiting", "locking", "publishing"}]
  BY DEF BeginCheck, Goto, TypeOK
<1> QED
  BY <1>2, <1>3 DEF BeginCheck, TypeOK, MonitoringTypeOK

LEMMA MetricsType ==
    ASSUME RecoveryAssumption, MonitoringTypeOK,
           MetricsAge \/ RecordActivity \/ RecordError \/ PersistAndGet
    PROVE  MonitoringTypeOK'
<1>1. \A m \in PipelineMetrics : /\ [m EXCEPT !.idle = 0] \in PipelineMetrics
                                 /\ [m EXCEPT !.idle = Older(@)] \in PipelineMetrics
  BY DEF PipelineMetrics, Ages, Older, RecoveryAssumption
<1>2. CASE MetricsAge
  BY <1>1, <1>2 DEF MetricsAge, MonitoringTypeOK
<1>3. CASE RecordActivity
  BY <1>1, <1>3 DEF RecordActivity, MonitoringTypeOK
<1>4. CASE RecordError
  BY <1>4 DEF RecordError, MonitoringTypeOK, PipelineMetrics, RecoveryAssumption
<1>5. CASE PersistAndGet
  BY <1>5 DEF PersistAndGet, MonitoringTypeOK
<1> QED
  BY <1>2, <1>3, <1>4, <1>5

(* The history in the file is no longer than the one in memory may be.     *)
FileBounded == file # NoState => Len(file.history) <= MaxHistory

LEMMA RestartType ==
    ASSUME RecoveryAssumption, TypeOK, FileBounded, Restart
    PROVE  TypeOK'
<1>1. MonitoringTypeOK'
  <2>1. metricsFile' \in PipelineMetrics \cup {NoMetrics}
    BY DEF Restart, MonitoringRestart, MonitoringTypeOK, TypeOK
  <2>2. metrics' = LoadMetrics(metricsFile')
    BY DEF Restart, MonitoringRestart
  <2>3. DefaultMetrics \in PipelineMetrics
    BY DEF DefaultMetrics, PipelineMetrics, Ages, RecoveryAssumption
  <2> QED
    BY <2>1, <2>2, <2>3 DEF LoadMetrics, MonitoringTypeOK
<1>2. file' \in RecoveryState \cup {NoState} /\ file' \in {file, NoState}
  BY DEF Restart, TypeOK
<1>3. state' \in RecoveryState /\ Len(state'.history) <= MaxHistory
  <2>1. DefaultState \in RecoveryState /\ Len(DefaultState.history) <= MaxHistory
    BY DEF DefaultState, RecoveryState, Statuses, RecoveryAssumption
  <2>2. state' = IF file' = NoState THEN DefaultState ELSE file'
    BY DEF Restart, LoadState
  <2> QED
    BY <1>2, <2>1, <2>2 DEF FileBounded
<1>4. /\ pc' \in [Callers -> {"off", "waiting", "locking", "publishing"}]
      /\ check' \in [Callers -> Statuses] /\ action' \in [Callers -> TransitionAction]
  BY DEF Restart, Statuses, TransitionAction
<1>5. faults' \in 0..MaxFaults
  BY DEF Restart, Fault, TypeOK, RecoveryAssumption
<1> QED
  BY <1>1, <1>2, <1>3, <1>4, <1>5 DEF Restart, TypeOK

(* The steps that leave the recovery state and its file alone.             *)
LEMMA OtherType ==
    ASSUME RecoveryAssumption, TypeOK,
           \/ \E l \in Loops : Start(l) \/ Exit(l)
           \/ Stop \/ Activity \/ Error \/ GetMetrics \/ Tick \/ UNCHANGED vars
    PROVE  TypeOK' /\ UNCHANGED <<window, state, file, check, action, announced>>
<1>1. CASE \E l \in Loops : Start(l) \/ Exit(l)
  <2>1. pc' \in [Callers -> {"off", "waiting", "locking", "publishing"}]
    BY <1>1 DEF Start, Exit, Goto, TypeOK, Callers
  <2>2. running' \in BOOLEAN
    BY <1>1 DEF Start, Exit, TypeOK
  <2> QED
    BY <1>1, <2>1, <2>2 DEF Start, Exit, TypeOK, MonitoringTypeOK
<1>2. CASE Stop
  BY <1>2 DEF Stop, TypeOK, MonitoringTypeOK
<1>3. CASE Activity \/ Error \/ GetMetrics \/ Tick
  <2>1. MonitoringTypeOK'
    BY <1>3, MetricsType DEF Activity, Error, GetMetrics, Tick, TypeOK
  <2>2. Rest
    BY <1>3 DEF Activity, Error, GetMetrics, Tick
  <2> QED
    BY <2>1, <2>2 DEF Rest, TypeOK
<1>4. CASE UNCHANGED vars
  BY <1>4 DEF vars, TypeOK, MonitoringTypeOK
<1> QED
  BY <1>1, <1>2, <1>3, <1>4

LEMMA InitType ==
    ASSUME RecoveryAssumption, Init
    PROVE  TypeOK /\ FileBounded
<1>1. DefaultState \in RecoveryState /\ Len(DefaultState.history) <= MaxHistory
  BY DEF DefaultState, RecoveryState, Statuses, RecoveryAssumption
<1>2. MonitoringTypeOK
  BY DEF Init, MonitoringInit, MonitoringTypeOK, DefaultMetrics, PipelineMetrics, Ages,
         RecoveryAssumption
<1>3. /\ pc \in [Callers -> {"off", "waiting", "locking", "publishing"}]
      /\ check \in [Callers -> Statuses] /\ action \in [Callers -> TransitionAction]
  BY DEF Init, Statuses, TransitionAction
<1>4. running \in BOOLEAN
  BY DEF Init
<1>5. /\ window \in ErrorWindows /\ announced \in TransitionAction /\ faults \in 0..MaxFaults
      /\ file = NoState /\ state = DefaultState
  BY DEF Init, TransitionAction, RecoveryAssumption
<1> QED
  BY <1>1, <1>2, <1>3, <1>4, <1>5 DEF TypeOK, FileBounded

LEMMA StepType ==
    ASSUME RecoveryAssumption, TypeOK, FileBounded, [Next]_vars
    PROVE  TypeOK' /\ FileBounded'
<1>1. CASE \E c \in Callers : BeginCheck(c)
  BY <1>1, BeginType DEF BeginCheck, FileBounded
<1>2. CASE \E c \in Callers : ApplyCheck(c)
  <2>1. PICK c \in Callers : ApplyCheck(c)
    BY <1>2
  <2>2. TypeOK'
    BY <2>1, ApplyCheckType
  <2>3. file' \in {state', file, NoState}
    BY <2>1 DEF ApplyCheck, PersistState
  <2> QED
    BY <2>2, <2>3 DEF FileBounded, TypeOK
<1>3. CASE \E c \in Callers : PublishTransition(c)
  BY <1>3, PublishType DEF PublishTransition, FileBounded
<1>4. CASE Restart
  BY <1>4, RestartType DEF Restart, FileBounded
<1>5. CASE \/ \E l \in Loops : Start(l) \/ Exit(l)
           \/ Stop \/ Activity \/ Error \/ GetMetrics \/ Tick \/ UNCHANGED vars
  BY <1>5, OtherType DEF FileBounded
<1> QED
  BY <1>1, <1>2, <1>3, <1>4, <1>5 DEF Next

(* The service's state, its file and every check under way keep their      *)
(* types, and neither history outgrows max_history (recovery.rs).          *)
THEOREM TypeCorrect == ASSUME RecoveryAssumption PROVE Spec => [](TypeOK /\ FileBounded)
<1>1. Init => TypeOK /\ FileBounded
  BY InitType
<1>2. TypeOK /\ FileBounded /\ [Next]_vars => (TypeOK /\ FileBounded)'
  BY StepType
<1> QED
  BY <1>1, <1>2, PTL DEF Spec

-----------------------------------------------------------------------------
(* The histories in memory and on disk are chains.  Together with the      *)
(* types this is inductive: apply_check extends the chain from the status  *)
(* it finds under the lock, and what is written is what is in memory.      *)
ChainInv == TypeOK /\ FileBounded /\ HistoryChains

LEMMA ApplyChains ==
    ASSUME RecoveryAssumption, ChainInv, NEW c \in Callers, ApplyCheck(c)
    PROVE  HistoryChains'
<1> SUFFICES ASSUME MaxHistory > 0
             PROVE  /\ Chained(state'.history, state'.status)
                    /\ file' # NoState => Chained(file'.history, file'.status)
  BY DEF HistoryChains
<1>1. check[c] \in Statuses /\ state \in RecoveryState
  BY DEF ChainInv, TypeOK
<1>2. state.status \in Statuses /\ state.history \in Seq(RecoveryEvent)
  BY <1>1 DEF RecoveryState
<1>3. Chained(state.history, state.status)
  BY DEF ChainInv, HistoryChains
<1>4. /\ state'.status = check[c]
      /\ state'.history = IF state.status = check[c] THEN state.history
                          ELSE RecordEvent(state.history, state.status, check[c])
  BY DEF ApplyCheck, Applied
<1>5. Chained(state'.history, state'.status)
  <2>1. CASE state.status = check[c]
    BY <1>3, <1>4, <2>1
  <2>2. CASE state.status # check[c]
    <3>1. Chained(RecordEvent(state.history, state.status, check[c]), check[c])
      BY <1>1, <1>2, <1>3, RecordEventChains
    <3> QED
      BY <1>4, <2>2, <3>1
  <2> QED
    BY <2>1, <2>2
<1>6. file' \in {state', file, NoState}
  BY DEF ApplyCheck, PersistState
<1> QED
  BY <1>5, <1>6 DEF ChainInv, HistoryChains

LEMMA StepChains ==
    ASSUME RecoveryAssumption, ChainInv, [Next]_vars
    PROVE  HistoryChains'
<1>1. CASE \E c \in Callers : ApplyCheck(c)
  BY <1>1, ApplyChains
<1>2. CASE \E c \in Callers : BeginCheck(c) \/ PublishTransition(c)
  BY <1>2 DEF BeginCheck, PublishTransition, ChainInv, HistoryChains
<1>3. CASE Restart
  <2>1. file' \in {file, NoState} /\ state' = IF file' = NoState THEN DefaultState ELSE file'
    BY <1>3 DEF Restart, LoadState
  <2>2. Chained(DefaultState.history, DefaultState.status)
    BY DEF Chained, DefaultState
  <2> QED
    BY <2>1, <2>2 DEF ChainInv, HistoryChains
<1>4. CASE \/ \E l \in Loops : Start(l) \/ Exit(l)
           \/ Stop \/ Activity \/ Error \/ GetMetrics \/ Tick \/ UNCHANGED vars
  BY <1>4, OtherType DEF ChainInv, HistoryChains
<1> QED
  BY <1>1, <1>2, <1>3, <1>4 DEF Next

(* Each entry of the history begins where the entry before it ended,       *)
(* however the loops' and the clients' checks overlap and whatever is      *)
(* dropped, torn or restarted (recovery.rs apply_check).                   *)
THEOREM HistoryAlwaysChains == ASSUME RecoveryAssumption PROVE Spec => []HistoryChains
<1>1. Init => ChainInv
  <2>1. Chained(DefaultState.history, DefaultState.status)
    BY DEF Chained, DefaultState
  <2> QED
    BY <2>1, InitType DEF ChainInv, HistoryChains, Init
<1>2. ChainInv /\ [Next]_vars => ChainInv'
  BY StepType, StepChains DEF ChainInv
<1>3. ChainInv => HistoryChains
  BY DEF ChainInv
<1> QED
  BY <1>1, <1>2, <1>3, PTL DEF Spec
===============================================================================
