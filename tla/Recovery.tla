------------------------------- MODULE Recovery -------------------------------
(***************************************************************************)
(* RecoveryService of src/crates/store/src/recovery.rs: a loop, and POST   *)
(* /recovery/check beside it, reads the monitoring's metrics, judges the   *)
(* pipeline by them, changes the recovery state under its lock, writes the *)
(* state's file with the lock still held, and publishes once it has let    *)
(* go.  A check may so be applied after one that began later.              *)
(*                                                                         *)
(* Heartbeats, which depend on nothing else and change nothing else, the   *)
(* counters but crashes_detected, which is exact below CountCap, and what  *)
(* is only displayed are left out.                                         *)
(***************************************************************************)
EXTENDS Monitoring, Sequences

CONSTANTS Loops,               \* tasks that run start()
          Clients,             \* callers of force_check
          StallThreshold,      \* stall_threshold_secs
          ErrorWindows,        \* the values error_window_secs may have
          MaxErrors,           \* max_errors_in_window
          MaxHistory,          \* max_history
          NoState,             \* a file that is absent or does not parse
          CountCap, MaxFaults  \* bounds

ASSUME RecoveryAssumption ==
    /\ Horizon \in Nat /\ ErrorCap \in Nat /\ MaxErrors \in 0..(ErrorCap - 1)
    /\ StallThreshold \in 0..(Horizon - 1)
    /\ ErrorWindows \subseteq 0..(Horizon - 1)
    /\ MaxHistory \in Nat /\ CountCap \in Nat \ {0} /\ MaxFaults \in Nat

VARIABLES window,     \* config.error_window_secs
          state,      \* RecoveryService::state
          file,       \* the state's file
          running,
          pc,         \* where each caller of force_check is
          check,      \* the check each one made
          action,     \* what it is to publish
          announced,  \* the newest transition on the bus
          faults

vars == <<metrics, metricsFile, window, state, file, running, pc, check, action,
          announced, faults>>

Callers == Loops \cup Clients
Statuses == {"healthy", "stalled", "degraded", "recovering"}
RecoveryEvent == [status : Statuses, previous : Statuses]
TransitionAction == {"none", "crash", "recovered"}

RecoveryState == [status : Statuses, crashes : 0..CountCap, history : Seq(RecoveryEvent)]

DefaultState == [status |-> "healthy", crashes |-> 0, history |-> <<>>]

LoadState(f) == IF f = NoState THEN DefaultState ELSE f

TypeOK ==
    /\ MonitoringTypeOK
    /\ window \in ErrorWindows
    /\ state \in RecoveryState /\ Len(state.history) <= MaxHistory
    /\ file \in RecoveryState \cup {NoState}
    /\ running \in BOOLEAN
    /\ pc \in [Callers -> {"off", "waiting", "locking", "publishing"}]
    /\ check \in [Callers -> Statuses]
    /\ action \in [Callers -> TransitionAction]
    /\ announced \in TransitionAction
    /\ faults \in 0..MaxFaults

Init ==
    /\ MonitoringInit
    /\ window \in ErrorWindows
    /\ file = NoState /\ state = DefaultState
    /\ running = FALSE
    /\ pc = [c \in Callers |-> "off"]
    /\ check = [c \in Callers |-> "healthy"]
    /\ action = [c \in Callers |-> "none"]
    /\ announced = "none" /\ faults = 0

Goto(c, s) == pc' = [pc EXCEPT ![c] = s]
Fault == faults < MaxFaults /\ faults' = faults + 1

-----------------------------------------------------------------------------
(* start, called for a service that does not run.                          *)
Start(l) ==
    /\ pc[l] = "off" /\ ~running
    /\ running' = TRUE
    /\ Goto(l, "waiting")
    /\ UNCHANGED <<metrics, metricsFile, window, state, file, check, action, announced, faults>>

Stop ==
    /\ running' = FALSE
    /\ UNCHANGED <<metrics, metricsFile, window, state, file, pc, check, action, announced, faults>>

(* The loop's tick finds the service stopped.                              *)
Exit(l) ==
    /\ pc[l] = "waiting" /\ ~running
    /\ Goto(l, "off")
    /\ UNCHANGED <<metrics, metricsFile, window, state, file, running, check, action, announced,
                   faults>>

(* Mutants: a stall needs errors; the threshold itself is a stall.         *)
Evaluate_StallNeedsErrors(m) ==
    LET stalled  == m.idle > StallThreshold /\ m.errors > 0
        erroring == m.idle <= window /\ m.errors > MaxErrors
    IN  IF stalled THEN IF erroring THEN "recovering" ELSE "stalled"
        ELSE IF erroring THEN "degraded" ELSE "healthy"
Evaluate_AtThreshold(m) ==
    LET stalled  == m.idle >= StallThreshold
        erroring == m.idle <= window /\ m.errors > MaxErrors
    IN  IF stalled THEN IF erroring THEN "recovering" ELSE "stalled"
        ELSE IF erroring THEN "degraded" ELSE "healthy"

(* evaluate: errors are those since the start of the counters, and count   *)
(* when the last activity lies within the window.                          *)
Evaluate(m) ==
    LET stalled  == m.idle > StallThreshold
        erroring == m.idle <= window /\ m.errors > MaxErrors
    IN  IF stalled THEN IF erroring THEN "recovering" ELSE "stalled"
        ELSE IF erroring THEN "degraded" ELSE "healthy"

(* The first half of force_check, by a tick of the loop or by a client.    *)
BeginCheck(c) ==
    /\ \/ c \in Loops /\ pc[c] = "waiting" /\ running
       \/ c \in Clients /\ pc[c] = "off"
    /\ check' = [check EXCEPT ![c] = Evaluate(metrics)]
    /\ Goto(c, "locking")
    /\ UNCHANGED <<metrics, metricsFile, window, state, file, running, action, announced, faults>>

Counted(n) == IF n < CountCap THEN n + 1 ELSE n

(* Mutant: the previous status is the check's.                             *)
RecordEvent_Forgets(history, previous, status) ==
    LET longer == <<[status |-> status, previous |-> status]>> \o history
    IN  IF Len(longer) > MaxHistory THEN SubSeq(longer, 1, MaxHistory) ELSE longer

(* record_event: newest first, the oldest dropped.                         *)
RecordEvent(history, previous, status) ==
    LET longer == <<[status |-> status, previous |-> previous]>> \o history
    IN  IF Len(longer) > MaxHistory THEN SubSeq(longer, 1, MaxHistory) ELSE longer

(* The transitions apply_check counts and announces.                       *)
Transition(previous, status) ==
    CASE previous # "recovering" /\ status = "recovering" -> "crash"
      [] previous # "healthy" /\ status = "healthy" -> "recovered"
      [] OTHER -> "none"

(* The state apply_check leaves.                                           *)
Applied(status) ==
    LET previous == state.status
    IN  [status  |-> status,
         crashes |-> IF Transition(previous, status) = "crash" THEN Counted(state.crashes)
                     ELSE state.crashes,
         history |-> IF previous = status THEN state.history
                     ELSE RecordEvent(state.history, previous, status)]

(* persist_state: a write that fails leaves the file as it was or torn,    *)
(* and the check goes on.                                                  *)
PersistState ==
    \/ file' = state' /\ UNCHANGED faults
    \/ Fault /\ file' \in {file, NoState}

(* apply_check, as far as the lock is held.                                *)
ApplyCheck(c) ==
    /\ pc[c] = "locking"
    /\ state' = Applied(check[c])
    /\ action' = [action EXCEPT ![c] = Transition(state.status, check[c])]
    /\ check' = [check EXCEPT ![c] = "healthy"]
    /\ Goto(c, "publishing")
    /\ PersistState
    /\ UNCHANGED <<metrics, metricsFile, window, running, announced>>

(* publish_crash or publish_recovered, a heartbeat that changes nothing    *)
(* kept here, and the end of the call: what the bus refuses is lost.       *)
PublishTransition(c) ==
    /\ pc[c] = "publishing"
    /\ \/ UNCHANGED faults
          /\ announced' = IF action[c] = "none" THEN announced ELSE action[c]
       \/ action[c] # "none" /\ Fault /\ UNCHANGED announced
    /\ Goto(c, IF c \in Loops THEN "waiting" ELSE "off")
    /\ action' = [action EXCEPT ![c] = "none"]
    /\ UNCHANGED <<metrics, metricsFile, window, state, file, running, check>>
-----------------------------------------------------------------------------
Rest == UNCHANGED <<window, state, file, running, pc, check, action, announced, faults>>

Activity == RecordActivity /\ Rest
Error == RecordError /\ Rest
GetMetrics == PersistAndGet /\ Rest

Tick == MetricsAge /\ Rest

(* The process dies, perhaps while it writes either file, and starts.      *)
Restart ==
    /\ Fault
    /\ \E torn \in BOOLEAN : MonitoringRestart(torn)
    /\ file' \in IF \E c \in Callers : pc[c] = "locking" THEN {file, NoState} ELSE {file}
    /\ state' = LoadState(file')
    /\ running' = FALSE
    /\ pc' = [c \in Callers |-> "off"]
    /\ check' = [c \in Callers |-> "healthy"]
    /\ action' = [c \in Callers |-> "none"]
    /\ UNCHANGED <<window, announced>>

Next ==
    \/ \E l \in Loops : Start(l) \/ Exit(l)
    \/ \E c \in Callers : BeginCheck(c) \/ ApplyCheck(c) \/ PublishTransition(c)
    \/ Stop \/ Activity \/ Error \/ GetMetrics \/ Tick \/ Restart

Spec == Init /\ [][Next]_vars

(* Tasks are scheduled and time passes; nothing makes the pipeline active. *)
FairSpec ==
    /\ Spec
    /\ WF_vars(Tick)
    /\ \A c \in Callers : WF_vars(ApplyCheck(c)) /\ WF_vars(PublishTransition(c))
    /\ \A l \in Loops : WF_vars(BeginCheck(l)) /\ WF_vars(Exit(l))
-----------------------------------------------------------------------------
(* Each entry of the history begins where the entry before it ended, and   *)
(* the newest ends in the current status: of two checks that overlap       *)
(* neither is lost and none is recorded against a status it did not find.  *)
Chained(history, status) ==
    /\ history # <<>> => history[1].status = status
    /\ \A i \in DOMAIN history : \A j \in DOMAIN history :
          j = i + 1 => history[i].previous = history[j].status
HistoryChains ==
    /\ MaxHistory > 0 => Chained(state.history, state.status)
    /\ MaxHistory > 0 /\ file # NoState => Chained(file.history, file.status)

(* While a loop runs, a pipeline that has gone silent for good is reported *)
(* as stalled, whatever checks were under way.                             *)
Silent == metrics.idle > StallThreshold
Watched == running /\ \E l \in Loops : pc[l] # "off"
StallIsNoticed == (<>[](Silent /\ Watched)) => <>[](state.status \in {"stalled", "recovering"})

(* One that stays active, with few enough errors, is in the end reported   *)
(* as healthy and stays so: no verdict formed earlier comes back, and no   *)
(* pause within the threshold counts as a stall ("transient gaps in        *)
(* activity ... do not produce false positives", recovery.rs:16).          *)
Sound == metrics.idle <= StallThreshold /\ metrics.errors <= MaxErrors
HealthIsNoticed == (<>[](Sound /\ Watched)) => <>[](state.status = "healthy")
===============================================================================
