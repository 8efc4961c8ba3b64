------------------------------- MODULE Scheduler -------------------------------
(***************************************************************************)
(* The scheduler of src/crates/scheduler: a loop that looks every few      *)
(* seconds for jobs whose next trigger has come, publishes an event for    *)
(* each and writes its state to a file once it has been through all jobs.  *)
(* The state's lock is held from the first job to the file.                *)
(*                                                                         *)
(* Time is counted in minutes.  The service may be stopped and started     *)
(* again by its methods, and the process may die and be restarted at any   *)
(* step; what survives is the file.  The daemon calls start only;          *)
(* set_job_enabled, trigger_job, save_state and stop are the crate's       *)
(* interface and are modelled as it offers them.                           *)
(*                                                                         *)
(* A trigger's payload is left out but for the slot; so is the catch-up    *)
(* flag in it, which is computed from last and read by nobody.             *)
(***************************************************************************)
EXTENDS Naturals, Sequences

CONSTANTS Jobs,        \* config.jobs, those enabled with a schedule that parses
          Slots,       \* Slots[j]: the minutes job j's schedule matches
          Horizon,     \* minutes next_trigger_after searches
          Hour,        \* minutes it adds when it finds none
          Loops,       \* tasks that run start()
          Never, NoFile, Torn,
          MaxTime, MaxFaults, MaxManual   \* bounds, the last per job

ASSUME SchedulerAssumption ==
    /\ Slots \in [Jobs -> SUBSET Nat]
    /\ Horizon \in Nat \ {0} /\ Hour \in Nat \ {0}
    /\ Never \notin Nat
    /\ MaxTime \in Nat /\ MaxFaults \in Nat /\ MaxManual \in Nat

VARIABLES now,       \* the wall clock
          jobs,      \* SchedulerState::jobs
          file,      \* the state file
          running,   \* SchedulerService::running
          pc,        \* where each loop is
          at,        \* the time each loop's tick took at its beginning
          todo,      \* the jobs the tick that holds the lock has yet to see
          manual,    \* jobs trigger_job has recorded and not yet published
          (* history *)
          fired,     \* per job, the slots ticks published a trigger for, in order
          triggers,  \* per job, the calls of trigger_job
          faults     \* restarts and failed publications

vars == <<now, jobs, file, running, pc, at, todo, manual, fired, triggers, faults>>

JobState == [enabled : BOOLEAN, last : Nat \cup {Never}, next : Nat, count : Nat]
States == [Jobs -> JobState]

TypeOK ==
    /\ now \in Nat
    /\ jobs \in States
    /\ file \in States \cup {NoFile, Torn}
    /\ running \in BOOLEAN
    /\ pc \in [Loops -> {"off", "waiting", "locking", "ticking", "persisting"}]
    /\ at \in [Loops -> Nat]
    /\ todo \subseteq Jobs
    /\ manual \subseteq Jobs
    /\ fired \in [Jobs -> Seq(Nat)]
    /\ triggers \in [Jobs -> Nat]
    /\ faults \in 0..MaxFaults

-----------------------------------------------------------------------------
(* Mutant: the search begins at the present minute.                        *)
NextTriggerAfter_Inclusive(j, t) ==
    LET found == {m \in Slots[j] : m \in t..(t + Horizon)}
    IN  IF found = {} THEN t + Hour ELSE CHOOSE m \in found : \A n \in found : m <= n

(* next_trigger_after.                                                     *)
NextTriggerAfter(j, t) ==
    LET found == {m \in Slots[j] : m \in (t + 1)..(t + Horizon)}
    IN  IF found = {} THEN t + Hour ELSE CHOOSE m \in found : \A n \in found : m <= n

(* SchedulerService::new: jobs unknown to the file begin now, the others   *)
(* go on where the file left them unless that has passed.                  *)
Fresh(j) == [enabled |-> TRUE, last |-> Never, next |-> NextTriggerAfter(j, now), count |-> 0]
Restored(j, old) ==
    [enabled |-> TRUE, last |-> old.last, count |-> old.count,
     next |-> IF old.next <= now THEN NextTriggerAfter(j, now) ELSE old.next]

Loaded(f) == [j \in Jobs |-> IF f \in {NoFile, Torn} THEN Fresh(j) ELSE Restored(j, f[j])]

Init ==
    /\ now = 0 /\ file = NoFile /\ jobs = Loaded(file)
    /\ running = FALSE
    /\ pc = [l \in Loops |-> "off"] /\ at = [l \in Loops |-> 0]
    /\ todo = {} /\ manual = {}
    /\ fired = [j \in Jobs |-> <<>>] /\ triggers = [j \in Jobs |-> 0] /\ faults = 0

Unlocked == \A l \in Loops : pc[l] \notin {"ticking", "persisting"}

Goto(l, s) == pc' = [pc EXCEPT ![l] = s]

-----------------------------------------------------------------------------
Fault == faults < MaxFaults /\ faults' = faults + 1

(* Mutant: a start begins with the state of the file. *)
Start_Reloads(l) ==
    /\ pc[l] = "off" /\ ~running /\ Unlocked
    /\ running' = TRUE
    /\ jobs' = Loaded(file)
    /\ Goto(l, "waiting")
    /\ UNCHANGED <<now, file, at, todo, manual, fired, triggers, faults>>

(* start() returns at once if the service is running.  If the bus refuses  *)
(* the event that announces it, it returns too, the flag already set.  A   *)
(* loop that was told to stop notices only at its next tick, and not if    *)
(* the service was started again by then.                                  *)
Start(l) ==
    /\ pc[l] = "off" /\ ~running
    /\ running' = TRUE
    /\ \/ Goto(l, "waiting") /\ UNCHANGED faults
       \/ Fault /\ UNCHANGED pc
    /\ UNCHANGED <<now, jobs, file, at, todo, manual, fired, triggers>>

Stop ==
    /\ running
    /\ running' = FALSE
    /\ UNCHANGED <<now, jobs, file, pc, at, todo, manual, fired, triggers, faults>>

(* A tick of the interval: the time is taken before the lock is.           *)
Wake(l) ==
    /\ pc[l] = "waiting"
    /\ IF running THEN Goto(l, "locking") /\ at' = [at EXCEPT ![l] = now]
                  ELSE Goto(l, "off") /\ UNCHANGED at
    /\ UNCHANGED <<now, jobs, file, running, todo, manual, fired, triggers, faults>>

Lock(l) ==
    /\ pc[l] = "locking" /\ Unlocked
    /\ todo' = Jobs
    /\ Goto(l, "ticking")
    /\ UNCHANGED <<now, jobs, file, running, at, manual, fired, triggers, faults>>

Due(j, t) == jobs[j].enabled /\ jobs[j].next <= t

SkipJob(l, j) ==
    /\ pc[l] = "ticking" /\ j \in todo /\ ~Due(j, at[l])
    /\ todo' = todo \ {j}
    /\ UNCHANGED <<now, jobs, file, running, pc, at, manual, fired, triggers, faults>>

(* The state of a job after its trigger. *)
Advanced(j, t) ==
    [enabled |-> jobs[j].enabled, last |-> t, count |-> jobs[j].count + 1,
     next |-> NextTriggerAfter(j, t)]

(* A due job has its trigger recorded and published; if the bus refuses it *)
(* the slot is over all the same.                                          *)
TriggerDue(l, j) ==
    /\ pc[l] = "ticking" /\ j \in todo /\ Due(j, at[l])
    /\ jobs' = [jobs EXCEPT ![j] = Advanced(j, at[l])]
    /\ \/ fired' = [fired EXCEPT ![j] = Append(@, jobs[j].next)] /\ UNCHANGED faults
       \/ Fault /\ UNCHANGED fired
    /\ todo' = todo \ {j}
    /\ UNCHANGED <<now, file, running, pc, at, manual, triggers>>

EndJobs(l) ==
    /\ pc[l] = "ticking" /\ todo = {}
    /\ Goto(l, "persisting")
    /\ UNCHANGED <<now, jobs, file, running, at, todo, manual, fired, triggers, faults>>

(* Mutant: a failed write ends the loop. *)
Persist_Ends(l) ==
    /\ pc[l] = "persisting"
    /\ \/ file' = jobs /\ Goto(l, "waiting") /\ UNCHANGED faults
       \/ Fault /\ Goto(l, "off") /\ UNCHANGED file
    /\ UNCHANGED <<now, jobs, running, at, todo, manual, fired, triggers>>

(* save_to_file; its failure is only logged.                               *)
Persist(l) ==
    /\ pc[l] = "persisting"
    /\ \/ file' = jobs /\ UNCHANGED faults
       \/ Fault /\ UNCHANGED file
    /\ Goto(l, "waiting")
    /\ UNCHANGED <<now, jobs, running, at, todo, manual, fired, triggers>>

-----------------------------------------------------------------------------
(* The interface.                                                          *)

SetJobEnabled(j, enabled) ==
    /\ Unlocked
    /\ jobs' = [jobs EXCEPT ![j].enabled = enabled]
    /\ UNCHANGED <<now, file, running, pc, at, todo, manual, fired, triggers, faults>>

(* trigger_job records the trigger under the lock and publishes after it.  *)
TriggerJob(j) ==
    /\ Unlocked /\ j \notin manual /\ triggers[j] < MaxManual
    /\ jobs' = [jobs EXCEPT ![j] = [enabled |-> jobs[j].enabled, last |-> now,
                                    next |-> jobs[j].next, count |-> jobs[j].count + 1]]
    /\ manual' = manual \cup {j}
    /\ triggers' = [triggers EXCEPT ![j] = @ + 1]
    /\ UNCHANGED <<now, file, running, pc, at, todo, fired, faults>>

PublishManual(j) ==
    /\ j \in manual
    /\ manual' = manual \ {j}
    /\ UNCHANGED <<now, jobs, file, running, pc, at, todo, fired, triggers, faults>>

SaveState ==
    /\ Unlocked
    /\ file' = jobs
    /\ UNCHANGED <<now, jobs, running, pc, at, todo, manual, fired, triggers, faults>>

-----------------------------------------------------------------------------
Clock ==
    /\ now < MaxTime
    /\ now' = now + 1
    /\ UNCHANGED <<jobs, file, running, pc, at, todo, manual, fired, triggers, faults>>

(* The process dies, half way through the plain fs::write of the file      *)
(* perhaps, and is started again.                                          *)
Restart ==
    /\ Fault
    /\ \/ UNCHANGED file
       \/ (\E l \in Loops : pc[l] = "persisting") /\ file' = Torn
    /\ jobs' = Loaded(file')
    /\ running' = FALSE
    /\ pc' = [l \in Loops |-> "off"] /\ at' = [l \in Loops |-> 0]
    /\ todo' = {} /\ manual' = {}
    /\ UNCHANGED <<now, fired, triggers>>

Loop(l) ==
    \/ Wake(l) \/ Lock(l) \/ EndJobs(l) \/ Persist(l)
    \/ \E j \in Jobs : SkipJob(l, j) \/ TriggerDue(l, j)

Interface ==
    \/ \E j \in Jobs : \/ \E enabled \in BOOLEAN : SetJobEnabled(j, enabled)
                       \/ TriggerJob(j) \/ PublishManual(j)
    \/ SaveState \/ Stop

Next ==
    \/ \E l \in Loops : Start(l) \/ Loop(l)
    \/ Interface
    \/ Clock
    \/ Restart

Spec == Init /\ [][Next]_vars

(* The interval fires, the tasks that run start() are polled and the lock  *)
(* is handed on; nobody is obliged to use the interface.                   *)
FairSpec == Spec /\ \A l \in Loops : WF_vars(Loop(l))

-----------------------------------------------------------------------------
(* Properties.                                                             *)

(* A slot of the schedule is triggered at most once and in order, whatever *)
(* becomes of the file: a crash after the publication and before the write *)
(* does not repeat it, nor do two loops with different ideas of the time   *)
(* (service.rs tick, new).                                                 *)
SlotsFireOnce ==
    \A j \in Jobs : \A i, k \in DOMAIN fired[j] : i < k => fired[j][i] < fired[j][k]

(* Triggers are counted exactly, ticks and manual ones, although ticks     *)
(* decide on a state they read before they publish; a restart may forget   *)
(* some and a refused publication is counted, but a count never exceeds    *)
(* what was triggered (service.rs tick, trigger_job, new).                 *)
CountsAreExact ==
    \A j \in Jobs :
        /\ jobs[j].count <= Len(fired[j]) + triggers[j] + faults
        /\ faults = 0 => jobs[j].count = Len(fired[j]) + triggers[j]

(* Once a loop runs, a job that is due does not stay due unless the        *)
(* service is stopped: the loop survives refused publications and failed   *)
(* writes (service.rs tick, start).                                        *)
LoopRuns == \E l \in Loops : pc[l] # "off"
DueFires ==
    \A j \in Jobs : running /\ LoopRuns /\ Due(j, now) ~> ~running \/ ~Due(j, now)

=============================================================================
