---------------------------- MODULE PipelineWorker ----------------------------
(***************************************************************************)
(* The pipeline worker of src/crates/objective/src/pipeline.rs: one task   *)
(* that, every five seconds, retries the failed jobs that are due and then *)
(* dispatches the bus events that arrived since its last cycle.            *)
(*                                                                         *)
(* The bus is the append-only in-memory log of src/crates/message-bus; it  *)
(* and the worker's cursor die with the process, the two directories of    *)
(* RetryQueue survive.  Everything the worker awaits is a separate step,   *)
(* so that publishers, the clock and a crash may come in between.          *)
(***************************************************************************)
EXTENDS RetryQueue

CONSTANTS Types,       \* event types that appear on the bus
          MaxEvents,   \* bound: events ever published
          MaxFaults,   \* bound: crashes and failed file operations
          NoJob        \* no job in hand

Extraction  == "extraction.process.pending"
Maintenance == "system.maintenance"
Processed   == "extraction.document.processed"

Events == 1..MaxEvents
Jobs == Job(Events, Types)

ASSUME PipelineAssumption ==
    /\ MaxEvents \in Nat
    /\ MaxFaults \in Nat
    /\ NoJob \notin Jobs
    /\ Processed \in Types

VARIABLES bus,        \* the log of events
          cursor,     \* last_index: how much of the log the worker has read
          pos,        \* the next event of new_events to dispatch
          ready,      \* what is left of the ready_jobs snapshot
          hand,       \* the job being retried
          pc,         \* where the worker's task is
          (* history *)
          published,  \* events ever published
          tries,      \* dispatches of an event that returned
          ok,         \* events a dispatch of which returned Ok
          dropped,    \* events a crash or a failed write made the program forget
          clobbered,  \* events whose file another job's file replaced
          faults      \* crashes and failed file operations so far

wvars == <<bus, cursor, pos, ready, hand, pc>>
hvars == <<published, tries, ok, dropped, clobbered, faults>>
vars == <<now, queue, dead, wvars, hvars>>

PCs == {"tick", "retries", "retrying", "completing", "burying", "requeueing",
        "rewriting", "batch", "enqueueing"}

TypeOK ==
    /\ now \in Nat
    /\ queue \subseteq Jobs
    /\ dead \subseteq Jobs
    /\ bus \in Seq([ev : Events, type : Types])
    /\ cursor \in Nat
    /\ pos \in Nat \ {0}
    /\ ready \subseteq Jobs
    /\ hand \in Jobs \cup {NoJob}
    /\ pc \in PCs
    /\ published \in 0..MaxEvents
    /\ tries \in [Events -> Nat]
    /\ ok \subseteq Events
    /\ dropped \subseteq Events
    /\ clobbered \subseteq Events
    /\ faults \in 0..MaxFaults

Init ==
    /\ now = 0 /\ queue = {} /\ dead = {}
    /\ bus = <<>> /\ cursor = 0 /\ pos = 1
    /\ ready = {} /\ hand = NoJob /\ pc = "tick"
    /\ published = 0 /\ tries = [e \in Events |-> 0]
    /\ ok = {} /\ dropped = {} /\ clobbered = {} /\ faults = 0

-----------------------------------------------------------------------------
(* Ingestion and snapshot failures are logged where they occur and every   *)
(* other type is ignored: only these two dispatches can return an error.   *)
Fallible(type) == type \in {Extraction, Maintenance}

(* MessageBus::publish, by the scheduler, the API or another service. *)
Append1(type) ==
    /\ published < MaxEvents
    /\ published' = published + 1
    /\ bus' = Append(bus, [ev |-> published + 1, type |-> type])

Publish(type) ==
    /\ Append1(type)
    /\ UNCHANGED <<now, queue, dead, cursor, pos, ready, hand, pc,
                   tries, ok, dropped, clobbered, faults>>

Tick == ClockTick /\ UNCHANGED <<queue, dead, wvars, hvars>>

(* An operation on the file system may fail; its caller goes on. *)
Fault == faults < MaxFaults /\ faults' = faults + 1

(* record_pipeline_cycle, then ready_jobs: a snapshot of the due jobs.  An *)
(* error abandons the retries of this cycle.                               *)
StartCycle ==
    /\ pc = "tick"
    /\ \/ ready' = ReadyJobs /\ UNCHANGED faults
       \/ Fault /\ ready' = {}
    /\ pc' = "retries"
    /\ UNCHANGED <<now, queue, dead, bus, cursor, pos, hand,
                   published, tries, ok, dropped, clobbered>>

TakeRetry ==
    /\ pc = "retries"
    /\ \E j \in Oldest(ready) : hand' = j /\ ready' = ready \ {j}
    /\ pc' = "retrying"
    /\ UNCHANGED <<now, queue, dead, bus, cursor, pos, hvars>>

(* run_extraction publishes one event per document while it runs. *)
DispatchPublishes ==
    /\ \/ pc = "retrying" /\ hand.type = Extraction
       \/ pc = "batch" /\ pos <= cursor /\ bus[pos].type = Extraction
    /\ Append1(Processed)
    /\ UNCHANGED <<now, queue, dead, cursor, pos, ready, hand, pc,
                   tries, ok, dropped, clobbered, faults>>

RetryReturns ==
    /\ pc = "retrying"
    /\ tries' = [tries EXCEPT ![hand.ev] = @ + 1]
    /\ \/ ok' = ok \cup {hand.ev} /\ pc' = "completing"
       \/ /\ Fallible(hand.type)
          /\ pc' = IF LastAttempt(hand) THEN "burying" ELSE "requeueing"
          /\ UNCHANGED ok
    /\ UNCHANGED <<now, queue, dead, bus, cursor, pos, ready, hand,
                   published, dropped, clobbered, faults>>

(* complete after a success; its error ends process_retries, leaving the   *)
(* other due jobs to the next cycle.                                       *)
CompleteRetry ==
    /\ pc = "completing"
    /\ \/ Complete(hand) /\ UNCHANGED <<ready, faults>>
       \/ Fault /\ ready' = {} /\ UNCHANGED queue
    /\ hand' = NoJob
    /\ pc' = "retries"
    /\ UNCHANGED <<now, dead, bus, cursor, pos, published, tries, ok, dropped, clobbered>>

(* re_enqueue of a job that has had its attempts. *)
BuryRetry ==
    /\ pc = "burying"
    /\ \/ MoveToDeadLetter(hand) /\ UNCHANGED faults
       \/ Fault /\ UNCHANGED <<queue, dead>>
    /\ hand' = NoJob
    /\ pc' = "retries"
    /\ UNCHANGED <<now, bus, cursor, pos, ready, published, tries, ok, dropped, clobbered>>

(* Mutant: the old file is left behind. *)
RequeueRemoves_Keeps ==
    /\ pc = "requeueing" /\ pc' = "rewriting"
    /\ UNCHANGED <<now, queue, dead, bus, cursor, pos, ready, hand, hvars>>

(* re_enqueue of any other job: the old file goes first, *)
RequeueRemoves ==
    /\ pc = "requeueing"
    /\ \/ Complete(hand) /\ pc' = "rewriting" /\ UNCHANGED <<hand, faults>>
       \/ Fault /\ hand' = NoJob /\ pc' = "retries" /\ UNCHANGED queue
    /\ UNCHANGED <<now, dead, bus, cursor, pos, ready, published, tries, ok, dropped, clobbered>>

(* The file of a new job, and the history of what it replaced; a failed    *)
(* write is only logged.                                                   *)
WriteJob(ev, type, attempt) ==
    \/ /\ Enqueue(ev, type, attempt)
       /\ clobbered' = clobbered \cup
            {k.ev : k \in {f \in Named(queue, NewJob(ev, type, attempt)) : ~f.torn}}
       /\ UNCHANGED <<dropped, faults>>
    \/ /\ Fault
       /\ dropped' = dropped \cup {ev}
       /\ UNCHANGED <<queue, clobbered>>

(* then the new one is written. *)
RequeueWrites ==
    /\ pc = "rewriting"
    /\ WriteJob(hand.ev, hand.type, hand.attempt + 1)
    /\ hand' = NoJob
    /\ pc' = "retries"
    /\ UNCHANGED <<now, dead, bus, cursor, pos, ready, published, tries, ok>>

(* events() and the cursor, which is moved before anything is dispatched. *)
ReadBus ==
    /\ pc = "retries"
    /\ ready = {}
    /\ cursor' = Len(bus)
    /\ pc' = IF Len(bus) <= cursor THEN "tick" ELSE "batch"
    /\ UNCHANGED <<now, queue, dead, bus, pos, ready, hand, hvars>>

DispatchReturns ==
    /\ pc = "batch"
    /\ pos <= cursor
    /\ tries' = [tries EXCEPT ![bus[pos].ev] = @ + 1]
    /\ \/ ok' = ok \cup {bus[pos].ev} /\ pos' = pos + 1 /\ UNCHANGED pc
       \/ Fallible(bus[pos].type) /\ pc' = "enqueueing" /\ UNCHANGED <<pos, ok>>
    /\ UNCHANGED <<now, queue, dead, bus, cursor, ready, hand,
                   published, dropped, clobbered, faults>>

EnqueueFailed ==
    /\ pc = "enqueueing"
    /\ WriteJob(bus[pos].ev, bus[pos].type, 0)
    /\ pos' = pos + 1
    /\ pc' = "batch"
    /\ UNCHANGED <<now, dead, bus, cursor, ready, hand, published, tries, ok>>

(* Mutant: the cursor is moved after the dispatches, to the log's end. *)
EndCycle_SkipsNew ==
    /\ pc = "batch" /\ pos > cursor
    /\ cursor' = Len(bus) /\ pos' = Len(bus) + 1
    /\ pc' = "tick"
    /\ UNCHANGED <<now, queue, dead, bus, ready, hand, hvars>>

EndCycle ==
    /\ pc = "batch"
    /\ pos > cursor
    /\ pc' = "tick"
    /\ UNCHANGED <<now, queue, dead, bus, cursor, pos, ready, hand, hvars>>

(* The process dies and is started again with an empty bus.  A job being   *)
(* written may be left torn.                                               *)
Undispatched == {bus[i].ev : i \in pos..Len(bus)}

Crash ==
    /\ Fault
    /\ \/ UNCHANGED queue
       \/ pc = "rewriting" /\ EnqueueTorn(hand.ev, hand.type, hand.attempt + 1)
       \/ pc = "enqueueing" /\ EnqueueTorn(bus[pos].ev, bus[pos].type, 0)
    /\ dropped' = dropped \cup Undispatched
                    \cup (IF pc = "rewriting" THEN {hand.ev} ELSE {})
                    \cup {k.ev : k \in queue \ queue'}
    /\ bus' = <<>> /\ cursor' = 0 /\ pos' = 1
    /\ ready' = {} /\ hand' = NoJob /\ pc' = "tick"
    /\ UNCHANGED <<now, dead, published, tries, ok, clobbered>>

Worker ==
    \/ StartCycle \/ TakeRetry \/ RetryReturns \/ CompleteRetry \/ BuryRetry
    \/ RequeueRemoves \/ RequeueWrites \/ ReadBus \/ DispatchReturns
    \/ EnqueueFailed \/ EndCycle

Next ==
    \/ \E type \in Types : Publish(type)
    \/ Tick
    \/ DispatchPublishes
    \/ Worker
    \/ Crash

Spec == Init /\ [][Next]_vars

(* The worker's task is polled and its timer fires; time passes.  No       *)
(* publisher is obliged to publish and nothing has to fail.                *)
FairSpec == Spec /\ WF_vars(Worker) /\ WF_vars(Tick)

-----------------------------------------------------------------------------
(* Properties.                                                             *)

(* An event the program still has: undispatched, in a job file, or between *)
(* the removal of its old file and the writing of its new one.             *)
Held(e) ==
    \/ e \in Undispatched
    \/ \E j \in queue : j.ev = e /\ ~j.torn
    \/ pc = "rewriting" /\ hand.ev = e

Buried(e) == \E j \in dead : j.ev = e

Status(e) ==
    IF e > published THEN "absent"
    ELSE IF e \in ok THEN "done"
    ELSE IF Buried(e) THEN "dead"
    ELSE IF e \in dropped \cup clobbered THEN "lost"
    ELSE "pending"

(* No event disappears but by success, the dead-letter directory, a crash, *)
(* a failed write or a job file of the same name: the cursor never jumps   *)
(* over an event published while another is being dispatched, and a retry  *)
(* never removes a file it does not replace (pipeline.rs run, re_enqueue). *)
NothingLostSilently == \A e \in 1..published : Status(e) = "pending" => Held(e)

(* The jobs read into memory by ready_jobs are still the files on disk     *)
(* when their turn comes, however long the dispatches before them took:    *)
(* complete, rename and re_enqueue act by name and would otherwise hit     *)
(* another job's file.                                                     *)
HasFile == pc \in {"retrying", "completing", "burying", "requeueing"}
SnapshotIsFresh == ready \cup (IF HasFile THEN {hand} ELSE {}) \subseteq queue

(* One event never has two job files, in one directory or in both: it      *)
(* would be retried twice, or retried after it was given up.               *)
OneFilePerEvent ==
    \A j, k \in queue \cup dead : j.ev = k.ev /\ ~j.torn /\ ~k.torn => j = k

(* A job that never succeeded is given up only after its first dispatch    *)
(* and MaxRetries retries (retry_queue.rs:24, with the off-by-one of       *)
(* re_enqueue), and its event is dispatched no more often than that but    *)
(* for one repetition per fault.                                           *)
RetriesAreCounted ==
    \A e \in 1..published :
        /\ tries[e] <= 1 + MaxRetries + faults
        /\ Buried(e) => tries[e] >= 1 + MaxRetries

(* A dead letter is kept for the operator: no later job of the same name   *)
(* replaces it and no restart removes it.                                  *)
DeadLettersKept == [][dead \subseteq dead']_dead

(* Once crashes and failed writes have stopped, every event is finished,   *)
(* given up or was lost before; none waits in the queue for ever.          *)
EveryEventSettles == \A e \in Events : Status(e) = "pending" ~> Status(e) # "pending"

(* The promise of the worker and its queue, whatever files are used for it. *)
Lifecycle == INSTANCE JobLifecycle
    WITH status <- [e \in Events |-> Status(e)], attempts <- tries
ImplementsLifecycle == Lifecycle!Spec

=============================================================================
