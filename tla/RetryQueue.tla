------------------------------ MODULE RetryQueue ------------------------------
(***************************************************************************)
(* The durable retry queue of src/crates/store/src/retry_queue.rs: two     *)
(* directories of JSON files, queue/retry and queue/dead-letter.  A file   *)
(* is named after the job's id, "<milliseconds>-<attempt>", so writing a   *)
(* job replaces whatever file already has that name.                       *)
(*                                                                         *)
(* A directory is a set of jobs no two of which have the same id.  The     *)
(* operators below are the queue's methods; the worker that calls them is  *)
(* in PipelineWorker.                                                      *)
(***************************************************************************)
EXTENDS Naturals, Sequences

CONSTANTS MaxRetries,    \* RetryQueue::max_retries
          BaseBackoff    \* RetryQueue::base_backoff_secs, in ticks of the clock

ASSUME RetryQueueAssumption ==
    /\ MaxRetries \in Nat \ {0}
    /\ BaseBackoff \in Nat \ {0}

VARIABLES now,     \* the wall clock
          queue,   \* the files of queue/retry
          dead     \* the files of queue/dead-letter

-----------------------------------------------------------------------------
(* A job file.  "ev" identifies the bus event whose dispatch failed; the   *)
(* program has no such identity once the event is a job, only its type.    *)
(* A torn file is one a crash left half written: it no longer parses.      *)
Job(Events, Types) ==
    [ms : Nat, attempt : Nat, due : Nat, ev : Events, type : Types, torn : BOOLEAN]

(* Mutant: a file named after the attempt alone. *)
JobId_NoTime(j) == <<j.attempt>>

(* The file name of a job, without its extension. *)
JobId(j) == <<j.ms, j.attempt>>

(* base * 2^min(attempt, 6). *)
Backoff(attempt) ==
    BaseBackoff * <<1, 2, 4, 8, 16, 32, 64>>[IF attempt < 6 THEN attempt + 1 ELSE 7]

NewJob(ev, type, attempt) ==
    [ms |-> now, attempt |-> attempt, due |-> now + Backoff(attempt),
     ev |-> ev, type |-> type, torn |-> FALSE]

(* The files of dir that share a job's name, and dir once j is written.    *)
Named(dir, j) == {k \in dir : JobId(k) = JobId(j)}
Written(dir, j) == (dir \ Named(dir, j)) \cup {j}

(* Mutant: the bound on attempts is off by one. *)
ShouldRetry_OffByOne(j) == j.attempt + 1 < MaxRetries /\ now >= j.due

ShouldRetry(j) == j.attempt < MaxRetries /\ now >= j.due

(* Mutant: the snapshot takes jobs that are not due. *)
ReadyJobs_NotDue == {j \in queue : ~j.torn /\ j.attempt < MaxRetries}

(* Every parsable job whose backoff is over; the worker takes them in the  *)
(* order they were created.                                                *)
ReadyJobs == {j \in queue : ~j.torn /\ ShouldRetry(j)}
Oldest(jobs) == {j \in jobs : \A k \in jobs : j.ms <= k.ms}

Enqueue(ev, type, attempt) == queue' = Written(queue, NewJob(ev, type, attempt))

(* A crash in the middle of the plain fs::write of enqueue. *)
EnqueueTorn(ev, type, attempt) ==
    queue' = Written(queue, [NewJob(ev, type, attempt) EXCEPT !.torn = TRUE])

Complete(j) == queue' = queue \ Named(queue, j)

(* Mutant: the job is copied to the dead letters, not moved. *)
MoveToDeadLetter_Copy(j) ==
    UNCHANGED queue /\ dead' = (dead \ Named(dead, j)) \cup Named(queue, j)

(* Does nothing when the source file is gone; otherwise a rename, which    *)
(* replaces a dead letter of the same name.                                *)
MoveToDeadLetter(j) ==
    /\ queue' = queue \ Named(queue, j)
    /\ dead' = IF Named(queue, j) = {} THEN dead
               ELSE (dead \ Named(dead, j)) \cup Named(queue, j)

(* Mutant: one retry too few. *)
LastAttempt_Early(j) == j.attempt + 2 >= MaxRetries

(* re_enqueue gives a job up when its next attempt would be the last. *)
LastAttempt(j) == j.attempt + 1 >= MaxRetries

(* The clock matters only while a file still bears the present time or     *)
(* waits for a later one, so it need not tick otherwise.                   *)
ClockTick ==
    /\ \/ \E j \in queue : j.ms = now \/ j.due > now
       \/ \E j \in dead : j.ms = now
    /\ now' = now + 1
=============================================================================
