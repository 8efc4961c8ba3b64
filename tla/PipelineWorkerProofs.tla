------------------------- MODULE PipelineWorkerProofs -------------------------
(* Theorems about PipelineWorker, for every number of retries, backoff,    *)
(* set of types and bound on the events and the faults.                    *)
EXTENDS PipelineWorker, TLAPS

(* The backoff is positive: 1 to 64 times the base. *)
LEMMA BackoffPositive ==
    ASSUME NEW a \in Nat
    PROVE  Backoff(a) \in Nat \ {0}
<1>1. CASE a = 0 BY <1>1, RetryQueueAssumption DEF Backoff
<1>2. CASE a = 1 BY <1>2, RetryQueueAssumption DEF Backoff
<1>3. CASE a = 2 BY <1>3, RetryQueueAssumption DEF Backoff
<1>4. CASE a = 3 BY <1>4, RetryQueueAssumption DEF Backoff
<1>5. CASE a = 4 BY <1>5, RetryQueueAssumption DEF Backoff
<1>6. CASE a = 5 BY <1>6, RetryQueueAssumption DEF Backoff
<1>7. CASE a >= 6
  <2>1. ~(a < 6) BY <1>7
  <2>2. Backoff(a) = BaseBackoff * 64 BY <2>1 DEF Backoff
  <2> QED BY <2>2, RetryQueueAssumption
<1> QED BY <1>1, <1>2, <1>3, <1>4, <1>5, <1>6, <1>7

(* A new job is a job, bears the present time and is due later. *)
LEMMA NewJobIsJob ==
    ASSUME now \in Nat, NEW e \in Events, NEW t \in Types, NEW a \in Nat
    PROVE  /\ NewJob(e, t, a) \in Jobs
           /\ [NewJob(e, t, a) EXCEPT !.torn = TRUE] \in Jobs
           /\ NewJob(e, t, a).ms = now
           /\ NewJob(e, t, a).due > now
<1>1. Backoff(a) \in Nat \ {0} BY BackoffPositive
<1>2. now + Backoff(a) \in Nat /\ now + Backoff(a) > now BY <1>1
<1> QED BY <1>2 DEF NewJob, Jobs, Job

LEMMA ElementOfSeq ==
    ASSUME NEW S, NEW s \in Seq(S), NEW i \in 1..Len(s)
    PROVE  s[i] \in S
OBVIOUS

(* The worker's position: the cursor is within the log, the event being    *)
(* enqueued is one of the log, the job in hand is one.                     *)
InHand == HasFile \/ pc = "rewriting"
PositionOK ==
    /\ cursor <= Len(bus)
    /\ pc = "enqueueing" => pos <= cursor
    /\ InHand => hand \in Jobs

TypeInv == TypeOK /\ PositionOK

LEMMA TypeInvInit == Init => TypeInv
BY PipelineAssumption DEF Init, TypeInv, TypeOK, PositionOK, PCs, InHand, HasFile, Events

LEMMA TypeInvNext == TypeInv /\ [Next]_vars => TypeInv'
<1> SUFFICES ASSUME TypeInv, [Next]_vars PROVE TypeInv'
    OBVIOUS
<1> USE DEF TypeInv, TypeOK, PositionOK, InHand, HasFile, PCs
<1>a. MaxEvents \in Nat /\ MaxFaults \in Nat /\ Processed \in Types
    BY PipelineAssumption
<1>b. Fault => faults' \in 0..MaxFaults
    BY <1>a DEF Fault
<1>c. ASSUME NEW t \in Types, Append1(t)
      PROVE  /\ published' \in 0..MaxEvents
             /\ bus' \in Seq([ev : Events, type : Types])
             /\ cursor <= Len(bus')
    <2>1. published + 1 \in Events BY <1>a, <1>c DEF Append1, Events
    <2>2. [ev |-> published + 1, type |-> t] \in [ev : Events, type : Types] BY <2>1
    <2>3. bus' = Append(bus, [ev |-> published + 1, type |-> t]) BY <1>c DEF Append1
    <2>0. bus \in Seq([ev : Events, type : Types]) OBVIOUS
    <2>4. bus' \in Seq([ev : Events, type : Types]) /\ Len(bus') = Len(bus) + 1
        BY <2>0, <2>2, <2>3
    <2>5. Len(bus) \in Nat /\ cursor \in Nat BY <2>0
    <2>6. cursor <= Len(bus') BY <2>4, <2>5
    <2> QED BY <2>1, <2>4, <2>6, <1>c, <1>a DEF Append1, Events
<1>d. ASSUME NEW i \in 1..Len(bus)
      PROVE  bus[i] \in [ev : Events, type : Types] /\ bus[i].ev \in Events /\ bus[i].type \in Types
    <2>1. bus \in Seq([ev : Events, type : Types]) OBVIOUS
    <2>2. bus[i] \in [ev : Events, type : Types] BY <2>1, ElementOfSeq
    <2> QED BY <2>2
<1>e. ASSUME NEW j \in Jobs
      PROVE  /\ j.ev \in Events /\ j.type \in Types /\ j.attempt \in Nat /\ j.attempt + 1 \in Nat
             /\ Named(queue, j) \subseteq Jobs
    BY DEF Jobs, Job, Named
<1>f. ASSUME NEW j \in Jobs
      PROVE  Written(queue, j) \subseteq Jobs
    BY <1>f DEF Written
<1>1. ASSUME NEW t \in Types, Publish(t) PROVE TypeInv'
    BY <1>1, <1>c DEF Publish
<1>2. CASE Tick
    BY <1>2 DEF Tick, ClockTick, wvars, hvars
<1>3. CASE DispatchPublishes
    BY <1>3, <1>a, <1>c DEF DispatchPublishes
<1>4. CASE StartCycle
    <2>1. ready' \subseteq Jobs BY <1>4 DEF StartCycle, ReadyJobs
    <2>2. faults' \in 0..MaxFaults BY <1>4, <1>b DEF StartCycle
    <2> QED BY <1>4, <2>1, <2>2 DEF StartCycle
<1>5. CASE TakeRetry
    BY <1>5 DEF TakeRetry, Oldest, hvars
<1>6. CASE RetryReturns
    <2>1. hand.ev \in Events BY <1>6, <1>e DEF RetryReturns
    <2> QED BY <1>6, <2>1 DEF RetryReturns
<1>7. CASE CompleteRetry
    BY <1>7, <1>b DEF CompleteRetry, Complete
<1>8. CASE BuryRetry
    <2>1. hand \in Jobs BY <1>8 DEF BuryRetry
    <2>2. queue' \subseteq Jobs /\ dead' \subseteq Jobs
        BY <1>8, <2>1, <1>e DEF BuryRetry, MoveToDeadLetter
    <2> QED BY <1>8, <1>b, <2>2 DEF BuryRetry
<1>9. CASE RequeueRemoves
    BY <1>9, <1>b DEF RequeueRemoves, Complete
<1>g. ASSUME NEW e \in Events, NEW t \in Types, NEW a \in Nat, WriteJob(e, t, a)
      PROVE  /\ queue' \subseteq Jobs /\ clobbered' \subseteq Events
             /\ dropped' \subseteq Events /\ faults' \in 0..MaxFaults
    <2>1. NewJob(e, t, a) \in Jobs BY NewJobIsJob
    <2>2. Named(queue, NewJob(e, t, a)) \subseteq Jobs BY <1>e, <2>1
    <2>3. \A k \in Jobs : k.ev \in Events BY <1>e
    <2> QED BY <1>g, <1>b, <1>f, <2>1, <2>2, <2>3 DEF WriteJob, Enqueue
<1>10. CASE RequeueWrites
    <2>1. hand \in Jobs BY <1>10 DEF RequeueWrites
    <2>2. /\ queue' \subseteq Jobs /\ clobbered' \subseteq Events
          /\ dropped' \subseteq Events /\ faults' \in 0..MaxFaults
        BY <1>10, <1>e, <1>g, <2>1 DEF RequeueWrites
    <2> QED BY <1>10, <2>2 DEF RequeueWrites
<1>11. CASE ReadBus
    BY <1>11 DEF ReadBus, hvars
<1>12. CASE DispatchReturns
    <2>1. pos \in 1..Len(bus) BY <1>12 DEF DispatchReturns
    <2>2. bus[pos].ev \in Events BY <2>1, <1>d
    <2>3. tries' \in [Events -> Nat] BY <1>12, <2>2 DEF DispatchReturns
    <2>4. CASE ok' = ok \cup {bus[pos].ev} /\ pos' = pos + 1 /\ UNCHANGED pc
        BY <1>12, <2>2, <2>3, <2>4 DEF DispatchReturns
    <2>5. CASE pc' = "enqueueing" /\ UNCHANGED <<pos, ok>>
        BY <1>12, <2>3, <2>5 DEF DispatchReturns
    <2> QED BY <1>12, <2>4, <2>5 DEF DispatchReturns
<1>13. CASE EnqueueFailed
    <2>1. pos \in 1..Len(bus) BY <1>13 DEF EnqueueFailed
    <2>2. bus[pos].ev \in Events /\ bus[pos].type \in Types BY <2>1, <1>d
    <2>3. /\ queue' \subseteq Jobs /\ clobbered' \subseteq Events
          /\ dropped' \subseteq Events /\ faults' \in 0..MaxFaults
        BY <1>13, <1>g, <2>2 DEF EnqueueFailed
    <2> QED BY <1>13, <2>3 DEF EnqueueFailed
<1>14. CASE EndCycle
    BY <1>14 DEF EndCycle, hvars
<1>15. CASE Crash
    <2>1. queue' \subseteq Jobs
      <3>1. CASE UNCHANGED queue BY <3>1
      <3>2. CASE pc = "rewriting" /\ EnqueueTorn(hand.ev, hand.type, hand.attempt + 1)
          BY <3>2, <1>e, <1>f, NewJobIsJob DEF EnqueueTorn
      <3>3. CASE pc = "enqueueing" /\ EnqueueTorn(bus[pos].ev, bus[pos].type, 0)
        <4>1. bus[pos].ev \in Events /\ bus[pos].type \in Types BY <3>3, <1>d
        <4>2. [NewJob(bus[pos].ev, bus[pos].type, 0) EXCEPT !.torn = TRUE] \in Jobs
            BY <4>1, NewJobIsJob
        <4> QED BY <3>3, <4>2, <1>f DEF EnqueueTorn
      <3> QED BY <1>15, <3>1, <3>2, <3>3 DEF Crash
    <2>2. dropped' \subseteq Events
      <3>1. Undispatched \subseteq Events BY <1>d DEF Undispatched
      <3>2. \A k \in queue \ queue' : k.ev \in Events BY <1>e
      <3>3. pc = "rewriting" => hand.ev \in Events BY <1>e
      <3> QED BY <1>15, <3>1, <3>2, <3>3 DEF Crash
    <2>3. bus' \in Seq([ev : Events, type : Types]) /\ Len(bus') = 0
        BY <1>15 DEF Crash
    <2>4. faults' \in 0..MaxFaults BY <1>15, <1>b DEF Crash
    <2> QED BY <1>15, <2>1, <2>2, <2>3, <2>4 DEF Crash
<1>16. CASE UNCHANGED vars
    BY <1>16 DEF vars, wvars, hvars
<1> QED
    BY <1>1, <1>2, <1>3, <1>4, <1>5, <1>6, <1>7, <1>8, <1>9, <1>10, <1>11,
       <1>12, <1>13, <1>14, <1>15, <1>16 DEF Next, Worker

(* Every variable of the worker and its queue keeps its type. *)
THEOREM TypeCorrect == Spec => []TypeOK
<1>1. TypeInv => TypeOK BY DEF TypeInv
<1> QED BY TypeInvInit, TypeInvNext, <1>1, PTL DEF Spec

(***************************************************************************)
(* Names on disk.  SnapshotIsFresh is not inductive by itself: that no     *)
(* file in the snapshot is ever replaced rests on the times in the names.  *)
(* A job is due strictly after the time it is named after, so whatever is  *)
(* due, in hand or dead bears an earlier time than a file written now; and *)
(* no name is used twice, in one directory or in both.                     *)
(***************************************************************************)
NamesInv ==
    /\ \A j \in queue : j.ms <= now /\ j.due > j.ms
    /\ \A d \in dead : d.ms < now
    /\ \A j, k \in queue : JobId(j) = JobId(k) => j = k
    /\ \A j \in queue : \A d \in dead : JobId(j) # JobId(d)
    /\ \A j \in ready : j \in queue /\ j.due <= now
    /\ HasFile => hand \in queue /\ hand \notin ready /\ hand.due <= now

FilesInv == TypeInv /\ NamesInv

LEMMA FilesInvInit == Init => FilesInv
BY TypeInvInit DEF Init, FilesInv, NamesInv, HasFile

(* The fields of a job that the times compare. *)
LEMMA JobFields ==
    ASSUME NEW j \in Jobs
    PROVE  j.ms \in Nat /\ j.due \in Nat /\ j.attempt \in Nat
BY DEF Jobs, Job

LEMMA SameName ==
    ASSUME NEW j, NEW k, JobId(j) = JobId(k)
    PROVE  j.ms = k.ms
BY DEF JobId

(* Writing a job named after the present time disturbs no due file.        *)
LEMMA WritingKeepsNames ==
    ASSUME TypeInv, NamesInv,
           NEW j \in Jobs, j.ms = now, j.due > now,
           queue' = Written(queue, j)
    PROVE  /\ \A k \in queue' : k.ms <= now /\ k.due > k.ms
           /\ \A k, l \in queue' : JobId(k) = JobId(l) => k = l
           /\ \A k \in queue' : \A d \in dead : JobId(k) # JobId(d)
           /\ \A k \in queue : k.ms < now => k \in queue'
<1> now \in Nat /\ queue \subseteq Jobs /\ dead \subseteq Jobs
    BY DEF TypeInv, TypeOK
<1>1. \A k \in queue' : k = j \/ (k \in queue /\ JobId(k) # JobId(j))
    BY DEF Written, Named
<1>2. \A d \in dead : JobId(d) # JobId(j)
    BY SameName, JobFields DEF NamesInv
<1>3. \A k \in queue : k.ms < now => k \in queue'
    <2> SUFFICES ASSUME NEW k \in queue, k.ms < now PROVE k \in queue'
        OBVIOUS
    <2>1. JobId(k) # JobId(j) BY SameName, JobFields
    <2> QED BY <2>1 DEF Written, Named
<1>4. \A k \in queue' : k.ms <= now /\ k.due > k.ms
    BY <1>1, JobFields DEF NamesInv
<1>5. \A k, l \in queue' : JobId(k) = JobId(l) => k = l
    BY <1>1 DEF NamesInv
<1>6. \A k \in queue' : \A d \in dead : JobId(k) # JobId(d)
    BY <1>1, <1>2 DEF NamesInv
<1> QED BY <1>3, <1>4, <1>5, <1>6

(* A due file bears an earlier time. *)
LEMMA DueIsOlder ==
    ASSUME TypeInv, NamesInv, NEW j \in queue, j.due <= now
    PROVE  j.ms < now
BY JobFields DEF NamesInv, TypeInv, TypeOK

(* Removing the file of the job in hand removes that file only. *)
LEMMA HandNamesOneFile ==
    ASSUME TypeInv, NamesInv, HasFile
    PROVE  Named(queue, hand) = {hand}
BY DEF NamesInv, Named

LEMMA NamesInvNext == FilesInv /\ [Next]_vars => NamesInv'
<1> SUFFICES ASSUME TypeInv, NamesInv, [Next]_vars PROVE NamesInv'
    BY DEF FilesInv
<1> now \in Nat /\ queue \subseteq Jobs /\ dead \subseteq Jobs /\ ready \subseteq Jobs
    BY DEF TypeInv, TypeOK
<1> USE DEF HasFile
<1>1. ASSUME NEW t \in Types, Publish(t) PROVE NamesInv'
    BY <1>1 DEF Publish, NamesInv
<1>2. CASE Tick
  <2>1. now' = now + 1 /\ UNCHANGED <<queue, dead, ready, hand, pc>>
      BY <1>2 DEF Tick, ClockTick, wvars
  <2>2. \A j \in Jobs : /\ j.ms <= now => j.ms <= now'
                        /\ j.ms < now => j.ms < now'
                        /\ j.due <= now => j.due <= now'
      BY <2>1, JobFields
  <2>3. HasFile => hand \in Jobs BY DEF TypeInv, PositionOK, InHand
  <2> QED BY <2>1, <2>2, <2>3 DEF NamesInv
<1>3. CASE DispatchPublishes
    BY <1>3 DEF DispatchPublishes, NamesInv
<1>4. CASE StartCycle
  <2>1. \A j \in ready' : j \in queue /\ j.due <= now
      BY <1>4, JobFields DEF StartCycle, ReadyJobs, ShouldRetry
  <2> QED BY <1>4, <2>1 DEF StartCycle, NamesInv
<1>5. CASE TakeRetry
    BY <1>5 DEF TakeRetry, Oldest, NamesInv
<1>6. CASE RetryReturns
    BY <1>6 DEF RetryReturns, NamesInv
<1>7. CASE CompleteRetry
  <2>1. Named(queue, hand) = {hand} BY <1>7, HandNamesOneFile DEF CompleteRetry
  <2>2. queue' = queue \ {hand} \/ (queue' = queue /\ ready' = {})
      BY <1>7, <2>1 DEF CompleteRetry, Complete
  <2>3. hand \notin ready /\ ready' \subseteq ready BY <1>7 DEF CompleteRetry, NamesInv
  <2> QED BY <1>7, <2>2, <2>3 DEF CompleteRetry, NamesInv
<1>8. CASE BuryRetry
  <2>1. hand \in queue /\ hand \notin ready /\ hand.ms < now /\ Named(queue, hand) = {hand}
      BY <1>8, HandNamesOneFile, DueIsOlder DEF BuryRetry, NamesInv
  <2>2. CASE MoveToDeadLetter(hand)
    <3>1. queue' = queue \ {hand} /\ dead' \subseteq dead \cup {hand}
        BY <2>1, <2>2 DEF MoveToDeadLetter
    <3>2. \A j \in queue' : JobId(j) # JobId(hand) BY <2>1, <3>1 DEF NamesInv
    <3> QED BY <1>8, <2>1, <3>1, <3>2 DEF BuryRetry, NamesInv
  <2>3. CASE UNCHANGED <<queue, dead>>
      BY <1>8, <2>3 DEF BuryRetry, NamesInv
  <2> QED BY <1>8, <2>2, <2>3 DEF BuryRetry
<1>9. CASE RequeueRemoves
  <2>1. Named(queue, hand) = {hand} BY <1>9, HandNamesOneFile DEF RequeueRemoves
  <2>2. queue' = queue \ {hand} \/ queue' = queue
      BY <1>9, <2>1 DEF RequeueRemoves, Complete
  <2> QED BY <1>9, <2>2 DEF RequeueRemoves, NamesInv
<1>a. ASSUME NEW e \in Events, NEW t \in Types, NEW a \in Nat, WriteJob(e, t, a)
      PROVE  /\ \A k \in queue' : k.ms <= now /\ k.due > k.ms
             /\ \A k, l \in queue' : JobId(k) = JobId(l) => k = l
             /\ \A k \in queue' : \A d \in dead : JobId(k) # JobId(d)
             /\ \A k \in queue : k.ms < now => k \in queue'
  <2>1. CASE Enqueue(e, t, a)
      BY <2>1, WritingKeepsNames, NewJobIsJob DEF Enqueue
  <2>2. CASE UNCHANGED queue
      BY <2>2 DEF NamesInv
  <2> QED BY <1>a, <2>1, <2>2 DEF WriteJob
<1>b. \A j \in ready : j.ms < now /\ j.due <= now
    BY DueIsOlder DEF NamesInv
<1>10. CASE RequeueWrites
  <2>1. hand \in Jobs BY <1>10 DEF RequeueWrites, TypeInv, PositionOK, InHand
  <2>2. hand.ev \in Events /\ hand.type \in Types /\ hand.attempt + 1 \in Nat
      BY <2>1 DEF Jobs, Job
  <2>3. WriteJob(hand.ev, hand.type, hand.attempt + 1) BY <1>10 DEF RequeueWrites
  <2> QED BY <1>10, <1>a, <1>b, <2>2, <2>3 DEF RequeueWrites, NamesInv
<1>11. CASE ReadBus
    BY <1>11 DEF ReadBus, NamesInv
<1>12. CASE DispatchReturns
    BY <1>12 DEF DispatchReturns, NamesInv
<1>c. pc = "enqueueing" => bus[pos].ev \in Events /\ bus[pos].type \in Types
  <2>1. bus \in Seq([ev : Events, type : Types]) BY DEF TypeInv, TypeOK
  <2>2. pc = "enqueueing" => pos \in 1..Len(bus)
      BY <2>1 DEF TypeInv, TypeOK, PositionOK
  <2>3. pc = "enqueueing" => bus[pos] \in [ev : Events, type : Types]
      BY <2>1, <2>2, ElementOfSeq
  <2> QED BY <2>3
<1>13. CASE EnqueueFailed
  <2>1. WriteJob(bus[pos].ev, bus[pos].type, 0) BY <1>13 DEF EnqueueFailed
  <2> QED BY <1>13, <1>a, <1>b, <1>c, <2>1 DEF EnqueueFailed, NamesInv
<1>14. CASE EndCycle
    BY <1>14 DEF EndCycle, NamesInv
<1>15. CASE Crash
  <2>1. /\ \A k \in queue' : k.ms <= now /\ k.due > k.ms
        /\ \A k, l \in queue' : JobId(k) = JobId(l) => k = l
        /\ \A k \in queue' : \A d \in dead : JobId(k) # JobId(d)
    <3>1. CASE UNCHANGED queue BY <3>1 DEF NamesInv
    <3>a. ASSUME NEW e \in Events, NEW t \in Types, NEW a \in Nat, EnqueueTorn(e, t, a)
          PROVE  <2>1
      <4> DEFINE j == [NewJob(e, t, a) EXCEPT !.torn = TRUE]
      <4>1. j \in Jobs /\ j.ms = now /\ j.due > now BY NewJobIsJob DEF NewJob
      <4>2. queue' = Written(queue, j) BY <3>a DEF EnqueueTorn
      <4> HIDE DEF j
      <4> QED BY <4>1, <4>2, WritingKeepsNames
    <3>2. CASE pc = "rewriting" /\ EnqueueTorn(hand.ev, hand.type, hand.attempt + 1)
      <4>1. hand.ev \in Events /\ hand.type \in Types /\ hand.attempt + 1 \in Nat
          BY <3>2 DEF TypeInv, PositionOK, InHand, Jobs, Job
      <4> QED BY <3>2, <3>a, <4>1
    <3>3. CASE pc = "enqueueing" /\ EnqueueTorn(bus[pos].ev, bus[pos].type, 0)
        BY <3>3, <3>a, <1>c
    <3> QED BY <1>15, <3>1, <3>2, <3>3 DEF Crash
  <2> QED BY <1>15, <2>1 DEF Crash, NamesInv
<1>16. CASE UNCHANGED vars
    BY <1>16 DEF vars, wvars, NamesInv
<1> QED
    BY <1>1, <1>2, <1>3, <1>4, <1>5, <1>6, <1>7, <1>8, <1>9, <1>10, <1>11,
       <1>12, <1>13, <1>14, <1>15, <1>16 DEF Next, Worker

LEMMA FilesInvAlways == Spec => []FilesInv
<1>1. FilesInv /\ [Next]_vars => FilesInv'
    BY TypeInvNext, NamesInvNext DEF FilesInv
<1> QED BY FilesInvInit, <1>1, PTL DEF Spec

(* What ready_jobs read is still on disk when its turn comes.              *)
THEOREM SnapshotAlwaysFresh == Spec => []SnapshotIsFresh
<1>1. FilesInv => SnapshotIsFresh
    BY DEF FilesInv, NamesInv, SnapshotIsFresh, HasFile
<1> QED BY FilesInvAlways, <1>1, PTL

(* No dead letter is ever replaced or removed. *)
THEOREM DeadLettersAlwaysKept == Spec => DeadLettersKept
<1>1. FilesInv /\ [Next]_vars => [dead \subseteq dead']_dead
  <2> SUFFICES ASSUME FilesInv, Next PROVE dead \subseteq dead'
      BY DEF vars
  <2>1. CASE BuryRetry /\ MoveToDeadLetter(hand)
    <3>1. hand \in queue BY <2>1 DEF BuryRetry, FilesInv, NamesInv, HasFile
    <3>2. \A d \in dead : JobId(d) # JobId(hand) BY <3>1 DEF FilesInv, NamesInv
    <3>3. Named(dead, hand) = {} BY <3>2 DEF Named
    <3> QED BY <2>1, <3>3 DEF MoveToDeadLetter
  <2>2. ~(BuryRetry /\ MoveToDeadLetter(hand)) => UNCHANGED dead
      BY DEF Next, Worker, Publish, Tick, DispatchPublishes, StartCycle, TakeRetry,
             RetryReturns, CompleteRetry, BuryRetry, RequeueRemoves, RequeueWrites,
             ReadBus, DispatchReturns, EnqueueFailed, EndCycle, Crash
  <2> QED BY <2>1, <2>2
<1> QED BY FilesInvAlways, <1>1, PTL DEF Spec, DeadLettersKept

(***************************************************************************)
(* Where an event is.  It waits on the bus, is in one file, or is in hand  *)
(* between two files, never in two of these places at once.                *)
(***************************************************************************)
Waiting == pos..Len(bus)

PlacesInv ==
    /\ pos <= cursor + 1
    /\ \A i, k \in Waiting : bus[i].ev = bus[k].ev => i = k
    /\ \A i \in Waiting : bus[i].ev <= published
    /\ \A j \in queue \cup dead : j.ev <= published
    /\ \A j \in ready : ~j.torn
    /\ InHand => ~hand.torn /\ hand.ev <= published

OneFileInv ==
    /\ OneFilePerEvent
    /\ \A i \in Waiting : \A j \in queue \cup dead : ~j.torn => j.ev # bus[i].ev
    /\ pc = "rewriting" => /\ \A j \in queue \cup dead : ~j.torn => j.ev # hand.ev
                           /\ \A i \in Waiting : bus[i].ev # hand.ev

WhereInv == FilesInv /\ PlacesInv /\ OneFileInv

(* What the actions below need of the types.                               *)
LEMMA Shapes ==
    ASSUME TypeInv
    PROVE  /\ now \in Nat /\ published \in Nat /\ cursor \in Nat /\ pos \in Nat \ {0} /\ Len(bus) \in Nat
           /\ queue \subseteq Jobs /\ dead \subseteq Jobs /\ ready \subseteq Jobs
           /\ cursor <= Len(bus) /\ (InHand => hand \in Jobs) /\ faults \in Nat
           /\ \A i \in 1..Len(bus) : bus[i].ev \in Events /\ bus[i].type \in Types
<1>1. bus \in Seq([ev : Events, type : Types])
  BY DEF TypeInv, TypeOK
<1>2. \A i \in 1..Len(bus) : bus[i] \in [ev : Events, type : Types]
  BY <1>1, ElementOfSeq
<1>3. \A i \in 1..Len(bus) : bus[i].ev \in Events /\ bus[i].type \in Types
  BY <1>2
<1>4. Len(bus) \in Nat
  BY <1>1
<1> QED
  BY <1>3, <1>4, PipelineAssumption DEF TypeInv, TypeOK, PositionOK

LEMMA JobEvent ==
    ASSUME NEW j \in Jobs
    PROVE  j.ev \in Events /\ j.ev \in Nat /\ j.type \in Types /\ j.attempt \in Nat /\ j.torn \in BOOLEAN
  BY PipelineAssumption DEF Jobs, Job, Events

LEMMA WhereInit == Init => WhereInv
<1> SUFFICES ASSUME Init PROVE WhereInv
  OBVIOUS
<1>1. Len(bus) = 0 /\ Waiting = {} /\ queue = {} /\ dead = {} /\ ready = {} /\ pc = "tick"
  BY DEF Init, Waiting
<1>2. PlacesInv /\ OneFileInv
  BY <1>1 DEF Init, PlacesInv, OneFileInv, OneFilePerEvent, InHand, HasFile
<1> QED
  BY <1>2, FilesInvInit DEF WhereInv

(* A new event waits at the end of the log.                                *)
LEMMA Appends ==
    ASSUME TypeInv, PlacesInv, NEW t \in Types, Append1(t), UNCHANGED pos
    PROVE  /\ Waiting' = Waiting \cup {Len(bus) + 1} /\ Len(bus) + 1 \notin Waiting
           /\ \A i \in Waiting : bus'[i] = bus[i]
           /\ bus'[Len(bus) + 1].ev = published + 1 /\ published' = published + 1
<1>1. bus \in Seq([ev : Events, type : Types]) /\ published \in 0..MaxEvents /\ pos \in Nat \ {0}
  BY DEF TypeInv, TypeOK
<1>2. published + 1 \in Events /\ published' = published + 1
  BY <1>1, PipelineAssumption DEF Append1, Events
<1>3. bus' = Append(bus, [ev |-> published + 1, type |-> t])
  BY DEF Append1
<1> DEFINE e == [ev |-> published + 1, type |-> t]
<1>4. e \in [ev : Events, type : Types] /\ e.ev = published + 1
  BY <1>2
<1> HIDE DEF e
<1>5. /\ Len(bus') = Len(bus) + 1 /\ bus'[Len(bus) + 1] = e
      /\ \A i \in 1..Len(bus) : bus'[i] = bus[i]
  BY <1>1, <1>3, <1>4 DEF e
<1>6. pos <= Len(bus) + 1 /\ Len(bus) \in Nat
  BY Shapes DEF PlacesInv
<1> QED
  BY <1>1, <1>2, <1>4, <1>5, <1>6 DEF Waiting

LEMMA AppendsWhere ==
    ASSUME TypeInv, PlacesInv, OneFileInv, NEW t \in Types, Append1(t),
           UNCHANGED <<queue, dead, cursor, pos, ready, hand, pc>>
    PROVE  PlacesInv' /\ OneFileInv'
<1>1. /\ Waiting' = Waiting \cup {Len(bus) + 1} /\ Len(bus) + 1 \notin Waiting
      /\ \A i \in Waiting : bus'[i] = bus[i]
      /\ bus'[Len(bus) + 1].ev = published + 1 /\ published' = published + 1
  BY Appends
<1>2. published \in Nat /\ Waiting \subseteq 1..Len(bus)
  BY Shapes DEF Waiting
<1>3. \A i \in Waiting : bus[i].ev \in Nat /\ bus[i].ev <= published
  BY <1>2, Shapes DEF PlacesInv, Events
<1>4. \A j \in queue \cup dead : j.ev \in Nat /\ j.ev <= published
  BY Shapes, JobEvent DEF PlacesInv
<1>5. InHand => hand.ev \in Nat /\ hand.ev <= published
  BY Shapes, JobEvent DEF PlacesInv
<1>6. PlacesInv'
  BY <1>1, <1>2, <1>3, <1>4, <1>5 DEF PlacesInv, InHand, HasFile
<1>7. OneFileInv'
  BY <1>1, <1>2, <1>3, <1>4, <1>5 DEF OneFileInv, OneFilePerEvent, InHand
<1> QED
  BY <1>6, <1>7

(* The steps that move the task on and leave the events where they are.    *)
LEMMA QuietWhere ==
    ASSUME TypeInv, PlacesInv, OneFileInv,
           UNCHANGED <<queue, dead, bus, pos, published>>,
           cursor <= cursor', cursor' \in Nat, ready' \subseteq ready \/ ready' \subseteq ReadyJobs,
           pc' # "rewriting",
           HasFile' => ~hand'.torn /\ hand'.ev <= published
    PROVE  PlacesInv' /\ OneFileInv'
<1>1. Waiting' = Waiting
  BY DEF Waiting
<1>2. pos <= cursor' + 1
  BY Shapes DEF PlacesInv
<1>3. PlacesInv'
  BY <1>1, <1>2 DEF PlacesInv, ReadyJobs, InHand
<1>4. OneFileInv'
  BY <1>1 DEF OneFileInv, OneFilePerEvent
<1> QED
  BY <1>3, <1>4

(* Files go, and one of them may become a dead letter.                     *)
LEMMA RemovesWhere ==
    ASSUME TypeInv, PlacesInv, OneFileInv,
           UNCHANGED <<bus, pos, published, cursor>>, ready' \subseteq ready,
           queue' \subseteq queue, queue' \cup dead' \subseteq queue \cup dead, ~HasFile',
           pc' = "rewriting" => /\ hand' = hand /\ InHand /\ hand \in queue \cup dead
                                /\ hand \notin queue' \cup dead'
    PROVE  PlacesInv' /\ OneFileInv'
<1>1. Waiting' = Waiting
  BY DEF Waiting
<1>2. PlacesInv'
  BY <1>1 DEF PlacesInv, InHand
<1>3. OneFilePerEvent'
  BY DEF OneFileInv, OneFilePerEvent
<1>4. pc' = "rewriting" => ~hand.torn /\ \A j \in queue' \cup dead' : ~j.torn => j.ev # hand.ev
  BY DEF PlacesInv, OneFileInv, OneFilePerEvent
<1>5. OneFileInv'
  BY <1>1, <1>3, <1>4 DEF OneFileInv, PlacesInv
<1> QED
  BY <1>2, <1>5

(* A file is written for an event that has none.                           *)
LEMMA WritesWhere ==
    ASSUME TypeInv, PlacesInv, OneFileInv, NEW j \in Jobs, queue' \in {queue, Written(queue, j)},
           UNCHANGED <<dead, bus, published, cursor, ready>>, j.ev <= published,
           pos' \in Nat, pos <= pos', pos' <= cursor + 1, ~InHand',
           ~j.torn => /\ \A k \in queue \cup dead : ~k.torn => k.ev # j.ev
                      /\ \A i \in Waiting' : bus[i].ev # j.ev
    PROVE  PlacesInv' /\ OneFileInv'
<1>1. Waiting' \subseteq Waiting
  BY Shapes DEF Waiting
<1>2. queue' \subseteq queue \cup {j}
  BY DEF Written
<1>3. PlacesInv'
  BY <1>1, <1>2 DEF PlacesInv
<1>4. OneFilePerEvent'
  BY <1>2 DEF OneFileInv, OneFilePerEvent
<1>5. OneFileInv'
  BY <1>1, <1>2, <1>4 DEF OneFileInv, InHand
<1> QED
  BY <1>3, <1>5

LEMMA NewJobFields ==
    ASSUME NEW e, NEW t, NEW a
    PROVE  NewJob(e, t, a).ev = e /\ ~NewJob(e, t, a).torn
  BY DEF NewJob

LEMMA WriteJobWhere ==
    ASSUME TypeInv, PlacesInv, OneFileInv, NEW e \in Events, NEW t \in Types, NEW a \in Nat,
           WriteJob(e, t, a), e <= published,
           UNCHANGED <<dead, bus, published, cursor, ready>>,
           pos' \in Nat, pos <= pos', pos' <= cursor + 1, pc' \in {"retries", "batch"},
           \A k \in queue \cup dead : ~k.torn => k.ev # e,
           \A i \in Waiting' : bus[i].ev # e
    PROVE  PlacesInv' /\ OneFileInv'
<1> DEFINE j == NewJob(e, t, a)
<1>1. j \in Jobs /\ j.ev = e
  BY NewJobIsJob, NewJobFields, Shapes
<1>2. queue' \in {queue, Written(queue, j)}
  BY DEF WriteJob, Enqueue
<1> HIDE DEF j
<1>3. ~InHand'
  BY DEF InHand, HasFile
<1> QED
  BY <1>1, <1>2, <1>3, WritesWhere

LEMMA CrashWhere ==
    ASSUME TypeInv, PlacesInv, OneFileInv, Crash
    PROVE  PlacesInv' /\ OneFileInv'
<1>1. /\ bus' = <<>> /\ pos' = 1 /\ cursor' = 0 /\ ready' = {} /\ pc' = "tick"
      /\ UNCHANGED <<dead, published>>
  BY DEF Crash
<1>2. Waiting' = {}
  BY <1>1 DEF Waiting
<1>3. ASSUME NEW e \in Events, e <= published, NEW t \in Types, NEW a \in Nat, EnqueueTorn(e, t, a)
      PROVE  \E j \in Jobs : j.torn /\ j.ev <= published /\ queue' \subseteq queue \cup {j}
  <2> DEFINE j == [NewJob(e, t, a) EXCEPT !.torn = TRUE]
  <2>1. j \in Jobs /\ j.torn /\ j.ev = e
    BY NewJobIsJob, Shapes DEF NewJob
  <2>2. queue' \subseteq queue \cup {j}
    BY <1>3 DEF EnqueueTorn, Written
  <2> QED
    BY <1>3, <2>1, <2>2
<1>4. queue' = queue \/ \E j \in Jobs : j.torn /\ j.ev <= published /\ queue' \subseteq queue \cup {j}
  <2>1. CASE UNCHANGED queue
    BY <2>1
  <2>2. CASE pc = "rewriting" /\ EnqueueTorn(hand.ev, hand.type, hand.attempt + 1)
    <3>1. hand \in Jobs /\ hand.ev <= published
      BY <2>2, Shapes DEF PlacesInv, InHand
    <3>2. hand.ev \in Events /\ hand.type \in Types /\ hand.attempt + 1 \in Nat
      BY <3>1, JobEvent
    <3> QED
      BY <1>3, <2>2, <3>1, <3>2
  <2>3. CASE pc = "enqueueing" /\ EnqueueTorn(bus[pos].ev, bus[pos].type, 0)
    <3>1. pos \in Waiting /\ pos \in 1..Len(bus)
      BY <2>3, Shapes DEF TypeInv, PositionOK, Waiting
    <3>2. bus[pos].ev \in Events /\ bus[pos].type \in Types /\ bus[pos].ev <= published
      BY <3>1, Shapes DEF PlacesInv
    <3> QED
      BY <1>3, <2>3, <3>2
  <2> QED
    BY <2>1, <2>2, <2>3 DEF Crash
<1>5. PlacesInv'
  BY <1>1, <1>2, <1>4 DEF PlacesInv, InHand, HasFile
<1>6. OneFileInv'
  BY <1>1, <1>2, <1>4 DEF OneFileInv, OneFilePerEvent
<1> QED
  BY <1>5, <1>6

LEMMA WhereNext == WhereInv /\ [Next]_vars => PlacesInv' /\ OneFileInv'
<1> SUFFICES ASSUME TypeInv, NamesInv, PlacesInv, OneFileInv, [Next]_vars
             PROVE  PlacesInv' /\ OneFileInv'
  BY DEF WhereInv, FilesInv
<1> USE DEF InHand, HasFile
<1>1. ASSUME NEW t \in Types, Publish(t)  PROVE PlacesInv' /\ OneFileInv'
  BY <1>1, AppendsWhere DEF Publish
<1>2. CASE DispatchPublishes
  BY <1>2, AppendsWhere, PipelineAssumption DEF DispatchPublishes
<1>q. Len(bus) \in Nat /\ cursor <= Len(bus) /\ cursor \in Nat /\ cursor <= cursor /\ Len(bus) <= Len(bus)
  BY Shapes
<1>3. CASE Tick
  BY <1>3 DEF Tick, ClockTick, wvars, hvars, PlacesInv, OneFileInv, OneFilePerEvent, Waiting
<1>4. CASE StartCycle
  <2>1. ready' \subseteq ReadyJobs
    BY <1>4 DEF StartCycle
  <2> QED
    BY <1>4, <1>q, <2>1, QuietWhere DEF StartCycle
<1>5. CASE TakeRetry
  <2>1. PICK j \in Oldest(ready) : hand' = j /\ ready' = ready \ {j}
    BY <1>5 DEF TakeRetry
  <2>2. j \in ready /\ j \in queue /\ ~j.torn /\ j.ev <= published
    BY DEF Oldest, NamesInv, PlacesInv
  <2> QED
    BY <1>5, <1>q, <2>1, <2>2, QuietWhere DEF TakeRetry, hvars
<1>6. CASE RetryReturns
  <2>1. ~hand.torn /\ hand.ev <= published
    BY <1>6 DEF RetryReturns, PlacesInv
  <2> QED
    BY <1>6, <1>q, <2>1, QuietWhere DEF RetryReturns
<1>7. CASE ReadBus
  BY <1>7, <1>q, QuietWhere DEF ReadBus, hvars
<1>8. CASE EndCycle
  BY <1>8, <1>q, QuietWhere DEF EndCycle, hvars
<1>9. CASE CompleteRetry
  <2>1. queue' \subseteq queue /\ ready' \subseteq ready
    BY <1>9 DEF CompleteRetry, Complete
  <2> QED
    BY <1>9, <2>1, RemovesWhere DEF CompleteRetry
<1>n. HasFile => Named(queue, hand) = {hand} /\ hand \in queue /\ \A d \in dead : JobId(d) # JobId(hand)
  BY HandNamesOneFile DEF NamesInv
<1>10. CASE BuryRetry
  <2>1. queue' \subseteq queue /\ queue' \cup dead' \subseteq queue \cup dead
    BY <1>10, <1>n DEF BuryRetry, MoveToDeadLetter
  <2> QED
    BY <1>10, <2>1, RemovesWhere DEF BuryRetry
<1>11. CASE RequeueRemoves
  <2>1. /\ queue' \subseteq queue /\ dead' = dead
        /\ pc' = "rewriting" => hand' = hand /\ queue' = queue \ {hand}
    BY <1>11, <1>n DEF RequeueRemoves, Complete
  <2>2. hand \in queue /\ hand \notin dead
    BY <1>11, <1>n DEF RequeueRemoves
  <2>3. UNCHANGED <<bus, pos, published, cursor>> /\ ready' = ready /\ ~HasFile'
    BY <1>11 DEF RequeueRemoves
  <2> QED
    BY <1>11, <2>1, <2>2, <2>3, RemovesWhere DEF RequeueRemoves
<1>12. CASE RequeueWrites
  <2>1. /\ hand \in Jobs /\ hand.ev <= published
        /\ \A k \in queue \cup dead : ~k.torn => k.ev # hand.ev
        /\ \A i \in Waiting : bus[i].ev # hand.ev
    BY <1>12, Shapes DEF RequeueWrites, PlacesInv, OneFileInv
  <2>2. hand.ev \in Events /\ hand.type \in Types /\ hand.attempt + 1 \in Nat
    BY <2>1, JobEvent
  <2>3. /\ UNCHANGED <<dead, bus, published, cursor, ready, pos>> /\ pc' = "retries"
        /\ WriteJob(hand.ev, hand.type, hand.attempt + 1) /\ Waiting' = Waiting
    BY <1>12 DEF RequeueWrites, Waiting
  <2>4. pos' \in Nat /\ pos <= pos' /\ pos' <= cursor + 1
    BY <2>3, Shapes DEF PlacesInv
  <2> QED
    BY <2>1, <2>2, <2>3, <2>4, WriteJobWhere
<1>p. pos <= cursor => pos \in Waiting /\ pos \in 1..Len(bus) /\ pos + 1 <= cursor + 1 /\ pos <= pos + 1
                       /\ pos + 1 \in Nat
  BY Shapes DEF Waiting
<1>13. CASE DispatchReturns
  <2>1. CASE pos' = pos + 1 /\ UNCHANGED pc
    <3>1. UNCHANGED <<queue, dead, bus, published, cursor, ready>> /\ pc = "batch" /\ pc' = "batch"
      BY <1>13, <2>1 DEF DispatchReturns
    <3>2. Waiting' \subseteq Waiting /\ pos' <= cursor + 1
      BY <1>13, <1>p, <2>1, <3>1, Shapes DEF Waiting, DispatchReturns
    <3> QED
      BY <3>1, <3>2 DEF PlacesInv, OneFileInv, OneFilePerEvent
  <2>2. CASE pc' = "enqueueing" /\ UNCHANGED pos
    BY <1>13, <1>q, <2>2, QuietWhere DEF DispatchReturns
  <2> QED
    BY <1>13, <2>1, <2>2 DEF DispatchReturns
<1>14. CASE EnqueueFailed
  <2>1. pos \in Waiting /\ pos \in 1..Len(bus) /\ pos + 1 <= cursor + 1 /\ pos <= pos + 1 /\ pos + 1 \in Nat
    BY <1>14, <1>p DEF EnqueueFailed, TypeInv, PositionOK
  <2>2. /\ bus[pos].ev \in Events /\ bus[pos].type \in Types /\ bus[pos].ev <= published
        /\ \A k \in queue \cup dead : ~k.torn => k.ev # bus[pos].ev
    BY <2>1, Shapes DEF PlacesInv, OneFileInv
  <2>3. /\ UNCHANGED <<dead, bus, published, cursor, ready>> /\ pc' = "batch" /\ pos' = pos + 1
        /\ WriteJob(bus[pos].ev, bus[pos].type, 0)
    BY <1>14 DEF EnqueueFailed
  <2>4. Waiting' \subseteq Waiting /\ pos \notin Waiting'
    BY <2>3, Shapes DEF Waiting
  <2>5. \A i \in Waiting' : bus[i].ev # bus[pos].ev
    BY <2>1, <2>4 DEF PlacesInv
  <2>6. 0 \in Nat
    OBVIOUS
  <2> QED
    BY <2>1, <2>2, <2>3, <2>5, <2>6, WriteJobWhere
<1>15. CASE Crash
  BY <1>15, CrashWhere
<1>16. CASE UNCHANGED vars
  BY <1>16 DEF vars, wvars, hvars, PlacesInv, OneFileInv, OneFilePerEvent, Waiting
<1> QED
  BY <1>1, <1>2, <1>3, <1>4, <1>5, <1>6, <1>7, <1>8, <1>9, <1>10, <1>11,
     <1>12, <1>13, <1>14, <1>15, <1>16 DEF Next, Worker

LEMMA WhereInvAlways == Spec => []WhereInv
<1>1. WhereInv /\ [Next]_vars => WhereInv'
  BY TypeInvNext, NamesInvNext, WhereNext DEF WhereInv, FilesInv
<1> QED
  BY WhereInit, <1>1, PTL DEF Spec

(* One event never has two job files, however crashes and failed writes    *)
(* fall between the removal of a file and the writing of the next.         *)
THEOREM AlwaysOneFilePerEvent == Spec => []OneFilePerEvent
<1>1. WhereInv => OneFilePerEvent
  BY DEF WhereInv, OneFileInv
<1> QED
  BY WhereInvAlways, <1>1, PTL

(***************************************************************************)
(* No event is lost without a trace: each that was published is done, in   *)
(* one of its places, a dead letter, or counted among the lost.            *)
(***************************************************************************)
Settled(e) == e \in ok \cup dropped \cup clobbered \/ Buried(e)

LossInv ==
    /\ \A e \in 1..published : Settled(e) \/ Held(e)
    /\ pc = "completing" => hand.ev \in ok

LEMMA UndispatchedIs == Undispatched = {bus[i].ev : i \in Waiting}
  BY DEF Undispatched, Waiting

LEMMA LossInit == Init => LossInv
  BY DEF Init, LossInv

(* What is held stays held or is accounted for.                            *)
LEMMA LossStep ==
    ASSUME LossInv, published' = published, ok \subseteq ok', dropped \subseteq dropped',
           clobbered \subseteq clobbered', dead \subseteq dead',
           \A e \in 1..published : Held(e) => Settled(e)' \/ Held(e)',
           pc' = "completing" => hand'.ev \in ok'
    PROVE  LossInv'
<1>1. \A e : Settled(e) => Settled(e)'
  BY DEF Settled, Buried
<1> QED
  BY <1>1 DEF LossInv

(* The steps that leave files and bus alone.                               *)
LEMMA QuietLoss ==
    ASSUME LossInv, UNCHANGED <<queue, dead, bus, pos, published, dropped, clobbered>>, ok \subseteq ok',
           pc # "rewriting", pc' = "completing" => hand'.ev \in ok'
    PROVE  LossInv'
<1>1. Undispatched' = Undispatched
  BY DEF Undispatched
<1>2. \A e : Held(e) => Held(e)'
  BY <1>1 DEF Held
<1> QED
  BY <1>2, LossStep

LEMMA AppendLoss ==
    ASSUME TypeInv, PlacesInv, LossInv, NEW t \in Types, Append1(t),
           UNCHANGED <<queue, dead, pos, hand, pc, ok, dropped, clobbered>>
    PROVE  LossInv'
<1>1. /\ Waiting' = Waiting \cup {Len(bus) + 1} /\ \A i \in Waiting : bus'[i] = bus[i]
      /\ bus'[Len(bus) + 1].ev = published + 1 /\ published' = published + 1
  BY Appends
<1>2. Undispatched \subseteq Undispatched' /\ published + 1 \in Undispatched'
  <2>1. \A i \in Waiting : bus[i].ev \in {bus'[k].ev : k \in Waiting'}
    BY <1>1
  <2>2. published + 1 \in {bus'[k].ev : k \in Waiting'}
    BY <1>1
  <2>3. Undispatched' = {bus'[k].ev : k \in Waiting'}
    BY DEF Undispatched, Waiting
  <2> QED
    BY <2>1, <2>2, <2>3, UndispatchedIs
<1>3. \A e : (Held(e) => Held(e)') /\ (Settled(e) => Settled(e)')
  BY <1>2 DEF Held, Settled, Buried
<1>4. \A e : e = published + 1 => Held(e)'
  BY <1>2 DEF Held
<1>5. \A e \in 1..published' : e \in 1..published \/ e = published + 1
  BY <1>1, Shapes
<1> QED
  BY <1>3, <1>4, <1>5 DEF LossInv

(* The file of a new job holds its event, or the event counts as dropped;  *)
(* whoever's file it replaces counts as clobbered.                         *)
LEMMA WriteJobLoss ==
    ASSUME LossInv, NEW ev, NEW t, NEW a, WriteJob(ev, t, a), pc' # "completing",
           UNCHANGED <<dead, bus, published, ok>>,
           \A e : e \in Undispatched => e = ev \/ e \in Undispatched',
           pc = "rewriting" => hand.ev = ev
    PROVE  LossInv'
<1> DEFINE j == NewJob(ev, t, a)
<1>1. j.ev = ev /\ ~j.torn
  BY NewJobFields
<1>2. CASE Enqueue(ev, t, a) /\ dropped' = dropped
           /\ clobbered' = clobbered \cup {k.ev : k \in {f \in Named(queue, j) : ~f.torn}}
  <2>1. queue' = (queue \ Named(queue, j)) \cup {j}
    BY <1>2 DEF Enqueue, Written
  <2> HIDE DEF j
  <2>2. Held(ev)'
    BY <1>1, <2>1 DEF Held
  <2>3. ASSUME NEW k \in queue, ~k.torn  PROVE k \in queue' \/ k.ev \in clobbered'
    BY <1>2, <2>1, <2>3
  <2>4. \A e : Held(e) => Settled(e)' \/ Held(e)'
    BY <2>2, <2>3 DEF Held, Settled
  <2> QED
    BY <1>2, <2>4, LossStep
<1>3. CASE dropped' = dropped \cup {ev} /\ UNCHANGED <<queue, clobbered>>
  <2>1. \A e : Held(e) => Settled(e)' \/ Held(e)'
    BY <1>3 DEF Held, Settled
  <2> QED
    BY <1>3, <2>1, LossStep
<1> QED
  BY <1>2, <1>3 DEF WriteJob

LEMMA CrashLoss == ASSUME LossInv, Crash PROVE LossInv'
<1>1. /\ dropped' = dropped \cup Undispatched \cup (IF pc = "rewriting" THEN {hand.ev} ELSE {})
                     \cup {k.ev : k \in queue \ queue'}
      /\ pc' = "tick" /\ UNCHANGED <<dead, published, ok, clobbered>>
  BY DEF Crash
<1>2. \A e : Held(e) => Settled(e)' \/ Held(e)'
  BY <1>1 DEF Held, Settled
<1> QED
  BY <1>1, <1>2, LossStep

LEMMA LossNext == WhereInv /\ LossInv /\ [Next]_vars => LossInv'
<1> SUFFICES ASSUME TypeInv, NamesInv, PlacesInv, OneFileInv, LossInv, [Next]_vars
             PROVE  LossInv'
  BY DEF WhereInv, FilesInv
<1>1. ASSUME NEW t \in Types, Publish(t)  PROVE LossInv'
  BY <1>1, AppendLoss DEF Publish
<1>2. CASE DispatchPublishes
  BY <1>2, AppendLoss, PipelineAssumption DEF DispatchPublishes
<1>3. CASE Tick \/ UNCHANGED vars
  <2>1. UNCHANGED <<queue, dead, wvars, hvars>>
    BY <1>3 DEF Tick, vars
  <2>2. \A e : (Held(e) => Held(e)') /\ (Settled(e) => Settled(e)')
    BY <2>1 DEF Settled, Buried, Held, Undispatched, wvars, hvars
  <2> QED
    BY <2>1, <2>2 DEF LossInv, wvars, hvars
<1>4. CASE StartCycle \/ TakeRetry \/ ReadBus \/ EndCycle
  <2>1. /\ UNCHANGED <<queue, dead, bus, pos, published, dropped, clobbered, ok>>
        /\ pc # "rewriting" /\ pc' # "completing"
    BY <1>4 DEF StartCycle, TakeRetry, ReadBus, EndCycle, hvars
  <2> QED
    BY <2>1, QuietLoss
<1>5. CASE RetryReturns
  <2>1. /\ UNCHANGED <<queue, dead, bus, pos, published, dropped, clobbered, hand>> /\ pc = "retrying"
        /\ ok \subseteq ok' /\ (pc' = "completing" => hand.ev \in ok')
    BY <1>5 DEF RetryReturns
  <2> QED
    BY <2>1, QuietLoss
<1>n. HasFile => Named(queue, hand) = {hand} /\ hand \in queue /\ \A d \in dead : JobId(d) # JobId(hand)
  BY HandNamesOneFile DEF NamesInv
<1>6. CASE CompleteRetry
  <2>1. /\ queue' \in {queue, queue \ {hand}} /\ hand.ev \in ok /\ pc = "completing" /\ pc' = "retries"
        /\ UNCHANGED <<dead, bus, pos, published, ok, dropped, clobbered>>
    BY <1>6, <1>n DEF CompleteRetry, Complete, HasFile, LossInv
  <2>2. Undispatched' = Undispatched
    BY <2>1 DEF Undispatched
  <2>3. \A e : Held(e) => Settled(e)' \/ Held(e)'
    BY <2>1, <2>2 DEF Held, Settled
  <2> QED
    BY <2>1, <2>3, LossStep
<1>7. CASE BuryRetry
  <2>1. /\ \/ queue' = queue /\ dead' = dead
           \/ queue' = queue \ {hand} /\ hand \in dead' /\ dead \subseteq dead'
        /\ pc = "burying" /\ pc' = "retries"
        /\ UNCHANGED <<bus, pos, published, ok, dropped, clobbered>>
    <3>1. HasFile
      BY <1>7 DEF BuryRetry, HasFile
    <3>2. Named(dead, hand) = {}
      BY <1>n, <3>1 DEF Named
    <3> QED
      BY <1>7, <1>n, <3>1, <3>2 DEF BuryRetry, MoveToDeadLetter
  <2>2. Undispatched' = Undispatched
    BY <2>1 DEF Undispatched
  <2>3. \A e : Held(e) => Settled(e)' \/ Held(e)'
    BY <2>1, <2>2 DEF Held, Settled, Buried
  <2> QED
    BY <2>1, <2>3, LossStep
<1>8. CASE RequeueRemoves
  <2>1. /\ \/ queue' = queue
           \/ queue' = queue \ {hand} /\ pc' = "rewriting" /\ hand' = hand
        /\ pc = "requeueing" /\ pc' # "completing"
        /\ UNCHANGED <<dead, bus, pos, published, ok, dropped, clobbered>>
    BY <1>8, <1>n DEF RequeueRemoves, Complete, HasFile
  <2>2. Undispatched' = Undispatched
    BY <2>1 DEF Undispatched
  <2>3. \A e : Held(e) => Held(e)'
    BY <2>1, <2>2 DEF Held
  <2> QED
    BY <2>1, <2>3, LossStep
<1>9. CASE RequeueWrites
  <2>1. Undispatched' = Undispatched
    BY <1>9 DEF RequeueWrites, Undispatched
  <2> QED
    BY <1>9, <2>1, WriteJobLoss DEF RequeueWrites
<1>p. ASSUME pos \in Waiting, pos' = pos + 1, UNCHANGED bus
      PROVE  \A e : e \in Undispatched => e = bus[pos].ev \/ e \in Undispatched'
  <2>1. \A i \in Waiting : i = pos \/ i \in Waiting'
    BY <1>p, Shapes DEF Waiting
  <2>2. Undispatched' = {bus[i].ev : i \in Waiting'}
    BY <1>p DEF Undispatched, Waiting
  <2> QED
    BY <2>1, <2>2, UndispatchedIs
<1>10. CASE DispatchReturns
  <2>1. CASE ok' = ok \cup {bus[pos].ev} /\ pos' = pos + 1 /\ UNCHANGED pc
    <3>1. pos \in Waiting
      BY <1>10, Shapes DEF DispatchReturns, Waiting
    <3>2. UNCHANGED <<queue, dead, bus, published, dropped, clobbered>> /\ pc = "batch"
      BY <1>10 DEF DispatchReturns
    <3>3. \A e : Held(e) => Settled(e)' \/ Held(e)'
      BY <1>p, <2>1, <3>1, <3>2 DEF Held, Settled
    <3> QED
      BY <2>1, <3>2, <3>3, LossStep
  <2>2. CASE pc' = "enqueueing" /\ UNCHANGED <<pos, ok>>
    BY <1>10, <2>2, QuietLoss DEF DispatchReturns
  <2> QED
    BY <1>10, <2>1, <2>2 DEF DispatchReturns
<1>11. CASE EnqueueFailed
  <2>1. pos \in Waiting
    BY <1>11, Shapes DEF EnqueueFailed, TypeInv, PositionOK, Waiting
  <2> QED
    BY <1>11, <1>p, <2>1, WriteJobLoss DEF EnqueueFailed
<1>12. CASE Crash
  BY <1>12, CrashLoss
<1> QED
  BY <1>1, <1>2, <1>3, <1>4, <1>5, <1>6, <1>7, <1>8, <1>9, <1>10, <1>11, <1>12 DEF Next, Worker

(* Nothing is lost silently: an event that neither succeeded nor became a  *)
(* dead letter nor was dropped by a crash, a failed write or a file of the *)
(* same name is still waiting, in a file or in hand.                       *)
THEOREM NothingEverLostSilently == Spec => []NothingLostSilently
<1>1. LossInv /\ TypeInv => NothingLostSilently
  <2> SUFFICES ASSUME LossInv, TypeInv, NEW e \in 1..published, Status(e) = "pending"  PROVE Held(e)
    BY DEF NothingLostSilently
  <2>1. ~(e > published)
    BY Shapes
  <2>2. ~Settled(e)
    BY <2>1 DEF Status, Settled
  <2> QED
    BY <2>2 DEF LossInv
<1>2. WhereInv => TypeInv
  BY DEF WhereInv, FilesInv
<1> QED
  BY <1>1, <1>2, LossInit, LossNext, WhereInvAlways, PTL DEF Spec

(***************************************************************************)
(* Tries.  The attempt in a file's name says how often its event has been  *)
(* dispatched, give or take one per fault; the file in hand is one behind  *)
(* once its dispatch has returned.                                         *)
(***************************************************************************)
Returned == pc \in {"completing", "burying", "requeueing"}
InBounds(j, more) ==
    /\ j.attempt + 1 + more <= tries[j.ev]
    /\ tries[j.ev] <= j.attempt + 1 + more + faults

FileCounts ==
    \A j \in queue : ~j.torn => /\ j.attempt + 1 <= MaxRetries
                                /\ InBounds(j, IF Returned /\ j = hand THEN 1 ELSE 0)
HandCounts ==
    /\ pc = "rewriting" => InBounds(hand, 1)
    /\ pc = "burying" => MaxRetries <= hand.attempt + 1
    /\ pc \in {"requeueing", "rewriting"} => hand.attempt + 2 <= MaxRetries
NotYet(e) == e > published => tries[e] = 0
WaitingCounts ==
    \A i \in Waiting : tries[bus[i].ev] = (IF pc = "enqueueing" /\ i = pos THEN 1 ELSE 0)
TriesBounded == \A e \in Events : tries[e] <= 1 + MaxRetries + faults
DeadCounts == \A d \in dead : 1 + MaxRetries <= tries[d.ev]

CountInv ==
    /\ FileCounts /\ HandCounts /\ WaitingCounts /\ TriesBounded /\ DeadCounts
    /\ \A e \in Events : NotYet(e)

LEMMA CountInit == Init => CountInv
<1> SUFFICES ASSUME Init PROVE CountInv
  OBVIOUS
<1>1. /\ Waiting = {} /\ queue = {} /\ dead = {} /\ pc = "tick" /\ faults = 0
      /\ \A e \in Events : tries[e] = 0
  BY DEF Init, Waiting
<1>2. MaxRetries \in Nat
  BY RetryQueueAssumption
<1> QED
  BY <1>1, <1>2 DEF CountInv, FileCounts, HandCounts, WaitingCounts, TriesBounded, DeadCounts, NotYet

LEMMA CountTypes ==
    ASSUME TypeInv
    PROVE  /\ faults \in Nat /\ MaxRetries \in Nat /\ published \in Nat
           /\ \A e \in Events : tries[e] \in Nat /\ e \in Nat
           /\ \A j \in queue \cup dead : j.attempt \in Nat /\ j.ev \in Events /\ tries[j.ev] \in Nat
           /\ InHand => hand.attempt \in Nat /\ hand.ev \in Events /\ tries[hand.ev] \in Nat
<1>1. tries \in [Events -> Nat]
  BY DEF TypeInv, TypeOK
<1> QED
  BY <1>1, Shapes, JobEvent, RetryQueueAssumption, PipelineAssumption DEF Events

(* A fault leaves room for one dispatch more.                              *)
LEMMA FaultMakesRoom ==
    ASSUME NEW a \in Nat, NEW t \in Nat, NEW f \in Nat, NEW g \in Nat, f <= g,
           NEW m \in {0, 1}
    PROVE  /\ a + 1 + m <= t /\ t <= a + 1 + m + f => a + 1 + m <= t /\ t <= a + 1 + m + g
           /\ a + 1 + m <= t /\ t <= a + 1 + m + f /\ f + 1 <= g => a + 1 <= t /\ t <= a + 1 + g
           /\ t <= 1 + a + f => t <= 1 + a + g
<1>1. ASSUME a + 1 + m <= t, t <= a + 1 + m + f  PROVE t <= a + 1 + m + g
  BY <1>1
<1>2. ASSUME a + 1 + m <= t, t <= a + 1 + m + f, f + 1 <= g  PROVE a + 1 <= t /\ t <= a + 1 + g
  <2>1. CASE m = 0  BY <1>2, <2>1
  <2>2. CASE m = 1  BY <1>2, <2>2
  <2> QED  BY <2>1, <2>2
<1>3. ASSUME t <= 1 + a + f  PROVE t <= 1 + a + g
  BY <1>3
<1> QED
  BY <1>1, <1>2, <1>3

(* Steps that dispatch nothing and write no file.  A job may leave the     *)
(* hands of the worker with its file only for a fault.                     *)
LEMMA QuietCount ==
    ASSUME TypeInv, TypeInv', CountInv, UNCHANGED <<tries, published>>, faults <= faults',
           \A j \in queue' : ~j.torn => j \in queue,
           \A d \in dead' : d \in dead \/ 1 + MaxRetries <= tries[d.ev],
           \/ UNCHANGED <<pc, hand>>
           \/ /\ ~Returned' /\ (pc' = "rewriting" => InBounds(hand, 1) /\ hand' = hand /\ hand.attempt + 2 <= MaxRetries)
              /\ ~Returned \/ faults + 1 <= faults' \/ hand \notin queue'
           \/ ~Returned /\ ~Returned' /\ pc' # "rewriting",
           \/ Waiting' = Waiting /\ bus' = bus /\ pos' = pos /\ (pc = "enqueueing" <=> pc' = "enqueueing")
           \/ Waiting' = {}
    PROVE  CountInv'
<1>t. /\ faults \in Nat /\ faults' \in Nat /\ MaxRetries \in Nat
      /\ \A e \in Events : tries[e] \in Nat /\ e \in Nat
      /\ \A j \in queue \cup dead : j.attempt \in Nat /\ j.ev \in Events /\ tries[j.ev] \in Nat
      /\ (InHand => hand.attempt \in Nat /\ hand.ev \in Events /\ tries[hand.ev] \in Nat)
  <2>1. faults' \in Nat
    BY PipelineAssumption DEF TypeInv, TypeOK
  <2> QED  BY <2>1, CountTypes
<1>1. FileCounts'
  <2> SUFFICES ASSUME NEW j \in queue', ~j.torn
               PROVE  j.attempt + 1 <= MaxRetries /\ InBounds(j, IF Returned /\ j = hand THEN 1 ELSE 0)'
    BY DEF FileCounts
  <2> DEFINE m == IF Returned /\ j = hand THEN 1 ELSE 0
             n == IF Returned' /\ j = hand' THEN 1 ELSE 0
  <2>1. /\ j.attempt + 1 <= MaxRetries /\ j.attempt + 1 + m <= tries[j.ev]
        /\ tries[j.ev] <= j.attempt + 1 + m + faults
    BY DEF CountInv, FileCounts, InBounds
  <2>2. j.attempt \in Nat /\ tries[j.ev] \in Nat /\ m \in {0, 1} /\ n \in {0, 1}
    BY <1>t
  <2>3. n = m \/ (n = 0 /\ (m = 1 => faults + 1 <= faults'))
    BY DEF Returned
  <2> HIDE DEF m, n
  <2>4. j.attempt + 1 + n <= tries[j.ev] /\ tries[j.ev] <= j.attempt + 1 + n + faults'
    <3>1. CASE n = m
      BY <1>t, <2>1, <2>2, <3>1, FaultMakesRoom
    <3>2. CASE n = 0 /\ m = 0
      BY <1>t, <2>1, <2>2, <3>2, FaultMakesRoom
    <3>3. CASE n = 0 /\ faults + 1 <= faults'
      <4>1. j.attempt + 1 <= tries[j.ev] /\ tries[j.ev] <= j.attempt + 1 + faults'
        BY <1>t, <2>1, <2>2, <3>3, FaultMakesRoom
      <4> QED  BY <2>2, <1>t, <3>3, <4>1
    <3> QED
      BY <2>2, <2>3, <3>1, <3>2, <3>3
  <2> QED
    BY <2>1, <2>4 DEF InBounds, n
<1>2. HandCounts'
  <2>1. ASSUME pc' = "rewriting"  PROVE InBounds(hand, 1)' /\ hand' = hand
    <3>1. InBounds(hand, 1) /\ hand' = hand
      BY <2>1 DEF CountInv, HandCounts
    <3>2. hand \in Jobs
      BY <2>1, <3>1 DEF TypeInv, PositionOK, InHand
    <3>3. hand.attempt \in Nat /\ tries[hand.ev] \in Nat /\ 1 \in {0, 1}
      BY <1>t, <3>2, JobEvent
    <3>4. hand.attempt + 1 + 1 <= tries[hand.ev] /\ tries[hand.ev] <= hand.attempt + 1 + 1 + faults
      BY <3>1 DEF InBounds
    <3>5. hand.attempt + 1 + 1 <= tries[hand.ev] /\ tries[hand.ev] <= hand.attempt + 1 + 1 + faults'
      BY <1>t, <3>3, <3>4, FaultMakesRoom
    <3> QED  BY <3>1, <3>5 DEF InBounds
  <2>2. \/ UNCHANGED <<pc, hand>>
        \/ ~Returned' /\ (pc' = "rewriting" => hand' = hand /\ hand.attempt + 2 <= MaxRetries)
    OBVIOUS
  <2> QED
    BY <2>1, <2>2 DEF CountInv, HandCounts, Returned
<1>3. WaitingCounts'
  BY DEF CountInv, WaitingCounts
<1>4. TriesBounded' /\ DeadCounts'
  <2>1. ASSUME NEW e \in Events  PROVE tries[e] <= 1 + MaxRetries + faults'
    BY <1>t, FaultMakesRoom DEF CountInv, TriesBounded
  <2> QED
    BY <2>1 DEF CountInv, TriesBounded, DeadCounts
<1> QED
  BY <1>1, <1>2, <1>3, <1>4 DEF CountInv, NotYet

(* An event put on the bus has not been dispatched.                        *)
LEMMA AppendCount ==
    ASSUME TypeInv, TypeInv', PlacesInv, CountInv, NEW t \in Types, Append1(t),
           UNCHANGED <<queue, dead, pos, hand, pc, tries, faults>>
    PROVE  CountInv'
<1>1. /\ Waiting' = Waiting \cup {Len(bus) + 1} /\ Len(bus) + 1 \notin Waiting
      /\ \A i \in Waiting : bus'[i] = bus[i]
      /\ bus'[Len(bus) + 1].ev = published + 1 /\ published' = published + 1
  BY Appends
<1>2. published \in Nat /\ published + 1 \in Events
  <2>1. published \in Nat /\ published' \in 0..MaxEvents
    BY Shapes DEF TypeInv, TypeOK
  <2> QED
    BY <1>1, <2>1, PipelineAssumption DEF Events
<1>3. tries[published + 1] = 0
  BY <1>2 DEF CountInv, NotYet
<1>4. pc = "enqueueing" => pos # Len(bus) + 1
  BY Shapes DEF TypeInv, PositionOK
<1>5. WaitingCounts'
  BY <1>1, <1>3, <1>4 DEF CountInv, WaitingCounts
<1>6. \A e \in Events : NotYet(e)'
  <2>1. \A e \in Events : e \in Nat
    BY DEF Events
  <2> QED
    BY <1>1, <1>2, <2>1 DEF CountInv, NotYet
<1> QED
  BY <1>5, <1>6 DEF CountInv, FileCounts, HandCounts, TriesBounded, DeadCounts, InBounds, Returned

(* A file is written whose name counts the dispatches of its event.        *)
LEMMA WriteCount ==
    ASSUME TypeInv, TypeInv', CountInv, NEW e \in Events, NEW t \in Types, NEW a \in Nat,
           WriteJob(e, t, a), UNCHANGED <<tries, published, dead>>,
           ~Returned, ~Returned', pc' # "rewriting",
           a + 1 <= MaxRetries, a + 1 <= tries[e], tries[e] <= a + 1 + faults,
           WaitingCounts'
    PROVE  CountInv'
<1>1. /\ faults \in Nat /\ faults' \in Nat /\ MaxRetries \in Nat
      /\ \A f \in Events : tries[f] \in Nat
      /\ \A j \in queue \cup dead : j.attempt \in Nat /\ j.ev \in Events /\ tries[j.ev] \in Nat
  <2>1. faults' \in Nat
    BY PipelineAssumption DEF TypeInv, TypeOK
  <2> QED  BY <2>1, CountTypes
<1>2. faults <= faults'
  BY <1>1 DEF WriteJob, Fault
<1> DEFINE n == NewJob(e, t, a)
<1>3. n.ev = e /\ n.attempt = a
  BY DEF NewJob
<1>4. queue' \subseteq queue \cup {n}
  BY DEF WriteJob, Enqueue, Written
<1> HIDE DEF n
<1>5. FileCounts'
  <2> SUFFICES ASSUME NEW j \in queue', ~j.torn
               PROVE  j.attempt + 1 <= MaxRetries /\ InBounds(j, 0)'
    BY DEF FileCounts
  <2>1. /\ j.attempt + 1 <= MaxRetries /\ j.attempt + 1 + 0 <= tries[j.ev]
        /\ tries[j.ev] <= j.attempt + 1 + 0 + faults
        /\ j.attempt \in Nat /\ tries[j.ev] \in Nat
    <3>1. CASE j = n
      <4>1. a + 1 + 0 = a + 1
        OBVIOUS
      <4> QED
        BY <1>1, <1>3, <3>1, <4>1
    <3>2. CASE j \in queue
      BY <1>1, <3>2 DEF CountInv, FileCounts, InBounds
    <3> QED  BY <1>4, <3>1, <3>2
  <2>2. j.attempt + 1 + 0 <= tries[j.ev] /\ tries[j.ev] <= j.attempt + 1 + 0 + faults'
    BY <1>1, <1>2, <2>1, FaultMakesRoom
  <2> QED
    BY <2>1, <2>2 DEF InBounds
<1>6. HandCounts'
  BY DEF HandCounts, Returned
<1>7. TriesBounded'
  <2>1. ASSUME NEW f \in Events  PROVE tries[f] <= 1 + MaxRetries + faults'
    BY <1>1, <1>2, FaultMakesRoom DEF CountInv, TriesBounded
  <2> QED
    BY <2>1 DEF TriesBounded
<1> QED
  BY <1>5, <1>6, <1>7 DEF CountInv, DeadCounts, NotYet

(* A dispatch returns: of a file's event,                                  *)
LEMMA RetryCount ==
    ASSUME TypeInv, TypeInv', NamesInv, PlacesInv, OneFileInv, CountInv, RetryReturns
    PROVE  CountInv'
<1>1. /\ pc = "retrying" /\ pc' \in {"completing", "burying", "requeueing"}
      /\ pc' = "burying" => LastAttempt(hand)
      /\ pc' = "requeueing" => ~LastAttempt(hand)
      /\ tries' = [tries EXCEPT ![hand.ev] = @ + 1]
      /\ UNCHANGED <<queue, dead, bus, pos, hand, published, faults>>
  BY DEF RetryReturns
<1>2. /\ faults \in Nat /\ MaxRetries \in Nat
      /\ \A e \in Events : tries[e] \in Nat /\ e \in Nat
      /\ \A j \in queue \cup dead : j.attempt \in Nat /\ j.ev \in Events
      /\ hand.attempt \in Nat /\ hand.ev \in Events /\ tries[hand.ev] \in Nat
  BY <1>1, CountTypes DEF InHand, HasFile
<1>3. hand \in queue /\ ~hand.torn /\ hand.ev <= published
  BY <1>1 DEF NamesInv, PlacesInv, InHand, HasFile
<1>4. tries \in [Events -> Nat]
  BY DEF TypeInv, TypeOK
<1>5. /\ tries'[hand.ev] = tries[hand.ev] + 1
      /\ \A e \in Events : e # hand.ev => tries'[e] = tries[e]
  BY <1>1, <1>2, <1>4
<1>6. /\ hand.attempt + 1 <= MaxRetries /\ hand.attempt + 1 + 0 <= tries[hand.ev]
      /\ tries[hand.ev] <= hand.attempt + 1 + 0 + faults
  BY <1>1, <1>3 DEF CountInv, FileCounts, InBounds, Returned
<1>7. FileCounts'
  <2>1. ASSUME NEW j \in queue, ~j.torn, j # hand
        PROVE  j.attempt + 1 <= MaxRetries /\ InBounds(j, 0)'
    <3>1. j.ev # hand.ev
      BY <1>3, <2>1 DEF OneFileInv, OneFilePerEvent
    <3>2. j.attempt + 1 <= MaxRetries /\ InBounds(j, 0)
      BY <1>1, <2>1 DEF CountInv, FileCounts, Returned
    <3> QED
      BY <1>1, <1>2, <1>5, <2>1, <3>1, <3>2 DEF InBounds
  <2>2. InBounds(hand, 1)'
    <3>1. hand.attempt + 1 + 1 <= tries[hand.ev] + 1 /\ tries[hand.ev] + 1 <= hand.attempt + 1 + 1 + faults
      BY <1>2, <1>6
    <3> QED
      BY <1>1, <1>5, <3>1 DEF InBounds
  <2> QED
    BY <1>1, <1>6, <2>1, <2>2 DEF FileCounts, Returned
<1>8. HandCounts'
  <2>1. pc' = "burying" => MaxRetries <= hand.attempt + 1
    BY <1>1, <1>2 DEF LastAttempt
  <2>2. pc' = "requeueing" => hand.attempt + 2 <= MaxRetries
    BY <1>1, <1>2 DEF LastAttempt
  <2> QED
    BY <1>1, <2>1, <2>2 DEF HandCounts
<1>9. WaitingCounts'
  <2>1. \A i \in Waiting : i \in 1..Len(bus) /\ bus[i].ev \in Events
    BY Shapes DEF Waiting
  <2>2. \A i \in Waiting : bus[i].ev # hand.ev
    BY <1>3 DEF OneFileInv
  <2> QED
    BY <1>1, <1>5, <2>1, <2>2 DEF CountInv, WaitingCounts, Waiting
<1>10. TriesBounded'
  <2>1. tries[hand.ev] + 1 <= 1 + MaxRetries + faults
    BY <1>2, <1>6
  <2> QED
    BY <1>1, <1>5, <2>1 DEF CountInv, TriesBounded
<1>11. DeadCounts'
  <2>1. ASSUME NEW d \in dead  PROVE 1 + MaxRetries <= tries'[d.ev]
    <3>1. 1 + MaxRetries <= tries[d.ev] /\ d.ev \in Events /\ tries[d.ev] \in Nat
      BY <1>2 DEF CountInv, DeadCounts
    <3> QED
      BY <1>2, <1>5, <3>1
  <2> QED
    BY <1>1, <2>1 DEF DeadCounts
<1>12. \A e \in Events : NotYet(e)'
  <2>1. published \in Nat
    BY Shapes
  <2> QED
    BY <1>1, <1>2, <1>3, <1>5, <2>1 DEF CountInv, NotYet
<1> QED
  BY <1>7, <1>8, <1>9, <1>10, <1>11, <1>12 DEF CountInv

(* and of an event of the bus.                                             *)
LEMMA DispatchCount ==
    ASSUME TypeInv, TypeInv', PlacesInv, OneFileInv, CountInv, DispatchReturns
    PROVE  CountInv'
<1>1. /\ pc = "batch" /\ pos <= cursor
      /\ \/ pc' = "batch" /\ pos' = pos + 1
         \/ pc' = "enqueueing" /\ pos' = pos
      /\ tries' = [tries EXCEPT ![bus[pos].ev] = @ + 1]
      /\ UNCHANGED <<queue, dead, bus, hand, published, faults>>
  BY DEF DispatchReturns
<1>2. pos \in Waiting /\ pos \in 1..Len(bus) /\ Waiting' \subseteq Waiting
      /\ (pc' = "batch" => pos \notin Waiting')
  BY <1>1, Shapes DEF Waiting
<1> DEFINE x == bus[pos].ev
<1>3. x \in Events /\ x <= published
  BY <1>2, Shapes DEF PlacesInv
<1>4. /\ faults \in Nat /\ MaxRetries \in Nat /\ published \in Nat
      /\ \A e \in Events : tries[e] \in Nat /\ e \in Nat
      /\ \A j \in queue \cup dead : j.attempt \in Nat /\ j.ev \in Events
  BY CountTypes
<1>5. tries \in [Events -> Nat]
  BY DEF TypeInv, TypeOK
<1>6. tries[x] = 0
  BY <1>1, <1>2 DEF CountInv, WaitingCounts
<1>7. /\ tries'[x] = 1 /\ \A e \in Events : e # x => tries'[e] = tries[e]
  BY <1>1, <1>3, <1>5, <1>6
<1>8. \A j \in queue : ~j.torn => j.ev # x
  BY <1>2 DEF OneFileInv
<1>9. \A d \in dead : d.ev # x
  <2>1. ASSUME NEW d \in dead  PROVE tries[d.ev] # 0
    BY <1>4 DEF CountInv, DeadCounts
  <2> QED
    BY <1>6, <2>1
<1> HIDE DEF x
<1>10. FileCounts'
  <2>1. ASSUME NEW j \in queue, ~j.torn
        PROVE  j.attempt + 1 <= MaxRetries /\ InBounds(j, 0)'
    <3>1. j.attempt + 1 <= MaxRetries /\ InBounds(j, 0)
      BY <1>1, <2>1 DEF CountInv, FileCounts, Returned
    <3> QED
      BY <1>1, <1>4, <1>7, <1>8, <2>1, <3>1 DEF InBounds
  <2> QED
    BY <1>1, <2>1 DEF FileCounts, Returned
<1>11. WaitingCounts'
  <2>1. \A i \in Waiting : i \in 1..Len(bus) /\ bus[i].ev \in Events
    BY Shapes DEF Waiting
  <2>2. \A i \in Waiting : bus[i].ev = x => i = pos
    BY <1>2 DEF PlacesInv, x
  <2>3. \A i \in Waiting : tries[bus[i].ev] = 0
    BY <1>1 DEF CountInv, WaitingCounts
  <2>4. ASSUME NEW i \in Waiting'
        PROVE  tries'[bus[i].ev] = IF pc' = "enqueueing" /\ i = pos' THEN 1 ELSE 0
    <3>1. CASE i = pos
      BY <1>1, <1>2, <1>7, <2>4, <3>1 DEF x
    <3>2. CASE i # pos
      BY <1>1, <1>2, <1>7, <2>1, <2>2, <2>3, <2>4, <3>2
    <3> QED  BY <3>1, <3>2
  <2> QED
    BY <1>1, <2>4 DEF WaitingCounts
<1>12. TriesBounded'
  <2>1. 1 <= 1 + MaxRetries + faults
    BY <1>4
  <2> QED
    BY <1>1, <1>7, <2>1 DEF CountInv, TriesBounded
<1>13. DeadCounts' /\ HandCounts'
  BY <1>1, <1>4, <1>7, <1>9 DEF CountInv, DeadCounts, HandCounts
<1>14. \A e \in Events : NotYet(e)'
  BY <1>1, <1>3, <1>4, <1>7 DEF CountInv, NotYet
<1> QED
  BY <1>10, <1>11, <1>12, <1>13, <1>14 DEF CountInv

LEMMA CountNext ==
    ASSUME TypeInv, TypeInv', NamesInv, PlacesInv, OneFileInv, CountInv, [Next]_vars
    PROVE  CountInv'
<1>f. faults \in Nat /\ faults <= faults /\ (Fault => faults + 1 <= faults' /\ faults <= faults')
  BY Shapes DEF Fault
<1>n. HasFile => Named(queue, hand) = {hand} /\ hand \in queue /\ ~hand.torn
  BY HandNamesOneFile DEF NamesInv, PlacesInv, InHand
<1>1. CASE \E t \in Types : Publish(t)
  BY <1>1, AppendCount DEF Publish
<1>2. CASE DispatchPublishes
  BY <1>2, AppendCount, PipelineAssumption DEF DispatchPublishes
<1>3. CASE Tick \/ UNCHANGED vars
  <2>1. UNCHANGED <<queue, dead, bus, pos, hand, pc, tries, published, faults>>
    BY <1>3 DEF Tick, vars, wvars, hvars
  <2>2. Waiting' = Waiting
    BY <2>1 DEF Waiting
  <2> QED
    BY <1>f, <2>1, <2>2, QuietCount
<1>4. CASE StartCycle \/ TakeRetry \/ ReadBus \/ EndCycle
  <2>1. /\ UNCHANGED <<queue, dead, bus, pos, tries, published>> /\ faults <= faults'
        /\ pc \in {"tick", "retries", "batch"} /\ pc' \in {"tick", "retries", "retrying", "batch"}
    BY <1>4, <1>f DEF StartCycle, TakeRetry, ReadBus, EndCycle, hvars
  <2>2. Waiting' = Waiting /\ ~Returned /\ ~Returned'
    BY <2>1 DEF Waiting, Returned
  <2> QED
    BY <2>1, <2>2, QuietCount
<1>5. CASE RetryReturns
  BY <1>5, RetryCount
<1>6. CASE CompleteRetry
  <2>1. /\ UNCHANGED <<dead, bus, pos, tries, published>> /\ faults <= faults'
        /\ pc = "completing" /\ pc' = "retries" /\ queue' \subseteq queue
        /\ faults + 1 <= faults' \/ hand \notin queue'
    BY <1>6, <1>f, <1>n DEF CompleteRetry, Complete, HasFile
  <2>2. Waiting' = Waiting /\ ~Returned'
    BY <2>1 DEF Waiting, Returned
  <2> QED
    BY <2>1, <2>2, QuietCount
<1>7. CASE BuryRetry
  <2>1. /\ UNCHANGED <<bus, pos, tries, published>> /\ faults <= faults'
        /\ pc = "burying" /\ pc' = "retries" /\ queue' \subseteq queue /\ dead' \subseteq dead \cup {hand}
        /\ faults + 1 <= faults' \/ hand \notin queue'
    BY <1>7, <1>f, <1>n DEF BuryRetry, MoveToDeadLetter, HasFile
  <2>2. Waiting' = Waiting /\ ~Returned'
    BY <2>1 DEF Waiting, Returned
  <2>3. hand.attempt + 1 + 1 <= tries[hand.ev] /\ MaxRetries <= hand.attempt + 1
    BY <1>n, <2>1 DEF CountInv, FileCounts, HandCounts, InBounds, Returned, HasFile
  <2>4. 1 + MaxRetries <= tries[hand.ev]
    <3>1. hand.attempt \in Nat /\ tries[hand.ev] \in Nat /\ MaxRetries \in Nat
      BY <2>1, CountTypes DEF InHand, HasFile
    <3> QED
      BY <2>3, <3>1
  <2> QED
    BY <2>1, <2>2, <2>4, QuietCount
<1>8. CASE RequeueRemoves
  <2>1. /\ UNCHANGED <<dead, bus, pos, tries, published>> /\ faults <= faults'
        /\ pc = "requeueing" /\ queue' \subseteq queue
        /\ \/ pc' = "rewriting" /\ hand' = hand /\ hand \notin queue'
           \/ pc' = "retries" /\ faults + 1 <= faults'
    BY <1>8, <1>f, <1>n DEF RequeueRemoves, Complete, HasFile
  <2>2. Waiting' = Waiting /\ ~Returned'
    BY <2>1 DEF Waiting, Returned
  <2>3. InBounds(hand, 1) /\ hand.attempt + 2 <= MaxRetries
    BY <1>n, <2>1 DEF CountInv, FileCounts, HandCounts, Returned, HasFile
  <2> QED
    BY <2>1, <2>2, <2>3, QuietCount
<1>9. CASE RequeueWrites
  <2>1. /\ pc = "rewriting" /\ pc' = "retries" /\ WriteJob(hand.ev, hand.type, hand.attempt + 1)
        /\ UNCHANGED <<dead, bus, pos, tries, published>>
    BY <1>9 DEF RequeueWrites
  <2>2. hand.ev \in Events /\ hand.type \in Types /\ hand.attempt \in Nat /\ hand.attempt + 1 \in Nat
    BY <2>1, Shapes, JobEvent DEF InHand
  <2>3. ~Returned /\ ~Returned' /\ pc' # "rewriting"
    BY <2>1 DEF Returned
  <2>4. InBounds(hand, 1) /\ hand.attempt + 2 <= MaxRetries
    BY <2>1 DEF CountInv, HandCounts
  <2>5. MaxRetries \in Nat /\ tries[hand.ev] \in Nat
    BY <2>2, CountTypes
  <2>6. /\ (hand.attempt + 1) + 1 <= MaxRetries
        /\ (hand.attempt + 1) + 1 <= tries[hand.ev]
        /\ tries[hand.ev] <= (hand.attempt + 1) + 1 + faults
    BY <2>2, <2>4, <2>5, <1>f DEF InBounds
  <2>7. WaitingCounts'
    BY <2>1 DEF CountInv, WaitingCounts, Waiting
  <2> QED
    BY <2>1, <2>2, <2>3, <2>6, <2>7, WriteCount
<1>10. CASE DispatchReturns
  BY <1>10, DispatchCount
<1>11. CASE EnqueueFailed
  <2>1. /\ pc = "enqueueing" /\ pc' = "batch" /\ pos' = pos + 1
        /\ WriteJob(bus[pos].ev, bus[pos].type, 0)
        /\ UNCHANGED <<dead, bus, tries, published>>
    BY <1>11 DEF EnqueueFailed
  <2>2. pos \in Waiting /\ pos \in 1..Len(bus) /\ Waiting' \subseteq Waiting /\ pos \notin Waiting'
    BY <2>1, Shapes DEF TypeInv, PositionOK, Waiting
  <2>3. bus[pos].ev \in Events /\ bus[pos].type \in Types
    BY <2>2, Shapes
  <2>4. ~Returned /\ ~Returned' /\ pc' # "rewriting"
    BY <2>1 DEF Returned
  <2>5. tries[bus[pos].ev] = 1
    BY <2>1, <2>2 DEF CountInv, WaitingCounts
  <2>6. /\ 0 + 1 <= MaxRetries /\ 0 + 1 <= tries[bus[pos].ev]
        /\ tries[bus[pos].ev] <= 0 + 1 + faults
    BY <1>f, <2>5, RetryQueueAssumption
  <2>7. WaitingCounts'
    BY <2>1, <2>2 DEF CountInv, WaitingCounts
  <2>8. 0 \in Nat
    OBVIOUS
  <2> QED
    BY <2>1, <2>3, <2>4, <2>6, <2>7, <2>8, WriteCount
<1>12. CASE Crash
  <2>1. /\ UNCHANGED <<dead, tries, published>> /\ faults <= faults' /\ faults + 1 <= faults'
        /\ pc' = "tick" /\ bus' = <<>> /\ pos' = 1
    BY <1>12, <1>f DEF Crash
  <2>2. Waiting' = {} /\ ~Returned'
    BY <2>1 DEF Waiting, Returned
  <2>3. \A j \in queue' : ~j.torn => j \in queue
    <3>1. ASSUME NEW e \in Events, NEW t \in Types, NEW a \in Nat, EnqueueTorn(e, t, a)
          PROVE  \A j \in queue' : ~j.torn => j \in queue
      <4>1. [NewJob(e, t, a) EXCEPT !.torn = TRUE].torn
        BY DEF NewJob
      <4> QED
        BY <3>1, <4>1 DEF EnqueueTorn, Written
    <3>2. CASE pc = "rewriting" /\ EnqueueTorn(hand.ev, hand.type, hand.attempt + 1)
      <4>1. hand.ev \in Events /\ hand.type \in Types /\ hand.attempt + 1 \in Nat
        BY <3>2, Shapes, JobEvent DEF InHand
      <4> QED
        BY <3>1, <3>2, <4>1
    <3>3. CASE pc = "enqueueing" /\ EnqueueTorn(bus[pos].ev, bus[pos].type, 0)
      <4>1. pos \in 1..Len(bus)
        BY <3>3, Shapes DEF TypeInv, PositionOK
      <4>2. bus[pos].ev \in Events /\ bus[pos].type \in Types /\ 0 \in Nat
        BY <4>1, Shapes
      <4> QED
        BY <3>1, <3>3, <4>2
    <3> QED
      BY <1>12, <3>2, <3>3 DEF Crash
  <2> QED
    BY <2>1, <2>2, <2>3, QuietCount
<1> QED
  BY <1>1, <1>2, <1>3, <1>4, <1>5, <1>6, <1>7, <1>8, <1>9, <1>10, <1>11, <1>12
     DEF Next, Worker

(* For every number of retries, events and faults: a job is given up only  *)
(* after its first dispatch and MaxRetries retries, and an event is        *)
(* dispatched more often than that only once per crash or failed write.    *)
THEOREM RetriesAlwaysCounted == Spec => []RetriesAreCounted
<1>1. Init => CountInv
  BY CountInit
<1>2. WhereInv /\ WhereInv' /\ CountInv /\ [Next]_vars => CountInv'
  BY CountNext DEF WhereInv, FilesInv
<1>3. WhereInv /\ CountInv => RetriesAreCounted
  <2> SUFFICES ASSUME WhereInv, CountInv, NEW e \in 1..published
               PROVE  /\ tries[e] <= 1 + MaxRetries + faults
                      /\ Buried(e) => tries[e] >= 1 + MaxRetries
    BY DEF RetriesAreCounted
  <2>1. e \in Events
    <3>1. published \in 0..MaxEvents
      BY DEF WhereInv, FilesInv, TypeInv, TypeOK
    <3> QED
      BY <3>1, PipelineAssumption DEF Events
  <2>2. Buried(e) => 1 + MaxRetries <= tries[e]
    BY DEF CountInv, DeadCounts, Buried
  <2>3. tries[e] \in Nat /\ MaxRetries \in Nat
    BY <2>1, CountTypes DEF WhereInv, FilesInv
  <2> QED
    BY <2>1, <2>2, <2>3 DEF CountInv, TriesBounded
<1> QED
  BY <1>1, <1>2, <1>3, WhereInvAlways, PTL DEF Spec

(***************************************************************************)
(* The refinement.  Only what is lost is counted as lost: an event that    *)
(* waits, has a file or is in hand between two files was neither dropped   *)
(* nor clobbered, so that a dispatch is an attempt at a pending or         *)
(* finished event and only a pending one is given up.                      *)
(***************************************************************************)
Gone == dropped \cup clobbered

LiveInv ==
    /\ \A e \in ok \cup Gone : e <= published
    /\ \A d \in dead : ~d.torn
    /\ \A i \in Waiting : bus[i].ev \notin Gone
    /\ \A j \in queue : IF j.torn THEN j.ev \in dropped ELSE j.ev \notin Gone
    /\ pc = "rewriting" => hand.ev \notin Gone

LEMMA LiveInit == Init => LiveInv
<1>1. Init => Waiting = {}
  BY DEF Init, Waiting
<1> QED
  BY <1>1 DEF Init, LiveInv, Gone

(* Steps that lose nothing and write no file.                              *)
LEMMA QuietLive ==
    ASSUME LiveInv, UNCHANGED <<published, dropped, clobbered, bus>>,
           \A e \in ok' : e \in ok \/ e <= published,
           queue' \subseteq queue, \A d \in dead' : ~d.torn, Waiting' \subseteq Waiting,
           pc' = "rewriting" => hand'.ev \notin Gone
    PROVE  LiveInv'
  BY DEF LiveInv, Gone

LEMMA AppendLive ==
    ASSUME TypeInv, PlacesInv, LiveInv, NEW t \in Types, Append1(t),
           UNCHANGED <<queue, dead, pos, hand, pc, ok, dropped, clobbered>>
    PROVE  LiveInv'
<1>1. /\ Waiting' = Waiting \cup {Len(bus) + 1} /\ \A i \in Waiting : bus'[i] = bus[i]
      /\ bus'[Len(bus) + 1].ev = published + 1 /\ published' = published + 1
  BY Appends
<1>2. published \in Nat /\ \A e \in ok \cup Gone : e \in Nat
  BY Shapes DEF TypeInv, TypeOK, Gone, Events
<1>3. published + 1 \notin Gone
  BY <1>2 DEF LiveInv
<1>4. \A e \in ok \cup Gone : e <= published + 1
  BY <1>2 DEF LiveInv
<1> QED
  BY <1>1, <1>3, <1>4 DEF LiveInv, Gone

LEMMA WriteJobLive ==
    ASSUME OneFileInv, LiveInv, NEW ev, NEW t, NEW a, WriteJob(ev, t, a), ev <= published,
           UNCHANGED <<dead, bus, published, ok>>, pc' # "rewriting",
           Waiting' \subseteq Waiting, \A i \in Waiting' : bus[i].ev # ev,
           \A k \in queue : ~k.torn => k.ev # ev /\ k.ev <= published,
           ev \notin Gone
    PROVE  LiveInv'
<1> DEFINE j == NewJob(ev, t, a)
           over == {k.ev : k \in {f \in Named(queue, j) : ~f.torn}}
<1>1. j.ev = ev /\ ~j.torn
  BY NewJobFields
<1>2. CASE Enqueue(ev, t, a) /\ dropped' = dropped /\ clobbered' = clobbered \cup over
  <2>1. queue' = (queue \ Named(queue, j)) \cup {j} /\ Named(queue, j) \subseteq queue
    BY <1>2 DEF Enqueue, Written, Named
  <2> HIDE DEF j
  <2>2. \A e \in over : \E k \in Named(queue, j) : ~k.torn /\ k.ev = e
    OBVIOUS
  <2> HIDE DEF over
  <2>3. \A e \in over : e <= published /\ e # ev
    BY <2>1, <2>2
  <2>4. ASSUME NEW k \in queue', ~k.torn, k # j  PROVE k.ev \notin over
    BY <2>1, <2>2, <2>4 DEF OneFileInv, OneFilePerEvent
  <2>5. ASSUME NEW i \in Waiting  PROVE bus[i].ev \notin over
    BY <2>1, <2>2, <2>5 DEF OneFileInv
  <2>6. Gone' = Gone \cup over
    BY <1>2 DEF Gone
  <2>7. \A k \in queue' : IF k.torn THEN k.ev \in dropped' ELSE k.ev \notin Gone'
    BY <1>1, <1>2, <2>1, <2>3, <2>4, <2>6 DEF LiveInv
  <2> QED
    BY <2>3, <2>5, <2>6, <2>7 DEF LiveInv
<1>3. CASE dropped' = dropped \cup {ev} /\ UNCHANGED <<queue, clobbered>>
  BY <1>3 DEF LiveInv, Gone
<1> QED
  BY <1>2, <1>3 DEF WriteJob

LEMMA CrashLive ==
    ASSUME TypeInv, PlacesInv, OneFileInv, LiveInv, Crash
    PROVE  LiveInv'
<1>1. /\ dropped' = dropped \cup Undispatched \cup (IF pc = "rewriting" THEN {hand.ev} ELSE {})
                     \cup {k.ev : k \in queue \ queue'}
      /\ pc' = "tick" /\ bus' = <<>> /\ pos' = 1 /\ UNCHANGED <<dead, published, ok, clobbered>>
  BY DEF Crash
<1>2. Waiting' = {}
  BY <1>1 DEF Waiting
<1>3. \A e \in dropped' : \/ e \in dropped
                          \/ \E i \in Waiting : e = bus[i].ev
                          \/ pc = "rewriting" /\ e = hand.ev
                          \/ \E k \in queue : k \notin queue' /\ e = k.ev
  BY <1>1, UndispatchedIs
<1>4. \A e \in dropped' : e <= published
  BY <1>3 DEF LiveInv, Gone, PlacesInv, InHand
<1>5. ASSUME NEW e \in dropped', NEW t, NEW a, EnqueueTorn(e, t, a)
      PROVE  \A j \in queue' : j \in queue \/ (j.torn /\ j.ev \in dropped')
  <2>1. [NewJob(e, t, a) EXCEPT !.torn = TRUE].torn /\ [NewJob(e, t, a) EXCEPT !.torn = TRUE].ev = e
    BY DEF NewJob
  <2> QED
    BY <1>5, <2>1 DEF EnqueueTorn, Written
<1>6. \A j \in queue' : j \in queue \/ (j.torn /\ j.ev \in dropped')
  <2>1. CASE pc = "rewriting" /\ EnqueueTorn(hand.ev, hand.type, hand.attempt + 1)
    BY <1>1, <1>5, <2>1
  <2>2. CASE pc = "enqueueing" /\ EnqueueTorn(bus[pos].ev, bus[pos].type, 0)
    <3>1. pos \in Waiting
      BY <2>2, Shapes DEF TypeInv, PositionOK, Waiting
    <3>2. bus[pos].ev \in dropped'
      BY <1>1, <3>1, UndispatchedIs
    <3> QED
      BY <1>5, <2>2, <3>2
  <2> QED
    BY <2>1, <2>2 DEF Crash
<1>7. ASSUME NEW j \in queue', ~j.torn  PROVE j.ev \notin dropped'
  <2>1. j \in queue /\ j.ev \notin dropped
    BY <1>6, <1>7 DEF LiveInv, Gone
  <2>2. \A i \in Waiting : bus[i].ev # j.ev
    BY <1>7, <2>1 DEF OneFileInv
  <2>3. pc = "rewriting" => hand.ev # j.ev
    BY <1>7, <2>1 DEF OneFileInv
  <2>4. ASSUME NEW k \in queue, k \notin queue'  PROVE k.ev # j.ev
    <3>1. CASE k.torn
      BY <2>1, <2>4, <3>1 DEF LiveInv
    <3>2. CASE ~k.torn
      BY <1>7, <2>1, <2>4, <3>2 DEF OneFileInv, OneFilePerEvent
    <3> QED  BY <3>1, <3>2
  <2> QED
    BY <1>3, <2>1, <2>2, <2>3, <2>4
<1>8. \A j \in queue' : IF j.torn THEN j.ev \in dropped' ELSE j.ev \notin Gone'
  BY <1>1, <1>6, <1>7 DEF LiveInv, Gone
<1> QED
  BY <1>1, <1>2, <1>4, <1>8 DEF LiveInv, Gone

LEMMA LiveNext == WhereInv /\ LiveInv /\ [Next]_vars => LiveInv'
<1> SUFFICES ASSUME TypeInv, NamesInv, PlacesInv, OneFileInv, LiveInv, [Next]_vars
             PROVE  LiveInv'
  BY DEF WhereInv, FilesInv
<1>n. HasFile => /\ Named(queue, hand) = {hand} /\ hand \in queue /\ ~hand.torn /\ hand.ev <= published
                 /\ hand.ev \notin Gone
  BY HandNamesOneFile DEF NamesInv, PlacesInv, InHand, LiveInv
<1>1. ASSUME NEW t \in Types, Publish(t)  PROVE LiveInv'
  BY <1>1, AppendLive DEF Publish
<1>2. CASE DispatchPublishes
  BY <1>2, AppendLive, PipelineAssumption DEF DispatchPublishes
<1>3. CASE Tick \/ UNCHANGED vars \/ StartCycle \/ TakeRetry \/ ReadBus \/ EndCycle
  <2>1. /\ UNCHANGED <<published, dropped, clobbered, bus, queue, dead, pos, ok>>
        /\ pc' = "rewriting" => pc = "rewriting" /\ hand' = hand
    BY <1>3 DEF Tick, vars, wvars, hvars, StartCycle, TakeRetry, ReadBus, EndCycle
  <2>2. Waiting' = Waiting
    BY <2>1 DEF Waiting
  <2> QED
    BY <2>1, <2>2 DEF LiveInv, Gone
<1>5. CASE RetryReturns
  <2>1. /\ UNCHANGED <<published, dropped, clobbered, bus, queue, dead, pos>> /\ pc' # "rewriting"
        /\ ok' \subseteq ok \cup {hand.ev} /\ hand.ev <= published
    BY <1>5, <1>n DEF RetryReturns, HasFile
  <2>2. Waiting' = Waiting
    BY <2>1 DEF Waiting
  <2> QED
    BY <2>1, <2>2, QuietLive DEF LiveInv
<1>6. CASE CompleteRetry \/ BuryRetry \/ RequeueRemoves
  <2>1. HasFile
    BY <1>6 DEF CompleteRetry, BuryRetry, RequeueRemoves, HasFile
  <2>2. /\ UNCHANGED <<published, dropped, clobbered, bus, pos, ok>>
        /\ queue' \subseteq queue /\ dead' \subseteq dead \cup {hand}
        /\ pc' = "rewriting" => hand' = hand
    BY <1>6, <1>n, <2>1 DEF CompleteRetry, BuryRetry, RequeueRemoves, Complete, MoveToDeadLetter
  <2>3. Waiting' = Waiting
    BY <2>2 DEF Waiting
  <2>4. \A d \in dead' : ~d.torn
    BY <1>n, <2>1, <2>2 DEF LiveInv
  <2> QED
    BY <1>n, <2>1, <2>2, <2>3, <2>4, QuietLive DEF LiveInv
<1>k. \A k \in queue : k.ev <= published
  BY DEF PlacesInv
<1>7. CASE RequeueWrites
  <2>1. /\ pc = "rewriting" /\ pc' = "retries" /\ WriteJob(hand.ev, hand.type, hand.attempt + 1)
        /\ UNCHANGED <<dead, bus, published, ok, pos>>
    BY <1>7 DEF RequeueWrites
  <2>2. /\ hand.ev <= published /\ hand.ev \notin Gone
        /\ \A k \in queue : ~k.torn => k.ev # hand.ev
        /\ \A i \in Waiting : bus[i].ev # hand.ev
    BY <2>1 DEF PlacesInv, OneFileInv, LiveInv, InHand
  <2>3. Waiting' = Waiting
    BY <2>1 DEF Waiting
  <2> QED
    BY <1>k, <2>1, <2>2, <2>3, WriteJobLive
<1>8. CASE DispatchReturns
  <2>1. /\ UNCHANGED <<published, dropped, clobbered, bus, queue, dead>> /\ pos' \in {pos, pos + 1}
        /\ ok' \subseteq ok \cup {bus[pos].ev} /\ pc' # "rewriting" /\ pos <= cursor
    BY <1>8 DEF DispatchReturns
  <2>2. pos \in Waiting /\ Waiting' \subseteq Waiting
    BY <2>1, Shapes DEF Waiting
  <2>3. bus[pos].ev <= published
    BY <2>2 DEF PlacesInv
  <2> QED
    BY <2>1, <2>2, <2>3, QuietLive DEF LiveInv
<1>9. CASE EnqueueFailed
  <2>1. /\ pc = "enqueueing" /\ pc' = "batch" /\ pos' = pos + 1
        /\ WriteJob(bus[pos].ev, bus[pos].type, 0)
        /\ UNCHANGED <<dead, bus, published, ok>>
    BY <1>9 DEF EnqueueFailed
  <2>2. pos \in Waiting /\ Waiting' \subseteq Waiting /\ pos \notin Waiting'
    BY <2>1, Shapes DEF TypeInv, PositionOK, Waiting
  <2>3. /\ bus[pos].ev <= published /\ bus[pos].ev \notin Gone
        /\ \A k \in queue : ~k.torn => k.ev # bus[pos].ev
    BY <2>2 DEF PlacesInv, OneFileInv, LiveInv
  <2>4. \A i \in Waiting' : bus[i].ev # bus[pos].ev
    BY <2>2 DEF PlacesInv
  <2> QED
    BY <1>k, <2>1, <2>2, <2>3, <2>4, WriteJobLive
<1>10. CASE Crash
  BY <1>10, CrashLive
<1> QED
  BY <1>1, <1>2, <1>3, <1>5, <1>6, <1>7, <1>8, <1>9, <1>10 DEF Next, Worker

StatusOf == [e \in Events |-> Status(e)]
Step == Lifecycle!Next \/ UNCHANGED <<StatusOf, tries>>

(* Whatever only drops or clobbers loses what was pending.                 *)
LEMMA LoseStep ==
    ASSUME UNCHANGED <<published, ok, dead, tries>>,
           dropped \subseteq dropped', clobbered \subseteq clobbered'
    PROVE  Step
<1> DEFINE lost == {e \in Events : Status(e) = "pending" /\ Status(e)' = "lost"}
<1>1. ASSUME NEW e \in Events  PROVE Status(e)' = IF e \in lost THEN "lost" ELSE Status(e)
  BY DEF Status, Buried
<1>2. \A e \in lost : e \in Events /\ Status(e) = "pending"
  OBVIOUS
<1> HIDE DEF lost
<1>3. Lifecycle!Lose(lost)
  BY <1>1, <1>2 DEF Lifecycle!Lose
<1>4. lost \in SUBSET Events
  BY <1>2
<1> QED
  BY <1>3, <1>4 DEF Step, Lifecycle!Next

LEMMA SubmitStep ==
    ASSUME TypeInv, TypeInv', PlacesInv, LiveInv, NEW t \in Types, Append1(t),
           UNCHANGED <<dead, ok, dropped, clobbered, tries>>
    PROVE  Step
<1>0. published + 1 \in Events /\ published' = published + 1
  <2>1. published \in Nat /\ published' \in 0..MaxEvents
    BY Shapes DEF TypeInv, TypeOK
  <2> QED
    BY <2>1, PipelineAssumption DEF Append1, Events
<1> PICK new \in Events : new = published + 1
  BY <1>0
<1>1. published \in Nat /\ published' = new /\ new = published + 1 /\ \A e \in Events : e \in Nat
  BY <1>0, Shapes DEF Events
<1>2. new \notin ok \cup dropped \cup clobbered /\ ~Buried(new)
  <2>1. \A d \in dead : d.ev \in Nat /\ d.ev <= published
    BY Shapes, JobEvent DEF PlacesInv
  <2> QED
    BY <1>1, <2>1 DEF LiveInv, Gone, Buried
<1>3. Status(new) = "absent" /\ Status(new)' = "pending"
  BY <1>1, <1>2 DEF Status, Buried
<1>4. \A e \in Events : e # new => Status(e)' = Status(e)
  BY <1>1 DEF Status, Buried
<1>5. Lifecycle!Submit(new)
  BY <1>1, <1>3, <1>4 DEF Lifecycle!Submit
<1> QED
  BY <1>1, <1>5 DEF Step, Lifecycle!Next

LEMMA AttemptStep ==
    ASSUME TypeInv, NEW e \in Events, e <= published, ~Buried(e), e \notin Gone,
           tries' = [tries EXCEPT ![e] = @ + 1], ok' = ok \/ ok' = ok \cup {e},
           UNCHANGED <<published, dead, dropped, clobbered>>
    PROVE  Step
<1>1. published \in Nat /\ e \in Nat /\ ~(e > published)
  BY Shapes DEF Events
<1>2. Status(e) \in {"pending", "done"}
  BY <1>1 DEF Status, Gone
<1>3. \A f \in Events : f # e => Status(f)' = Status(f)
  BY DEF Status, Buried
<1>4. Status(e)' = Status(e) \/ Status(e)' = "done"
  BY <1>1 DEF Status, Buried
<1>5. Lifecycle!Attempt(e)
  BY <1>2, <1>3, <1>4 DEF Lifecycle!Attempt
<1> QED
  BY <1>5 DEF Step, Lifecycle!Next

LEMMA GiveUpStep ==
    ASSUME TypeInv, NEW j, j.ev \in Events, j.ev <= published, ~Buried(j.ev), j.ev \notin Gone,
           dead' = dead \cup {j}, MaxRetries < tries[j.ev],
           UNCHANGED <<published, ok, dropped, clobbered, tries>>
    PROVE  Step
<1>1. published \in Nat /\ j.ev \in Nat /\ ~(j.ev > published)
  BY Shapes DEF Events
<1>2. \A f \in Events : f # j.ev => Status(f)' = Status(f)
  BY DEF Status, Buried
<1>3. CASE j.ev \in ok
  <2>1. Status(j.ev)' = Status(j.ev)
    BY <1>1, <1>3 DEF Status
  <2>2. \A f \in Events : Status(f)' = Status(f)
    BY <1>2, <2>1
  <2> QED
    BY <2>2 DEF Step, StatusOf
<1>4. CASE j.ev \notin ok
  <2>1. Status(j.ev) = "pending" /\ Status(j.ev)' = "dead"
    BY <1>1, <1>4 DEF Status, Gone, Buried
  <2>2. tries[j.ev] > MaxRetries
    <3>1. tries[j.ev] \in Nat /\ MaxRetries \in Nat
      BY CountTypes
    <3> QED  BY <3>1
  <2>3. Lifecycle!GiveUp(j.ev)
    BY <1>2, <2>1, <2>2 DEF Lifecycle!GiveUp
  <2> QED
    BY <2>3 DEF Step, Lifecycle!Next
<1> QED
  BY <1>3, <1>4

LEMMA EveryStep ==
    ASSUME WhereInv, WhereInv', CountInv, LiveInv, [Next]_vars
    PROVE  Step
<1>i. TypeInv /\ TypeInv' /\ NamesInv /\ PlacesInv /\ OneFileInv
  BY DEF WhereInv, FilesInv
<1>n. HasFile => /\ Named(queue, hand) = {hand} /\ hand \in queue /\ ~hand.torn /\ hand.ev <= published
                 /\ hand.ev \notin Gone /\ hand.ev \in Events /\ Named(dead, hand) = {}
  <2>1. ASSUME HasFile  PROVE Named(queue, hand) = {hand}
    BY <1>i, <2>1, HandNamesOneFile
  <2>2. HasFile => Named(dead, hand) = {}
    BY <1>i DEF NamesInv, Named
  <2>3. HasFile => hand.ev \in Events
    BY <1>i, CountTypes DEF InHand
  <2> QED
    BY <1>i, <2>1, <2>2, <2>3 DEF NamesInv, PlacesInv, InHand, LiveInv
<1>b. HasFile => ~Buried(hand.ev)
  BY <1>n, <1>i DEF Buried, LiveInv, OneFileInv, OneFilePerEvent, NamesInv
<1>1. CASE \E t \in Types : Publish(t)
  BY <1>1, <1>i, SubmitStep DEF Publish
<1>2. CASE DispatchPublishes
  BY <1>2, <1>i, SubmitStep, PipelineAssumption DEF DispatchPublishes
<1>3. CASE Tick \/ UNCHANGED vars \/ StartCycle \/ TakeRetry \/ ReadBus \/ EndCycle
           \/ CompleteRetry \/ RequeueRemoves \/ (BuryRetry /\ dead' = dead)
  <2>1. UNCHANGED <<published, ok, dead, tries, dropped, clobbered>>
    BY <1>3 DEF Tick, vars, wvars, hvars, StartCycle, TakeRetry, ReadBus, EndCycle,
                CompleteRetry, RequeueRemoves, BuryRetry
  <2> QED
    BY <2>1, LoseStep
<1>4. CASE RequeueWrites \/ EnqueueFailed \/ Crash
  <2>1. UNCHANGED <<published, ok, dead, tries>>
    BY <1>4 DEF RequeueWrites, EnqueueFailed, Crash
  <2>2. dropped \subseteq dropped' /\ clobbered \subseteq clobbered'
    BY <1>4 DEF RequeueWrites, EnqueueFailed, Crash, WriteJob
  <2> QED
    BY <2>1, <2>2, LoseStep
<1>5. CASE RetryReturns
  <2>1. HasFile
    BY <1>5 DEF RetryReturns, HasFile
  <2>2. /\ tries' = [tries EXCEPT ![hand.ev] = @ + 1] /\ (ok' = ok \/ ok' = ok \cup {hand.ev})
        /\ UNCHANGED <<published, dead, dropped, clobbered>>
    BY <1>5 DEF RetryReturns
  <2> QED
    BY <1>b, <1>i, <1>n, <2>1, <2>2, AttemptStep
<1>6. CASE DispatchReturns
  <2>1. pos \in Waiting /\ pos \in 1..Len(bus)
    BY <1>6, <1>i, Shapes DEF DispatchReturns, Waiting
  <2>2. /\ bus[pos].ev \in Events /\ bus[pos].ev <= published /\ bus[pos].ev \notin Gone
        /\ ~Buried(bus[pos].ev)
    BY <2>1, <1>i, Shapes DEF PlacesInv, LiveInv, OneFileInv, Buried
  <2>3. /\ tries' = [tries EXCEPT ![bus[pos].ev] = @ + 1] /\ (ok' = ok \/ ok' = ok \cup {bus[pos].ev})
        /\ UNCHANGED <<published, dead, dropped, clobbered>>
    BY <1>6 DEF DispatchReturns
  <2> QED
    BY <1>i, <2>2, <2>3, AttemptStep
<1>7. CASE BuryRetry /\ dead' # dead
  <2>1. HasFile /\ pc = "burying"
    BY <1>7 DEF BuryRetry, HasFile
  <2>2. dead' = dead \cup {hand} /\ UNCHANGED <<published, ok, dropped, clobbered, tries>>
    BY <1>7, <1>n, <2>1 DEF BuryRetry, MoveToDeadLetter
  <2>3. hand.attempt + 1 + 1 <= tries[hand.ev] /\ MaxRetries <= hand.attempt + 1
    BY <1>n, <2>1 DEF CountInv, FileCounts, HandCounts, InBounds, Returned
  <2>4. MaxRetries < tries[hand.ev]
    <3>1. hand.attempt \in Nat /\ tries[hand.ev] \in Nat /\ MaxRetries \in Nat
      BY <1>i, <2>1, CountTypes DEF InHand
    <3> QED
      BY <2>3, <3>1
  <2> QED
    BY <1>b, <1>i, <1>n, <2>1, <2>2, <2>4, GiveUpStep
<1> QED
  BY <1>1, <1>2, <1>3, <1>4, <1>5, <1>6, <1>7 DEF Next, Worker

(* The worker, its queue and its crashes implement what it promises of     *)
(* each event: attempts until success or MaxRetries + 1 of them, and no    *)
(* way back from done, dead or lost.                                       *)
THEOREM WorkerImplementsLifecycle == Spec => ImplementsLifecycle
<1>1. Init => Lifecycle!Init
  <2> SUFFICES ASSUME Init  PROVE Lifecycle!Init
    OBVIOUS
  <2>1. \A e \in Events : Status(e) = "absent"
    BY DEF Init, Status, Events
  <2> QED
    BY <2>1 DEF Init, Lifecycle!Init
<1>2. WhereInv /\ WhereInv' /\ CountInv /\ [Next]_vars => CountInv'
  BY CountNext DEF WhereInv, FilesInv
<1>3. WhereInv /\ WhereInv' /\ CountInv /\ LiveInv /\ [Next]_vars
      => [Lifecycle!Next]_<<[e \in Events |-> Status(e)], tries>>
  BY EveryStep DEF Step, StatusOf
<1> QED
  BY <1>1, <1>2, <1>3, CountInit, LiveInit, LiveNext, WhereInvAlways, PTL
     DEF Spec, ImplementsLifecycle, Lifecycle!Spec
=============================================================================
