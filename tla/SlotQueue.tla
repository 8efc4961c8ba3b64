------------------------------ MODULE SlotQueue ------------------------------
(***************************************************************************)
(* A model slot of src/crates/model-runtime: the inference queue           *)
(* (queue.rs), the slot state machine it reports to (state.rs) and the     *)
(* calls that go through both (local.rs, infer).                           *)
(*                                                                         *)
(* The counters of the state machine are separate atomics and its state is *)
(* behind a lock that is taken anew for each read and each write, so every *)
(* load, fetch_add, snapshot and transition is a step of its own.  Between *)
(* them other callers run on other threads.  Atomics are taken to be       *)
(* sequentially consistent.                                                *)
(*                                                                         *)
(* A caller's pc names what it does next.  "seen" holds what it has loaded *)
(* and "ret" where it goes on after the helper it is in (refresh_busy or   *)
(* record_released).  The transition log and last_used_at are left out.    *)
(***************************************************************************)
EXTENDS Naturals, FiniteSets

CONSTANTS Callers,          \* tasks that call infer
          MaxConcurrency,   \* permits of the semaphore
          MaxCancels        \* bound: calls dropped while they wait for a permit

ASSUME SlotAssumption ==
    /\ IsFiniteSet(Callers)
    /\ MaxConcurrency \in Nat \ {0}
    /\ MaxCancels \in Nat

VARIABLES permits,   \* free permits of the semaphore
          active, queued,   \* the atomics
          state,     \* StateInner::state
          pc, ret, seen,    \* the callers
          granted,   \* callers whose acquire was given a permit
          leaked     \* history: calls dropped while they waited

shared == <<permits, active, queued, state>>
vars == <<shared, pc, ret, seen, granted, leaked>>

Ready == [kind |-> "Ready", active |-> 0, queued |-> 0]
Error == [kind |-> "Error", active |-> 0, queued |-> 0]
Busy(a, q) == [kind |-> "Busy", active |-> a, queued |-> q]

Labels == {"idle", "waiting", "unq_load", "unq_sub", "acquired", "acq_load",
           "acq_busy", "inferring", "failed", "permit", "rel_load", "rel_sub",
           "rel_snapshot", "rel_test", "rel_ready", "returning", "timed_out",
           "rb_active", "rb_queued", "rb_snapshot", "rb_busy"}

TypeOK ==
    /\ permits \in Nat
    /\ active \in Nat
    /\ queued \in Nat
    /\ state \in [kind : {"Ready", "Error", "Busy"}, active : Nat, queued : Nat]
    /\ pc \in [Callers -> Labels]
    /\ ret \in [Callers -> Labels]
    /\ seen \in [Callers -> [active : Nat, queued : Nat]]
    /\ granted \subseteq Callers
    /\ leaked \in 0..MaxCancels

Nothing == [active |-> 0, queued |-> 0]

(* from_config marks a configured slot Ready. *)
Init ==
    /\ permits = MaxConcurrency /\ active = 0 /\ queued = 0 /\ state = Ready
    /\ pc = [c \in Callers |-> "idle"] /\ ret = [c \in Callers |-> "idle"]
    /\ seen = [c \in Callers |-> Nothing]
    /\ granted = {} /\ leaked = 0

-----------------------------------------------------------------------------
At(c, l) == pc[c] = l
Goto(c, l) == pc' = [pc EXCEPT ![c] = l]
Return(c) == Goto(c, ret[c])
CallThen(c, l, r) == Goto(c, l) /\ ret' = [ret EXCEPT ![c] = r]

(* Steps that only load: they change the caller's own variables. *)
Load(c, field, value) == seen' = [seen EXCEPT ![c][field] = value]
OnlyLocal == UNCHANGED <<shared, granted, leaked>>
KeepLocal == UNCHANGED <<ret, seen, granted, leaked>>

(* transition: a no-op when the state is already the new one. *)
Transition(to) == state' = to /\ UNCHANGED <<permits, active, queued>>

(* refresh_busy: three reads, then a write of what was read if the slot    *)
(* was Busy when it was read.                                              *)
RefreshBusy(c) ==
    \/ At(c, "rb_active") /\ Load(c, "active", active) /\ Goto(c, "rb_queued")
       /\ UNCHANGED ret /\ OnlyLocal
    \/ At(c, "rb_queued") /\ Load(c, "queued", queued) /\ Goto(c, "rb_snapshot")
       /\ UNCHANGED ret /\ OnlyLocal
    \/ /\ At(c, "rb_snapshot")
       /\ IF state.kind = "Busy"
          THEN Goto(c, "rb_busy") /\ UNCHANGED seen
          ELSE Return(c) /\ seen' = [seen EXCEPT ![c] = Nothing]
       /\ UNCHANGED ret /\ OnlyLocal
    \/ /\ At(c, "rb_busy")
       /\ Transition(Busy(seen[c].active, seen[c].queued))
       /\ seen' = [seen EXCEPT ![c] = Nothing]
       /\ Return(c) /\ UNCHANGED <<ret, granted, leaked>>

(* acquire begins with record_queued, *)
Queue(c) ==
    /\ At(c, "idle")
    /\ queued' = queued + 1
    /\ CallThen(c, "rb_active", "waiting")
    /\ UNCHANGED <<permits, active, state, seen, granted, leaked>>

(* waits for a permit or for queue_timeout, *)
Grant(c) ==
    /\ At(c, "waiting") /\ permits > 0
    /\ permits' = permits - 1
    /\ granted' = granted \cup {c}
    /\ Goto(c, "unq_load")
    /\ UNCHANGED <<active, queued, state, ret, seen, leaked>>

(* Mutants: no timer; a return that leaves the caller queued.              *)
QueueTimeout_None(c) == FALSE
QueueTimeout_StaysQueued(c) ==
    At(c, "waiting") /\ Goto(c, "timed_out") /\ UNCHANGED shared /\ KeepLocal

QueueTimeout(c) ==
    /\ At(c, "waiting")
    /\ Goto(c, "unq_load")
    /\ UNCHANGED shared /\ KeepLocal

(* unless its caller, which has a timeout of its own (infer_kind), drops   *)
(* it: the rest of acquire is then never run.                              *)
CancelWait(c) ==
    /\ At(c, "waiting") /\ leaked < MaxCancels
    /\ leaked' = leaked + 1
    /\ Goto(c, "idle")
    /\ UNCHANGED <<shared, ret, seen, granted>>

(* and goes on with record_unqueued, *)
Unqueue(c) ==
    LET next == IF c \in granted THEN "acquired" ELSE "timed_out"
    IN  \/ /\ At(c, "unq_load")
           /\ IF queued > 0 THEN Goto(c, "unq_sub") /\ UNCHANGED ret
                            ELSE CallThen(c, "rb_active", next)
           /\ UNCHANGED seen /\ OnlyLocal
        \/ /\ At(c, "unq_sub")
           /\ queued' = queued - 1
           /\ CallThen(c, "rb_active", next)
           /\ UNCHANGED <<permits, active, state, seen, granted, leaked>>

(* Mutant: only the caller that makes the slot busy is counted. *)
AddActive_Once == active' = IF active = 0 THEN 1 ELSE active

AddActive == active' = active + 1

(* then record_acquired, or infer's record_error of a saturated queue.     *)
RecordAcquired(c) ==
    \/ /\ At(c, "acquired")
       /\ AddActive
       /\ IF active = 0 THEN Goto(c, "acq_load") /\ UNCHANGED ret
                        ELSE CallThen(c, "rb_active", "inferring")
       /\ UNCHANGED <<permits, queued, state, seen, granted, leaked>>
    \/ At(c, "acq_load") /\ Load(c, "queued", queued) /\ Goto(c, "acq_busy")
       /\ UNCHANGED ret /\ OnlyLocal
    \/ /\ At(c, "acq_busy")
       /\ Transition(Busy(1, seen[c].queued))
       /\ seen' = [seen EXCEPT ![c] = Nothing]
       /\ Goto(c, "inferring") /\ UNCHANGED <<ret, granted, leaked>>

RecordError(c) ==
    \/ At(c, "timed_out") /\ Transition(Error) /\ Goto(c, "idle") /\ KeepLocal
    \/ At(c, "failed") /\ Transition(Error) /\ Goto(c, "permit") /\ KeepLocal

(* Mutant: a dropped guard does not give its permit back. *)
InferReturns_Forgets(c) ==
    /\ At(c, "inferring")
    /\ \/ Goto(c, "permit") /\ UNCHANGED ret
       \/ CallThen(c, "rel_load", "idle")
    /\ UNCHANGED seen /\ OnlyLocal

(* The inner call succeeds or times out, fails, or is dropped with its     *)
(* guard by the caller's own timeout.                                      *)
InferReturns(c) ==
    /\ At(c, "inferring")
    /\ \/ Goto(c, "permit") /\ UNCHANGED ret
       \/ Goto(c, "failed") /\ UNCHANGED ret
       \/ CallThen(c, "rel_load", "returning")
    /\ UNCHANGED seen /\ OnlyLocal

(* SlotGuard::release gives the permit back and then records it; the drop  *)
(* of a guard records it and then gives the permit back.                   *)
GivePermit(c) ==
    /\ \/ At(c, "permit") /\ CallThen(c, "rel_load", "idle")
       \/ At(c, "returning") /\ Goto(c, "idle") /\ UNCHANGED ret
    /\ permits' = permits + 1
    /\ granted' = granted \ {c}
    /\ UNCHANGED <<active, queued, state, seen, leaked>>

RecordReleased(c) ==
    \/ At(c, "rel_load") /\ Goto(c, IF active > 0 THEN "rel_sub" ELSE "rel_snapshot")
       /\ UNCHANGED shared /\ KeepLocal
    \/ At(c, "rel_sub") /\ active' = active - 1 /\ Goto(c, "rel_snapshot")
       /\ UNCHANGED <<permits, queued, state>> /\ KeepLocal
    \/ At(c, "rel_snapshot") /\ Goto(c, IF state.kind = "Error" THEN ret[c] ELSE "rel_test")
       /\ UNCHANGED shared /\ KeepLocal
    \/ At(c, "rel_test") /\ Goto(c, IF active = 0 THEN "rel_ready" ELSE "rb_active")
       /\ UNCHANGED shared /\ KeepLocal
    \/ At(c, "rel_ready") /\ Transition(Ready) /\ Return(c) /\ KeepLocal

Continue(c) ==
    \/ RefreshBusy(c) \/ Grant(c) \/ QueueTimeout(c) \/ Unqueue(c) \/ RecordAcquired(c)
    \/ RecordError(c) \/ InferReturns(c) \/ GivePermit(c) \/ RecordReleased(c)

Next == \E c \in Callers : Queue(c) \/ CancelWait(c) \/ Continue(c)

Spec == Init /\ [][Next]_vars

(* A caller that has begun a call is polled until it returns, and both     *)
(* timers of the call fire; nobody is obliged to call or to cancel.        *)
FairSpec == Spec /\ \A c \in Callers : WF_vars(Continue(c))

-----------------------------------------------------------------------------
(* Callers between the increment and the decrement of a counter.           *)
Releasing == {"rel_load", "rel_sub"}
Refreshing == {"rb_active", "rb_queued", "rb_snapshot", "rb_busy"}
InQueue(c) ==
    \/ pc[c] \in {"waiting", "unq_load", "unq_sub"}
    \/ pc[c] \in Refreshing /\ ret[c] = "waiting"
InCall(c) ==
    \/ pc[c] \in {"acq_load", "acq_busy", "inferring", "failed", "permit"} \cup Releasing
    \/ pc[c] \in Refreshing /\ ret[c] = "inferring"

(* The semaphore's permits are conserved across every way a call can end:  *)
(* success, failure, queue timeout, chunk timeout, a drop while waiting    *)
(* and a drop while inferring.  None is returned twice, and none is kept   *)
(* by a caller whose call is over.                                         *)
Holders == {c \in granted : pc[c] # "idle"}
PermitsConserved == permits + Cardinality(Holders) = MaxConcurrency

(* No more than MaxConcurrency calls are inside the model at a time.       *)
Inferring == {c \in Callers : pc[c] = "inferring"}
ConcurrencyBounded == Cardinality(Inferring) <= MaxConcurrency

(* Although load and sub are separate, no update of a counter is lost: the *)
(* counters are the callers in the queue (and those dropped there) and the *)
(* callers in a call.  So a load before a sub is never 0.                  *)
CountersExact ==
    /\ active = Cardinality({c \in Callers : InCall(c)})
    /\ queued = Cardinality({c \in Callers : InQueue(c)}) + leaked

(* The live count may exceed the limit, because release gives the permit   *)
(* back first, but only by the calls that are being released.              *)
ActiveBounded ==
    active <= MaxConcurrency
              + Cardinality({c \in Callers : pc[c] \in Releasing /\ c \notin granted})

(* Every call returns: a caller that cannot get a permit times out, even   *)
(* if others keep taking it.                                               *)
EveryCallReturns == \A c \in Callers : pc[c] # "idle" ~> pc[c] = "idle"
=============================================================================
