--------------------------- MODULE SlotQueueProofs ---------------------------
(* Theorems about SlotQueue, for any finite set of callers, any number of  *)
(* permits and any number of cancelled waits.                              *)
EXTENDS SlotQueue, FiniteSetTheorems, TLAPS

Step(c) == Queue(c) \/ CancelWait(c) \/ Continue(c)

(***************************************************************************)
(* Where a caller stands with respect to its permit.  The helpers          *)
(* refresh_busy and record_released are entered from several places, so    *)
(* inside them it is the return label that tells.                          *)
(***************************************************************************)
RecordingRelease == Releasing \cup {"rel_snapshot", "rel_test", "rel_ready"}
Helper == Refreshing \cup RecordingRelease

HasPermit(c) ==
    \/ pc[c] \in {"acquired", "acq_load", "acq_busy", "inferring", "failed",
                  "permit", "returning"}
    \/ pc[c] \in Helper /\ ret[c] \in {"acquired", "inferring", "returning"}
HasNoPermit(c) ==
    \/ pc[c] \in {"idle", "waiting", "timed_out"}
    \/ pc[c] \in Helper /\ ret[c] \in {"waiting", "timed_out", "idle"}

PermitInv(c) ==
    /\ pc[c] \in RecordingRelease => ret[c] \in {"idle", "returning"}
    /\ pc[c] \in Refreshing =>
         ret[c] \in {"waiting", "acquired", "timed_out", "inferring", "idle", "returning"}
    /\ HasPermit(c) => c \in granted
    /\ HasNoPermit(c) => c \notin granted

PermitCount == permits + Cardinality(granted) = MaxConcurrency

Calls == {c \in Callers : InCall(c)}
Waiters == {c \in Callers : InQueue(c)}

Inv ==
    /\ TypeOK
    /\ \A c \in Callers : PermitInv(c)
    /\ PermitCount
    /\ active = Cardinality(Calls)
    /\ queued = Cardinality(Waiters) + leaked

LEMMA InvInit == Init => Inv
<1> SUFFICES ASSUME Init PROVE Inv
    OBVIOUS
<1> USE SlotAssumption
<1>1. TypeOK BY DEF Init, TypeOK, Ready, Nothing, Labels
<1>2. \A c \in Callers : PermitInv(c)
    BY DEF Init, PermitInv, HasPermit, HasNoPermit, Helper, Refreshing, RecordingRelease, Releasing
<1>3. PermitCount BY FS_EmptySet DEF Init, PermitCount
<1>4. Calls = {} /\ Waiters = {}
    BY DEF Init, Calls, Waiters, InCall, InQueue, Refreshing, Releasing
<1> QED BY <1>1, <1>2, <1>3, <1>4, FS_EmptySet DEF Inv, Init

(* A step of one caller leaves the others where they are. *)
LEMMA OthersStay ==
    ASSUME TypeOK, NEW c \in Callers, Step(c), NEW d \in Callers, d # c
    PROVE  pc'[d] = pc[d] /\ ret'[d] = ret[d] /\ (d \in granted' <=> d \in granted)
<1> USE DEF TypeOK, Goto, CallThen, Return, KeepLocal, OnlyLocal, Load
<1>1. CASE Queue(c) BY <1>1 DEF Queue
<1>2. CASE CancelWait(c) BY <1>2 DEF CancelWait
<1>3. CASE RefreshBusy(c) BY <1>3 DEF RefreshBusy
<1>4. CASE Grant(c) BY <1>4 DEF Grant
<1>5. CASE QueueTimeout(c) BY <1>5 DEF QueueTimeout
<1>6. CASE Unqueue(c) BY <1>6 DEF Unqueue
<1>7. CASE RecordAcquired(c) BY <1>7 DEF RecordAcquired, AddActive
<1>8. CASE RecordError(c) BY <1>8 DEF RecordError
<1>9. CASE InferReturns(c) BY <1>9 DEF InferReturns
<1>10. CASE GivePermit(c) BY <1>10 DEF GivePermit
<1>11. CASE RecordReleased(c) BY <1>11 DEF RecordReleased
<1> QED BY <1>1, <1>2, <1>3, <1>4, <1>5, <1>6, <1>7, <1>8, <1>9, <1>10, <1>11
        DEF Step, Continue

(* The caller that takes the step: its type and its permit. *)
LEMMA CallerStep ==
    ASSUME TypeOK, NEW c \in Callers, PermitInv(c), Step(c),
           InCall(c) => active > 0, InQueue(c) => queued > 0
    PROVE  /\ TypeOK'
           /\ PermitInv(c)'
<1> USE SlotAssumption DEF TypeOK, Labels, Goto, CallThen, Return, KeepLocal, OnlyLocal, Load, At,
                shared, Transition, Busy, Ready, Error, Nothing,
                PermitInv, HasPermit, HasNoPermit, Helper, Refreshing, RecordingRelease, Releasing
<1>1. CASE Queue(c) BY <1>1 DEF Queue
<1>2. CASE CancelWait(c) BY <1>2 DEF CancelWait
<1>3. CASE RefreshBusy(c) BY <1>3 DEF RefreshBusy
<1>4. CASE Grant(c) BY <1>4 DEF Grant
<1>5. CASE QueueTimeout(c) BY <1>5 DEF QueueTimeout
<1>6. CASE Unqueue(c)
  <2>1. CASE At(c, "unq_load") BY <1>6, <2>1 DEF Unqueue
  <2>2. CASE At(c, "unq_sub")
    <3>1. queued - 1 \in Nat BY <2>2 DEF InQueue
    <3>2. TypeOK' BY <1>6, <2>2, <3>1 DEF Unqueue
    <3>3. PermitInv(c)' BY <1>6, <2>2 DEF Unqueue
    <3> QED BY <3>2, <3>3
  <2> QED BY <1>6, <2>1, <2>2 DEF Unqueue
<1>7. CASE RecordAcquired(c) BY <1>7 DEF RecordAcquired, AddActive
<1>8. CASE RecordError(c) BY <1>8 DEF RecordError
<1>9. CASE InferReturns(c) BY <1>9 DEF InferReturns
<1>10. CASE GivePermit(c) BY <1>10 DEF GivePermit
<1>11. CASE RecordReleased(c) BY <1>11 DEF RecordReleased, InCall
<1> QED BY <1>1, <1>2, <1>3, <1>4, <1>5, <1>6, <1>7, <1>8, <1>9, <1>10, <1>11
        DEF Step, Continue

(***************************************************************************)
(* The counters.  Each is changed by one only when the caller that changes *)
(* it enters or leaves the set that the counter counts.                    *)
(***************************************************************************)
LEMMA CallerCounts ==
    ASSUME TypeOK, NEW c \in Callers, PermitInv(c), Step(c),
           InCall(c) => active > 0, InQueue(c) => queued > 0
    PROVE  /\ \/ (InCall(c)' <=> InCall(c)) /\ active' = active
              \/ ~InCall(c) /\ InCall(c)' /\ active' = active + 1
              \/ InCall(c) /\ ~InCall(c)' /\ active' = active - 1
           /\ \/ (InQueue(c)' <=> InQueue(c)) /\ queued' - leaked' = queued - leaked
              \/ ~InQueue(c) /\ InQueue(c)' /\ queued' = queued + 1 /\ leaked' = leaked
              \/ InQueue(c) /\ ~InQueue(c)' /\ queued' = queued - 1 /\ leaked' = leaked
              \/ InQueue(c) /\ ~InQueue(c)' /\ queued' = queued /\ leaked' = leaked + 1
<1> USE SlotAssumption DEF TypeOK, Labels, Goto, CallThen, Return, KeepLocal, OnlyLocal, Load, At,
                shared, Transition, PermitInv, HasPermit, HasNoPermit, Helper, Refreshing,
                RecordingRelease, Releasing, InCall, InQueue
<1>1. CASE Queue(c) BY <1>1 DEF Queue
<1>2. CASE CancelWait(c) BY <1>2 DEF CancelWait
<1>3. CASE RefreshBusy(c) BY <1>3 DEF RefreshBusy
<1>4. CASE Grant(c) BY <1>4 DEF Grant
<1>5. CASE QueueTimeout(c) BY <1>5 DEF QueueTimeout
<1>6. CASE Unqueue(c)
  <2>1. CASE At(c, "unq_load") BY <1>6, <2>1 DEF Unqueue
  <2>2. CASE At(c, "unq_sub") BY <1>6, <2>2 DEF Unqueue
  <2> QED BY <1>6, <2>1, <2>2 DEF Unqueue
<1>7. CASE RecordAcquired(c) BY <1>7 DEF RecordAcquired, AddActive
<1>8. CASE RecordError(c) BY <1>8 DEF RecordError
<1>9. CASE InferReturns(c) BY <1>9 DEF InferReturns
<1>10. CASE GivePermit(c) BY <1>10 DEF GivePermit
<1>11. CASE RecordReleased(c) BY <1>11 DEF RecordReleased
<1> QED BY <1>1, <1>2, <1>3, <1>4, <1>5, <1>6, <1>7, <1>8, <1>9, <1>10, <1>11
        DEF Step, Continue

(* A set that changes by at most the element c. *)
LEMMA SetStep ==
    ASSUME NEW S, NEW T, IsFiniteSet(S), NEW c, \A d : d # c => (d \in T <=> d \in S)
    PROVE  /\ IsFiniteSet(T) /\ Cardinality(S) \in Nat /\ Cardinality(T) \in Nat
           /\ (c \in T <=> c \in S) => Cardinality(T) = Cardinality(S)
           /\ c \notin S /\ c \in T => Cardinality(T) = Cardinality(S) + 1
           /\ c \in S /\ c \notin T => Cardinality(T) = Cardinality(S) - 1
           /\ c \in S => Cardinality(S) > 0
<1>1. Cardinality(S) \in Nat BY FS_CardinalityType
<1>2. c \in S => Cardinality(S \ {c}) = Cardinality(S) - 1 BY FS_RemoveElement
<1>3. c \in S => IsFiniteSet(S \ {c}) /\ Cardinality(S \ {c}) \in Nat
    BY FS_RemoveElement, FS_CardinalityType
<1>4. c \in S => Cardinality(S) > 0 BY <1>1, <1>2, <1>3
<1>5. CASE c \in T <=> c \in S
  <2>1. T = S BY <1>5
  <2> QED BY <1>1, <1>4, <1>5, <2>1
<1>6. CASE c \notin S /\ c \in T
  <2>1. T = S \cup {c} BY <1>6
  <2>2. IsFiniteSet(T) /\ Cardinality(T) = Cardinality(S) + 1 BY <1>6, <2>1, FS_AddElement
  <2> QED BY <1>1, <1>6, <2>2
<1>7. CASE c \in S /\ c \notin T
  <2>1. T = S \ {c} BY <1>7
  <2> QED BY <1>1, <1>2, <1>3, <1>4, <1>7, <2>1
<1> QED BY <1>5, <1>6, <1>7

LEMMA SubsetsFinite ==
    ASSUME TypeOK
    PROVE  IsFiniteSet(granted) /\ IsFiniteSet(Calls) /\ IsFiniteSet(Waiters)
BY FS_Subset, SlotAssumption DEF TypeOK, Calls, Waiters

(* The permit: taken by a caller that has none, given back by one that has *)
(* one.                                                                    *)
LEMMA CallerPermit ==
    ASSUME TypeOK, NEW c \in Callers, PermitInv(c), Step(c)
    PROVE  \/ permits' = permits /\ granted' = granted
           \/ c \notin granted /\ permits' = permits - 1 /\ granted' = granted \cup {c}
           \/ c \in granted /\ permits' = permits + 1 /\ granted' = granted \ {c}
<1> USE DEF KeepLocal, OnlyLocal, shared, Transition
<1>1. CASE Grant(c) BY <1>1 DEF Grant, At, PermitInv, HasNoPermit
<1>2. CASE GivePermit(c) BY <1>2 DEF GivePermit, At, PermitInv, HasPermit
<1>3. CASE Queue(c) \/ CancelWait(c) \/ QueueTimeout(c) \/ Unqueue(c)
    BY <1>3 DEF Queue, CancelWait, QueueTimeout, Unqueue
<1>4. CASE RefreshBusy(c) \/ RecordAcquired(c) \/ RecordError(c)
    BY <1>4 DEF RefreshBusy, RecordAcquired, RecordError
<1>5. CASE InferReturns(c) \/ RecordReleased(c)
    BY <1>5 DEF InferReturns, RecordReleased
<1> QED BY <1>1, <1>2, <1>3, <1>4, <1>5 DEF Step, Continue

LEMMA InvNext == Inv /\ [Next]_vars => Inv'
<1> SUFFICES ASSUME Inv, [Next]_vars PROVE Inv'
    OBVIOUS
<1>1. CASE UNCHANGED vars
  <2> USE <1>1 DEF vars, shared
  <2>1. \A c \in Callers : InCall(c)' = InCall(c) /\ InQueue(c)' = InQueue(c)
      BY DEF InCall, InQueue
  <2>2. Calls' = Calls /\ Waiters' = Waiters BY <2>1 DEF Calls, Waiters
  <2>3. \A c \in Callers : PermitInv(c)'
      BY DEF Inv, PermitInv, HasPermit, HasNoPermit
  <2> QED BY <2>2, <2>3 DEF Inv, TypeOK, PermitCount
<1>2. ASSUME NEW c \in Callers, Step(c) PROVE Inv'
  <2> USE <1>2
  <2>1. TypeOK /\ PermitInv(c) BY DEF Inv
  <2>2. IsFiniteSet(granted) /\ IsFiniteSet(Calls) /\ IsFiniteSet(Waiters)
      BY <2>1, SubsetsFinite
  <2>3. Cardinality(Calls) \in Nat /\ Cardinality(Waiters) \in Nat /\ Cardinality(granted) \in Nat
      BY <2>2, FS_CardinalityType
  <2>4. InCall(c) => active > 0
      BY <2>2, SetStep DEF Inv, Calls
  <2>5. InQueue(c) => queued > 0
    <3>1. InQueue(c) => Cardinality(Waiters) > 0 BY <2>2, SetStep DEF Waiters
    <3>2. leaked \in Nat BY <2>1, SlotAssumption DEF TypeOK
    <3> QED BY <2>3, <3>1, <3>2 DEF Inv
  <2>6. TypeOK' /\ PermitInv(c)' BY <2>1, <2>4, <2>5, CallerStep
  <2>7. \A d \in Callers : d # c =>
           pc'[d] = pc[d] /\ ret'[d] = ret[d] /\ (d \in granted' <=> d \in granted)
      BY <2>1, OthersStay
  <2>8. \A d \in Callers : PermitInv(d)'
    <3> SUFFICES ASSUME NEW d \in Callers, d # c PROVE PermitInv(d)'
        BY <2>6
    <3>1. PermitInv(d) BY DEF Inv
    <3> QED BY <2>7, <3>1 DEF PermitInv, HasPermit, HasNoPermit
  <2>9. PermitCount'
    <3>1. PermitCount /\ permits \in Nat BY <2>1 DEF Inv, TypeOK
    <3>2. CASE permits' = permits /\ granted' = granted
        BY <3>1, <3>2 DEF PermitCount
    <3>3. CASE c \notin granted /\ permits' = permits - 1 /\ granted' = granted \cup {c}
      <4>1. Cardinality(granted') = Cardinality(granted) + 1 BY <2>2, <3>3, FS_AddElement
      <4> QED BY <2>3, <3>1, <3>3, <4>1 DEF PermitCount
    <3>4. CASE c \in granted /\ permits' = permits + 1 /\ granted' = granted \ {c}
      <4>1. Cardinality(granted') = Cardinality(granted) - 1 BY <2>2, <3>4, FS_RemoveElement
      <4> QED BY <2>3, <3>1, <3>4, <4>1 DEF PermitCount
    <3> QED BY <2>1, <3>2, <3>3, <3>4, CallerPermit
  <2>10. \A d \in Callers : d # c => InCall(d)' = InCall(d) /\ InQueue(d)' = InQueue(d)
      BY <2>7 DEF InCall, InQueue
  <2>11. /\ \/ (InCall(c)' <=> InCall(c)) /\ active' = active
            \/ ~InCall(c) /\ InCall(c)' /\ active' = active + 1
            \/ InCall(c) /\ ~InCall(c)' /\ active' = active - 1
         /\ \/ (InQueue(c)' <=> InQueue(c)) /\ queued' - leaked' = queued - leaked
            \/ ~InQueue(c) /\ InQueue(c)' /\ queued' = queued + 1 /\ leaked' = leaked
            \/ InQueue(c) /\ ~InQueue(c)' /\ queued' = queued - 1 /\ leaked' = leaked
            \/ InQueue(c) /\ ~InQueue(c)' /\ queued' = queued /\ leaked' = leaked + 1
      BY <2>1, <2>4, <2>5, CallerCounts
  <2>12. active' = Cardinality(Calls')
    <3>1. active = Cardinality(Calls) BY DEF Inv
    <3>2. \A d : d # c => (d \in Calls' <=> d \in Calls) BY <2>10 DEF Calls
    <3>3. c \in Calls <=> InCall(c) BY DEF Calls
    <3>4. c \in Calls' <=> InCall(c)' BY DEF Calls
    <3>5. /\ (c \in Calls' <=> c \in Calls) => Cardinality(Calls') = Cardinality(Calls)
          /\ c \notin Calls /\ c \in Calls' => Cardinality(Calls') = Cardinality(Calls) + 1
          /\ c \in Calls /\ c \notin Calls' => Cardinality(Calls') = Cardinality(Calls) - 1
        BY <2>2, <3>2, SetStep
    <3> QED BY <2>11, <3>1, <3>3, <3>4, <3>5
  <2>13. queued' = Cardinality(Waiters') + leaked'
    <3>1. queued = Cardinality(Waiters) + leaked BY DEF Inv
    <3>2. \A d : d # c => (d \in Waiters' <=> d \in Waiters) BY <2>10 DEF Waiters
    <3>3. c \in Waiters <=> InQueue(c) BY DEF Waiters
    <3>4. c \in Waiters' <=> InQueue(c)' BY DEF Waiters
    <3>5. /\ (c \in Waiters' <=> c \in Waiters) => Cardinality(Waiters') = Cardinality(Waiters)
          /\ c \notin Waiters /\ c \in Waiters' => Cardinality(Waiters') = Cardinality(Waiters) + 1
          /\ c \in Waiters /\ c \notin Waiters' => Cardinality(Waiters') = Cardinality(Waiters) - 1
          /\ Cardinality(Waiters') \in Nat
        BY <2>2, <3>2, SetStep
    <3>6. leaked \in Nat /\ leaked' \in Nat /\ queued \in Nat /\ queued' \in Nat
        BY <2>1, <2>6, SlotAssumption DEF TypeOK
    <3> QED BY <2>3, <2>11, <3>1, <3>3, <3>4, <3>5, <3>6
  <2> QED BY <2>6, <2>8, <2>9, <2>12, <2>13 DEF Inv
<1> QED BY <1>1, <1>2 DEF Next, Step

LEMMA InvAlways == Spec => []Inv
BY InvInit, InvNext, PTL DEF Spec

-----------------------------------------------------------------------------
(* Every variable keeps its type; in particular no atomic ever wraps below *)
(* zero, although load and fetch_sub are separate steps (record_unqueued,  *)
(* record_released).                                                       *)
THEOREM TypeCorrect == Spec => []TypeOK
<1>1. Inv => TypeOK BY DEF Inv
<1> QED BY <1>1, InvAlways, PTL

(* No way of ending a call loses a permit or returns one twice.            *)
THEOREM PermitsAlwaysConserved == Spec => []PermitsConserved
<1>1. Inv => PermitsConserved
  <2> SUFFICES ASSUME Inv PROVE PermitsConserved
      OBVIOUS
  <2>1. Holders = granted
      BY DEF Inv, TypeOK, PermitInv, HasNoPermit, Holders
  <2> QED BY <2>1 DEF Inv, PermitCount, PermitsConserved
<1> QED BY <1>1, InvAlways, PTL

(* The active and queued atomics count exactly the callers that are in a   *)
(* call and in the queue, apart from those dropped while they waited.      *)
THEOREM CountersAlwaysExact == Spec => []CountersExact
<1>1. Inv => CountersExact BY DEF Inv, CountersExact, Calls, Waiters
<1> QED BY <1>1, InvAlways, PTL

(* At most MaxConcurrency calls are inside the model.                      *)
THEOREM ConcurrencyAlwaysBounded == Spec => []ConcurrencyBounded
<1>1. Inv => ConcurrencyBounded
  <2> SUFFICES ASSUME Inv PROVE ConcurrencyBounded
      OBVIOUS
  <2>1. Inferring \subseteq granted
      BY DEF Inv, PermitInv, HasPermit, Inferring
  <2>2. IsFiniteSet(granted) BY SubsetsFinite DEF Inv
  <2>3. /\ Cardinality(Inferring) <= Cardinality(granted)
        /\ Cardinality(Inferring) \in Nat /\ Cardinality(granted) \in Nat
      BY <2>1, <2>2, FS_Subset, FS_CardinalityType
  <2>4. permits \in Nat /\ permits + Cardinality(granted) = MaxConcurrency
      BY DEF Inv, TypeOK, PermitCount
  <2> QED BY <2>3, <2>4, SlotAssumption DEF ConcurrencyBounded
<1> QED BY <1>1, InvAlways, PTL

(* The live count exceeds the limit by no more than the calls that have    *)
(* given their permit back and not yet recorded it (SlotGuard::release).   *)
THEOREM ActiveAlwaysBounded == Spec => []ActiveBounded
<1>1. Inv => ActiveBounded
  <2> SUFFICES ASSUME Inv PROVE ActiveBounded
      OBVIOUS
  <2> DEFINE Late == {c \in Callers : pc[c] \in Releasing /\ c \notin granted}
  <2>1. Calls \subseteq granted \cup Late
    <3> SUFFICES ASSUME NEW c \in Callers, InCall(c), c \notin granted PROVE c \in Late
        BY DEF Calls
    <3> QED BY DEF Inv, InCall, PermitInv, HasPermit, Helper, RecordingRelease
  <2>2. IsFiniteSet(granted) /\ IsFiniteSet(Late)
      BY SubsetsFinite, FS_Subset, SlotAssumption DEF Inv
  <2>3. /\ IsFiniteSet(granted \cup Late)
        /\ Cardinality(granted \cup Late) <= Cardinality(granted) + Cardinality(Late)
    <3> HIDE DEF Late
    <3>1. /\ IsFiniteSet(granted \cup Late) /\ IsFiniteSet(granted \cap Late)
          /\ Cardinality(granted \cup Late) =
               Cardinality(granted) + Cardinality(Late) - Cardinality(granted \cap Late)
        BY <2>2, FS_Union, FS_Intersection
    <3> QED BY <2>2, <3>1, FS_CardinalityType
  <2>4. Cardinality(Calls) <= Cardinality(granted \cup Late)
      BY <2>1, <2>3, FS_Subset
  <2>5. /\ Cardinality(Calls) \in Nat /\ Cardinality(granted) \in Nat
        /\ Cardinality(Late) \in Nat /\ Cardinality(granted \cup Late) \in Nat
      BY <2>2, <2>3, SubsetsFinite, FS_CardinalityType DEF Inv
  <2>6. /\ permits \in Nat /\ permits + Cardinality(granted) = MaxConcurrency
        /\ active = Cardinality(Calls)
      BY DEF Inv, TypeOK, PermitCount
  <2>7. active <= MaxConcurrency + Cardinality(Late)
    <3> HIDE DEF Late
    <3> QED BY <2>3, <2>4, <2>5, <2>6, SlotAssumption
  <2> QED BY <2>7 DEF ActiveBounded
<1> QED BY <1>1, InvAlways, PTL
=============================================================================
