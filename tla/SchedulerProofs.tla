---------------------------- MODULE SchedulerProofs ----------------------------
(* Theorems about Scheduler, for any schedules, any number of loops and any *)
(* number of crashes and failed publications.                              *)
EXTENDS Scheduler, WellFoundedInduction, FiniteSetTheorems, TLAPS

(* The slots that were triggered lie behind the job's next trigger and     *)
(* behind the clock, and so does the time each loop goes by.               *)
Inv ==
    /\ TypeOK
    /\ \A j \in Jobs : \A i \in DOMAIN fired[j] :
           fired[j][i] < jobs[j].next /\ fired[j][i] <= now
    /\ \A l \in Loops : at[l] <= now
    /\ SlotsFireOnce

(* A set of numbers within bounds has a least element.                     *)
LEMMA LeastOfFinite ==
    ASSUME NEW S \in SUBSET Nat, IsFiniteSet(S), S # {}
    PROVE  \E m \in S : \A n \in S : m <= n
<1> DEFINE UpTo(m) == {n \in S : n <= m}
           T == {UpTo(m) : m \in S}
<1>1. T \subseteq FiniteSubsetsOf(S)
  BY FS_Subset DEF FiniteSubsetsOf
<1>2. PICK X \in T : \A Y \in T : ~(<<Y, X>> \in StrictSubsetOrdering(S))
  <2>1. T # {}
    OBVIOUS
  <2> HIDE DEF T
  <2> QED  BY <1>1, <2>1, FS_StrictSubsetOrderingWellFounded, WFMin
<1>3. PICK m \in S : X = UpTo(m)
  OBVIOUS
<1>4. ASSUME NEW n \in S, n < m  PROVE FALSE
  <2>1. m \in Nat /\ n \in Nat /\ n < m
    BY <1>4
  <2>2. UpTo(n) \subseteq UpTo(m)
    <3> SUFFICES ASSUME NEW k \in S, k <= n  PROVE k <= m
      OBVIOUS
    <3> QED  BY <2>1
  <2>3. m \in UpTo(m) /\ m \notin UpTo(n)
    BY <2>1
  <2>4. UpTo(n) \in T /\ UpTo(n) \in SUBSET S /\ UpTo(m) \in SUBSET S /\ UpTo(n) # UpTo(m)
    BY <2>3
  <2> HIDE DEF UpTo, T
  <2>5. <<UpTo(n), UpTo(m)>> \in StrictSubsetOrdering(S)
    BY <2>2, <2>4 DEF StrictSubsetOrdering
  <2> QED  BY <1>2, <1>3, <2>4, <2>5
<1> QED  BY <1>4

(* The next trigger is later, be it found in the schedule or not.          *)
LEMMA NextIsLater ==
    ASSUME SchedulerAssumption, NEW j \in Jobs, NEW t \in Nat
    PROVE  NextTriggerAfter(j, t) \in Nat /\ NextTriggerAfter(j, t) > t
<1> DEFINE found == {m \in Slots[j] : m \in (t + 1)..(t + Horizon)}
<1>1. found \subseteq Nat /\ \A m \in found : m > t
  BY DEF SchedulerAssumption
<1>2. CASE found = {}
  BY <1>2 DEF NextTriggerAfter, SchedulerAssumption
<1>3. CASE found # {}
  <2>1. IsFiniteSet(found)
    <3>1. IsFiniteSet((t + 1)..(t + Horizon))
      BY FS_Interval DEF SchedulerAssumption
    <3>2. found \subseteq (t + 1)..(t + Horizon)
      OBVIOUS
    <3> QED  BY <3>1, <3>2, FS_Subset
  <2>2. \E m \in found : \A n \in found : m <= n
    BY <1>1, <1>3, <2>1, LeastOfFinite
  <2>3. NextTriggerAfter(j, t) \in found
    BY <1>3, <2>2 DEF NextTriggerAfter
  <2> QED  BY <1>1, <2>3
<1> QED  BY <1>2, <1>3

(* A start, with or without a file, gives every job a trigger to come.     *)
LEMMA LoadedLater ==
    ASSUME SchedulerAssumption, now \in Nat, NEW f \in States \cup {NoFile, Torn}
    PROVE  Loaded(f) \in States /\ \A j \in Jobs : Loaded(f)[j].next > now
<1>1. ASSUME NEW j \in Jobs  PROVE Fresh(j) \in JobState /\ Fresh(j).next > now
  BY NextIsLater DEF Fresh, JobState
<1>2. ASSUME NEW j \in Jobs, NEW old \in JobState
      PROVE  Restored(j, old) \in JobState /\ Restored(j, old).next > now
  BY NextIsLater DEF Restored, JobState
<1>3. CASE f \in {NoFile, Torn}
  BY <1>1, <1>3 DEF Loaded, States
<1>4. CASE f \in States /\ f \notin {NoFile, Torn}
  BY <1>2, <1>4 DEF Loaded, States
<1> QED  BY <1>3, <1>4

LEMMA InitInv == SchedulerAssumption /\ Init => Inv
<1> SUFFICES ASSUME SchedulerAssumption, Init  PROVE Inv
  OBVIOUS
<1>1. jobs \in States
  BY LoadedLater DEF Init
<1>2. TypeOK
  <2>1. fired \in [Jobs -> Seq(Nat)]
    BY DEF Init
  <2>2. now \in Nat /\ triggers \in [Jobs -> Nat] /\ faults \in 0..MaxFaults
    BY DEF Init, SchedulerAssumption
  <2>3. /\ file \in States \cup {NoFile, Torn} /\ running \in BOOLEAN
        /\ pc \in [Loops -> {"off", "waiting", "locking", "ticking", "persisting"}]
        /\ at \in [Loops -> Nat] /\ todo \subseteq Jobs /\ manual \subseteq Jobs
    BY DEF Init
  <2> QED  BY <1>1, <2>1, <2>2, <2>3 DEF TypeOK
<1> QED  BY <1>2 DEF Inv, Init, SlotsFireOnce

(* The step that matters: a due job is triggered for a slot that is behind *)
(* the loop's time and therefore before the job's new next trigger.        *)
LEMMA TriggerInv ==
    ASSUME SchedulerAssumption, Inv, NEW l \in Loops, NEW j \in Jobs, TriggerDue(l, j)
    PROVE  Inv'
<1> USE DEF Inv
<1> DEFINE t == at[l]
           slot == jobs[j].next
<1>1. t \in Nat /\ t <= now /\ now \in Nat /\ jobs[j] \in JobState /\ slot \in Nat
      /\ fired[j] \in Seq(Nat)
  BY DEF TypeOK, States, JobState
<1>2. slot <= t
  BY DEF TriggerDue, Due
<1>3. NextTriggerAfter(j, t) \in Nat /\ NextTriggerAfter(j, t) > t
  BY <1>1, NextIsLater
<1>4. Advanced(j, t) \in JobState /\ Advanced(j, t).next = NextTriggerAfter(j, t)
  BY <1>1, <1>3 DEF Advanced, JobState
<1>5. jobs' = [jobs EXCEPT ![j] = Advanced(j, t)] /\ jobs' \in States
  BY <1>4 DEF TriggerDue, TypeOK, States
<1>7. CASE UNCHANGED fired
  <2>1. TypeOK'
    BY <1>5, <1>7 DEF TriggerDue, TypeOK, Fault, SchedulerAssumption
  <2>2. \A k \in Jobs : \A i \in DOMAIN fired'[k] :
            fired'[k][i] < jobs'[k].next /\ fired'[k][i] <= now
    <3> SUFFICES ASSUME NEW k \in Jobs, NEW i \in DOMAIN fired[k]
                 PROVE  fired[k][i] < jobs'[k].next /\ fired[k][i] <= now
      BY <1>7
    <3>2. fired[k][i] \in Nat
      BY DEF TypeOK
    <3>3. CASE k = j
      BY <1>1, <1>2, <1>3, <1>4, <1>5, <3>2, <3>3 DEF TypeOK, States
    <3>4. CASE k # j
      BY <1>5, <3>4 DEF TypeOK, States
    <3> QED  BY <3>3, <3>4
  <2> QED  BY <1>7, <2>1, <2>2 DEF TriggerDue, SlotsFireOnce
<1>8. CASE fired' = [fired EXCEPT ![j] = Append(@, slot)] /\ UNCHANGED faults
  <2>1. fired' \in [Jobs -> Seq(Nat)]
    BY <1>1, <1>8 DEF TypeOK
  <2>2. TypeOK'
    BY <1>5, <1>8, <2>1 DEF TriggerDue, TypeOK
  <2>3. /\ fired'[j] = Append(fired[j], slot)
        /\ \A k \in Jobs \ {j} : fired'[k] = fired[k] /\ jobs'[k] = jobs[k]
    BY <1>5, <1>8 DEF TypeOK, States
  <2>4. /\ DOMAIN fired'[j] = 1..(Len(fired[j]) + 1)
        /\ \A i \in 1..Len(fired[j]) : fired'[j][i] = fired[j][i]
        /\ fired'[j][Len(fired[j]) + 1] = slot
        /\ DOMAIN fired[j] = 1..Len(fired[j]) /\ Len(fired[j]) \in Nat
    BY <1>1, <2>3
  <2>5. jobs'[j].next = NextTriggerAfter(j, t)
    BY <1>4, <1>5 DEF TypeOK, States
  <2>6. \A i \in DOMAIN fired'[j] :
            fired'[j][i] < jobs'[j].next /\ fired'[j][i] <= now
    <3> SUFFICES ASSUME NEW i \in DOMAIN fired'[j]
                 PROVE  fired'[j][i] < jobs'[j].next /\ fired'[j][i] <= now
      OBVIOUS
    <3>1. CASE i = Len(fired[j]) + 1
      BY <1>1, <1>2, <1>3, <2>4, <2>5, <3>1
    <3>2. CASE i \in 1..Len(fired[j])
      <4>2. fired[j][i] \in Nat
        BY <1>1, <3>2
      <4>3. fired[j][i] < jobs[j].next /\ fired[j][i] <= now
        BY <2>4, <3>2
      <4>4. fired'[j][i] = fired[j][i]
        BY <2>4, <3>2
      <4> QED  BY <1>1, <1>2, <1>3, <2>5, <4>2, <4>3, <4>4
    <3> QED  BY <2>4, <3>1, <3>2
  <2>7. \A i, k \in DOMAIN fired'[j] : i < k => fired'[j][i] < fired'[j][k]
    <3> SUFFICES ASSUME NEW i \in DOMAIN fired'[j], NEW k \in DOMAIN fired'[j], i < k
                 PROVE  fired'[j][i] < fired'[j][k]
      OBVIOUS
    <3>1. i \in 1..Len(fired[j])
      BY <2>4
    <3>2. CASE k = Len(fired[j]) + 1
      BY <2>4, <3>1, <3>2
    <3>3. CASE k \in 1..Len(fired[j])
      BY <2>4, <3>1, <3>3 DEF SlotsFireOnce
    <3> QED  BY <2>4, <3>2, <3>3
  <2>8. now' = now /\ at' = at
    BY DEF TriggerDue
  <2>9. SlotsFireOnce'
    BY <2>3, <2>7 DEF SlotsFireOnce
  <2>10. \A k \in Jobs : \A i \in DOMAIN fired'[k] :
            fired'[k][i] < jobs'[k].next /\ fired'[k][i] <= now'
    BY <2>3, <2>6, <2>8
  <2> QED  BY <2>2, <2>8, <2>9, <2>10
<1> QED  BY <1>7, <1>8 DEF TriggerDue

(* A restart may forget what was triggered, but not that it is past.       *)
LEMMA RestartInv == ASSUME SchedulerAssumption, Inv, Restart  PROVE Inv'
<1> USE DEF Inv
<1>1. file' \in States \cup {NoFile, Torn} /\ now' = now /\ now \in Nat
  BY DEF Restart, TypeOK
<1>2. jobs' = [j \in Jobs |-> Loaded(file')[j]] /\ jobs' \in States
      /\ \A j \in Jobs : jobs'[j].next > now
  BY <1>1, LoadedLater DEF Restart, States, Loaded
<1>3. TypeOK'
  <2>1. faults' \in 0..MaxFaults
    BY DEF Restart, Fault, TypeOK, SchedulerAssumption
  <2>2. running' \in BOOLEAN
    BY DEF Restart
  <2>3. /\ pc' \in [Loops -> {"off", "waiting", "locking", "ticking", "persisting"}]
        /\ at' \in [Loops -> Nat] /\ todo' \subseteq Jobs /\ manual' \subseteq Jobs
    BY DEF Restart
  <2>4. now' \in Nat /\ fired' \in [Jobs -> Seq(Nat)] /\ triggers' \in [Jobs -> Nat]
    BY DEF Restart, TypeOK
  <2> QED  BY <1>1, <1>2, <2>1, <2>2, <2>3, <2>4 DEF TypeOK
<1>4. \A j \in Jobs : \A i \in DOMAIN fired'[j] :
          fired'[j][i] < jobs'[j].next /\ fired'[j][i] <= now'
  <2> SUFFICES ASSUME NEW j \in Jobs, NEW i \in DOMAIN fired[j]
               PROVE  fired[j][i] < jobs'[j].next /\ fired[j][i] <= now
    BY <1>1 DEF Restart
  <2>2. fired[j][i] \in Nat /\ jobs'[j].next \in Nat
    BY <1>2 DEF States, JobState, TypeOK
  <2> QED  BY <1>1, <1>2, <2>2
<1>5. \A l \in Loops : at'[l] <= now'
  BY <1>1 DEF Restart
<1> QED  BY <1>3, <1>4, <1>5 DEF Restart, SlotsFireOnce

(* The other steps leave the triggers alone and no job's next trigger or   *)
(* clock goes back.                                                        *)
LEMMA QuietInv ==
    ASSUME Inv, TypeOK', UNCHANGED fired, now' \in {now, now + 1},
           \A j \in Jobs : jobs'[j].next = jobs[j].next,
           \A l \in Loops : at'[l] \in {at[l], now}
    PROVE  Inv'
<1> USE DEF Inv
<1>1. now \in Nat /\ at \in [Loops -> Nat] /\ now' >= now
  BY DEF TypeOK
<1>2. \A j \in Jobs : \A i \in DOMAIN fired'[j] :
          fired'[j][i] < jobs'[j].next /\ fired'[j][i] <= now'
  <2> SUFFICES ASSUME NEW j \in Jobs, NEW i \in DOMAIN fired[j]
               PROVE  fired[j][i] < jobs[j].next /\ fired[j][i] <= now'
    OBVIOUS
  <2>2. fired[j][i] \in Nat
    BY DEF TypeOK
  <2> QED  BY <1>1, <2>2
<1>3. \A l \in Loops : at'[l] <= now'
  BY <1>1
<1> QED  BY <1>2, <1>3 DEF SlotsFireOnce

LEMMA NextInv == SchedulerAssumption /\ Inv /\ [Next]_vars => Inv'
<1> SUFFICES ASSUME SchedulerAssumption, Inv, [Next]_vars  PROVE Inv'
  OBVIOUS
<1> USE DEF Goto, Fault
<1>0. TypeOK
  BY DEF Inv
<1>1. ASSUME NEW l \in Loops, Start(l)  PROVE Inv'
  <2>1. TypeOK'
    <3>1. pc' \in [Loops -> {"off", "waiting", "locking", "ticking", "persisting"}]
      BY <1>0, <1>1 DEF Start, TypeOK
    <3>2. faults' \in 0..MaxFaults /\ running' \in BOOLEAN
      BY <1>0, <1>1 DEF Start, TypeOK, SchedulerAssumption
    <3> QED  BY <1>0, <1>1, <3>1, <3>2 DEF Start, TypeOK
  <2> QED  BY <1>1, <2>1, QuietInv DEF Start
<1>2. ASSUME NEW l \in Loops, Wake(l)  PROVE Inv'
  <2>1. TypeOK'
    <3>1. /\ pc' \in [Loops -> {"off", "waiting", "locking", "ticking", "persisting"}]
          /\ at' \in [Loops -> Nat]
      BY <1>0, <1>2 DEF Wake, TypeOK
    <3> QED  BY <1>0, <1>2, <3>1 DEF Wake, TypeOK
  <2>2. \A k \in Loops : at'[k] \in {at[k], now}
    BY <1>0, <1>2 DEF Wake, TypeOK
  <2> QED  BY <1>2, <2>1, <2>2, QuietInv DEF Wake
<1>3. ASSUME NEW l \in Loops, Lock(l)  PROVE Inv'
  <2>1. TypeOK'
    BY <1>0, <1>3 DEF Lock, TypeOK
  <2> QED  BY <1>3, <2>1, QuietInv DEF Lock
<1>4. ASSUME NEW l \in Loops, EndJobs(l)  PROVE Inv'
  <2>1. TypeOK'
    BY <1>0, <1>4 DEF EndJobs, TypeOK
  <2> QED  BY <1>4, <2>1, QuietInv DEF EndJobs
<1>5. ASSUME NEW l \in Loops, Persist(l)  PROVE Inv'
  <2>1. TypeOK'
    BY <1>0, <1>5 DEF Persist, TypeOK
  <2> QED  BY <1>5, <2>1, QuietInv DEF Persist
<1>6. ASSUME NEW l \in Loops, NEW j \in Jobs, SkipJob(l, j)  PROVE Inv'
  <2>1. TypeOK'
    BY <1>0, <1>6 DEF SkipJob, TypeOK
  <2> QED  BY <1>6, <2>1, QuietInv DEF SkipJob
<1>7. ASSUME NEW l \in Loops, NEW j \in Jobs, TriggerDue(l, j)  PROVE Inv'
  BY <1>7, TriggerInv
<1>8. ASSUME NEW j \in Jobs, NEW enabled \in BOOLEAN, SetJobEnabled(j, enabled)  PROVE Inv'
  <2>1. jobs' \in States /\ \A k \in Jobs : jobs'[k].next = jobs[k].next
    BY <1>0, <1>8 DEF SetJobEnabled, TypeOK, States, JobState
  <2>2. TypeOK'
    BY <1>0, <1>8, <2>1 DEF SetJobEnabled, TypeOK
  <2> QED  BY <1>8, <2>1, <2>2, QuietInv DEF SetJobEnabled
<1>9. ASSUME NEW j \in Jobs, TriggerJob(j)  PROVE Inv'
  <2>1. jobs' \in States /\ \A k \in Jobs : jobs'[k].next = jobs[k].next
    <3>1. jobs[j] \in JobState /\ now \in Nat
      BY <1>0 DEF TypeOK, States
    <3> DEFINE s == [enabled |-> jobs[j].enabled, last |-> now,
                    next |-> jobs[j].next, count |-> jobs[j].count + 1]
    <3>2. s \in JobState /\ s.next = jobs[j].next
      BY <3>1 DEF JobState
    <3>3. jobs' = [jobs EXCEPT ![j] = s]
      BY <1>9 DEF TriggerJob
    <3> HIDE DEF s
    <3> QED  BY <1>0, <3>2, <3>3 DEF TypeOK, States
  <2>2. triggers' \in [Jobs -> Nat]
    BY <1>0, <1>9 DEF TriggerJob, TypeOK, SchedulerAssumption
  <2>3. TypeOK'
    BY <1>0, <1>9, <2>1, <2>2 DEF TriggerJob, TypeOK
  <2> QED  BY <1>9, <2>1, <2>3, QuietInv DEF TriggerJob
<1>10. ASSUME NEW j \in Jobs, PublishManual(j)  PROVE Inv'
  <2>1. TypeOK'
    BY <1>0, <1>10 DEF PublishManual, TypeOK
  <2> QED  BY <1>10, <2>1, QuietInv DEF PublishManual
<1>11. CASE SaveState \/ Stop
  <2>1. TypeOK'
    BY <1>0, <1>11 DEF SaveState, Stop, TypeOK
  <2> QED  BY <1>11, <2>1, QuietInv DEF SaveState, Stop
<1>12. CASE Clock
  <2>1. TypeOK'
    BY <1>0, <1>12 DEF Clock, TypeOK
  <2> QED  BY <1>12, <2>1, QuietInv DEF Clock
<1>13. CASE Restart
  BY <1>13, RestartInv
<1>14. CASE UNCHANGED vars
  <2>1. TypeOK'
    BY <1>0, <1>14 DEF vars, TypeOK
  <2> QED  BY <1>14, <2>1, QuietInv DEF vars
<1> QED
  BY <1>1, <1>2, <1>3, <1>4, <1>5, <1>6, <1>7, <1>8, <1>9, <1>10, <1>11, <1>12, <1>13, <1>14
     DEF Next, Loop, Interface

LEMMA SpecInv == ASSUME SchedulerAssumption PROVE Spec => []Inv
  BY InitInv, NextInv, PTL DEF Spec

(* The scheduler's state and file keep their types; in particular every    *)
(* job always has a next trigger, whatever its schedule.                   *)
THEOREM TypeCorrect == ASSUME SchedulerAssumption PROVE Spec => []TypeOK
<1>1. Inv => TypeOK
  BY DEF Inv
<1> QED  BY <1>1, SpecInv, PTL

(* No slot of a schedule is triggered twice: not by a loop that died       *)
(* before it wrote the file, not by a file that is out of date, not by two *)
(* loops that took the time before they took the lock.                     *)
THEOREM SlotsAlwaysFireOnce == ASSUME SchedulerAssumption PROVE Spec => []SlotsFireOnce
<1>1. Inv => SlotsFireOnce
  BY DEF Inv
<1> QED  BY <1>1, SpecInv, PTL

-----------------------------------------------------------------------------
(* Counts.  The file holds what memory held once, and what was triggered   *)
(* since only grows.                                                       *)
FileCounts ==
    file \notin {NoFile, Torn} =>
        \A j \in Jobs : file[j].count <= Len(fired[j]) + triggers[j] + faults

CountInv == CountsAreExact /\ FileCounts

LEMMA Grows ==
    ASSUME NEW c \in Nat, NEW l \in Nat, NEW t \in Nat, NEW f \in Nat,
           NEW k \in Nat, NEW u \in Nat, NEW g \in Nat,
           c <= l + t + f, l <= k, t <= u, f <= g
    PROVE  c <= k + u + g
OBVIOUS

(* One more of either is one more of both.                                 *)
LEMMA OneMoreOfTwo ==
    ASSUME NEW a \in Nat, NEW b \in Nat
    PROVE  (a + b) + 1 = (a + 1) + b /\ (a + b) + 1 = a + (b + 1)
OBVIOUS

LEMMA OneMore ==
    ASSUME NEW c \in Nat, NEW l \in Nat, NEW t \in Nat, NEW f \in Nat, c <= l + t + f
    PROVE  c + 1 <= (l + 1) + t + f /\ c + 1 <= l + (t + 1) + f /\ c + 1 <= l + t + (f + 1)
OBVIOUS

(* The numbers above are natural.                                          *)
LEMMA CountTypes ==
    ASSUME TypeOK, SchedulerAssumption
    PROVE  /\ faults \in Nat
           /\ \A j \in Jobs : jobs[j].count \in Nat /\ Len(fired[j]) \in Nat /\ triggers[j] \in Nat
           /\ file \notin {NoFile, Torn} => \A j \in Jobs : file[j].count \in Nat
BY DEF TypeOK, States, JobState, SchedulerAssumption

(* The history only grows, so the file, if it is not written or torn, stays *)
(* below it.                                                               *)
LEMMA FileStaysBelow ==
    ASSUME SchedulerAssumption, TypeOK, TypeOK', FileCounts, file' \in {file, NoFile, Torn},
           faults <= faults',
           \A j \in Jobs : Len(fired[j]) <= Len(fired'[j]) /\ triggers[j] <= triggers'[j]
    PROVE  FileCounts'
<1> SUFFICES ASSUME file' \notin {NoFile, Torn}, NEW j \in Jobs
             PROVE  file'[j].count <= Len(fired'[j]) + triggers'[j] + faults'
  BY DEF FileCounts
<1>1. file' = file
  OBVIOUS
<1>2. faults' \in Nat /\ Len(fired'[j]) \in Nat /\ triggers'[j] \in Nat
  BY DEF TypeOK, SchedulerAssumption
<1>3. faults \in Nat /\ Len(fired[j]) \in Nat /\ triggers[j] \in Nat /\ file[j].count \in Nat
  BY <1>1, CountTypes
<1>4. file[j].count <= Len(fired[j]) + triggers[j] + faults
  BY <1>1 DEF FileCounts
<1>5. file[j].count <= Len(fired'[j]) + triggers'[j] + faults'
  BY <1>2, <1>3, <1>4, Grows
<1> QED  BY <1>1, <1>5

(* A step that triggers nothing, and writes to the file what is in memory. *)
LEMMA QuietCounts ==
    ASSUME SchedulerAssumption, TypeOK, TypeOK', CountInv, UNCHANGED <<fired, triggers>>,
           faults <= faults', \A j \in Jobs : jobs'[j].count = jobs[j].count, file' \in {file, jobs}
    PROVE  CountInv'
<1>1. ASSUME NEW j \in Jobs
      PROVE  /\ jobs[j].count <= Len(fired[j]) + triggers[j] + faults'
             /\ faults' = 0 => jobs[j].count = Len(fired[j]) + triggers[j]
  <2>1. faults \in Nat /\ faults' \in Nat
    BY DEF TypeOK, SchedulerAssumption
  <2>2. Len(fired[j]) \in Nat /\ triggers[j] \in Nat /\ jobs[j].count \in Nat
    BY CountTypes
  <2>3. /\ jobs[j].count <= Len(fired[j]) + triggers[j] + faults
        /\ faults = 0 => jobs[j].count = Len(fired[j]) + triggers[j]
    BY DEF CountInv, CountsAreExact
  <2>4. Len(fired[j]) <= Len(fired[j]) /\ triggers[j] <= triggers[j]
    BY <2>2
  <2>5. jobs[j].count <= Len(fired[j]) + triggers[j] + faults'
    BY <2>1, <2>2, <2>3, <2>4, Grows
  <2>6. faults' = 0 => faults = 0
    BY <2>1
  <2> QED  BY <2>3, <2>5, <2>6
<1>2. CountsAreExact'
  BY <1>1 DEF CountsAreExact
<1>3. CASE file' = file
  <2>1. \A j \in Jobs : Len(fired[j]) <= Len(fired'[j]) /\ triggers[j] <= triggers'[j]
    BY CountTypes
  <2> QED  BY <1>2, <1>3, <2>1, FileStaysBelow DEF CountInv
<1>4. CASE file' = jobs
  BY <1>1, <1>2, <1>4 DEF CountInv, FileCounts
<1> QED  BY <1>3, <1>4

(* A job's state moves on by one, and with it one part of its bound.       *)
LEMMA OneCounts ==
    ASSUME SchedulerAssumption, TypeOK, TypeOK', CountInv, NEW j \in Jobs, UNCHANGED file,
           jobs'[j].count = jobs[j].count + 1,
           \A k \in Jobs \ {j} : jobs'[k] = jobs[k] /\ fired'[k] = fired[k]
                                                    /\ triggers'[k] = triggers[k],
           \/ /\ Len(fired'[j]) = Len(fired[j]) + 1
              /\ triggers'[j] = triggers[j] /\ faults' = faults
           \/ /\ triggers'[j] = triggers[j] + 1
              /\ fired'[j] = fired[j] /\ faults' = faults
           \/ faults' = faults + 1 /\ fired'[j] = fired[j] /\ triggers'[j] = triggers[j]
    PROVE  CountInv'
<1>1. faults \in Nat /\ faults' \in Nat /\ faults <= faults' /\ (faults' = 0 => faults' = faults)
  BY DEF TypeOK, SchedulerAssumption
<1>2. ASSUME NEW k \in Jobs
      PROVE  /\ Len(fired[k]) \in Nat /\ triggers[k] \in Nat /\ jobs[k].count \in Nat
             /\ Len(fired[k]) <= Len(fired'[k]) /\ triggers[k] <= triggers'[k]
             /\ jobs[k].count <= Len(fired[k]) + triggers[k] + faults
             /\ faults = 0 => jobs[k].count = Len(fired[k]) + triggers[k]
  <2>1. Len(fired[k]) \in Nat /\ triggers[k] \in Nat /\ jobs[k].count \in Nat
    BY CountTypes
  <2>2. CASE k = j
    BY <2>1, <2>2 DEF CountInv, CountsAreExact
  <2>3. CASE k # j
    BY <2>1, <2>3 DEF CountInv, CountsAreExact
  <2> QED  BY <2>1, <2>2, <2>3
<1>3. FileCounts'
  BY <1>1, <1>2, FileStaysBelow DEF CountInv
<1>4. ASSUME NEW k \in Jobs
      PROVE  /\ jobs'[k].count <= Len(fired'[k]) + triggers'[k] + faults'
             /\ faults' = 0 => jobs'[k].count = Len(fired'[k]) + triggers'[k]
  <2>1. CASE k = j
    <3>1. /\ jobs[j].count + 1 <= (Len(fired[j]) + 1) + triggers[j] + faults
          /\ jobs[j].count + 1 <= Len(fired[j]) + (triggers[j] + 1) + faults
          /\ jobs[j].count + 1 <= Len(fired[j]) + triggers[j] + (faults + 1)
      BY <1>1, <1>2, OneMore
    <3>2. jobs'[j].count <= Len(fired'[j]) + triggers'[j] + faults'
      BY <3>1
    <3>3. ASSUME faults' = 0  PROVE jobs'[j].count = Len(fired'[j]) + triggers'[j]
      <4>1. faults' # faults + 1
        BY <1>1, <3>3
      <4>2. jobs'[j].count = (Len(fired[j]) + triggers[j]) + 1
        BY <1>1, <1>2, <3>3
      <4>3. /\ (Len(fired[j]) + triggers[j]) + 1 = (Len(fired[j]) + 1) + triggers[j]
            /\ (Len(fired[j]) + triggers[j]) + 1 = Len(fired[j]) + (triggers[j] + 1)
        BY <1>2, OneMoreOfTwo
      <4> QED  BY <4>1, <4>2, <4>3
    <3> QED  BY <2>1, <3>2, <3>3
  <2>2. CASE k # j
    <3>1. jobs'[k] = jobs[k] /\ fired'[k] = fired[k] /\ triggers'[k] = triggers[k]
      BY <2>2
    <3>2. jobs[k].count <= Len(fired[k]) + triggers[k] + faults'
      BY <1>1, <1>2, <3>1, Grows
    <3> QED  BY <1>1, <1>2, <3>1, <3>2
  <2> QED  BY <2>1, <2>2
<1> QED  BY <1>3, <1>4 DEF CountInv, CountsAreExact

LEMMA RestartCounts ==
    ASSUME SchedulerAssumption, TypeOK, TypeOK', CountInv, Restart
    PROVE  CountInv'
<1>1. /\ faults \in Nat /\ faults' = faults + 1
      /\ fired' = fired /\ triggers' = triggers
      /\ file' = file \/ file' = Torn
  BY DEF Restart, Fault, TypeOK, SchedulerAssumption
<1>2. \A j \in Jobs : /\ Len(fired[j]) \in Nat /\ triggers[j] \in Nat
                     /\ Len(fired[j]) <= Len(fired'[j]) /\ triggers[j] <= triggers'[j]
  BY <1>1, CountTypes
<1>3. FileCounts'
  BY <1>1, <1>2, FileStaysBelow DEF CountInv
<1>4. \A j \in Jobs : jobs'[j].count = IF file' \in {NoFile, Torn} THEN 0 ELSE file'[j].count
  BY DEF Restart, Loaded, Fresh, Restored
<1>5. ASSUME NEW j \in Jobs
      PROVE  jobs'[j].count <= Len(fired'[j]) + triggers'[j] + faults'
  <2>1. CASE file' \in {NoFile, Torn}
    <3>1. 0 <= Len(fired[j]) + triggers[j] + (faults + 1)
      BY <1>1, <1>2
    <3> QED  BY <1>1, <1>4, <2>1, <3>1
  <2>2. CASE file' \notin {NoFile, Torn}
    BY <1>3, <1>4, <2>2 DEF FileCounts
  <2> QED  BY <2>1, <2>2
<1>6. faults' # 0
  BY <1>1
<1> QED  BY <1>3, <1>5, <1>6 DEF CountInv, CountsAreExact

LEMMA NextCounts == SchedulerAssumption /\ Inv /\ Inv' /\ CountInv /\ [Next]_vars => CountInv'
<1> SUFFICES ASSUME SchedulerAssumption, Inv, Inv', CountInv, [Next]_vars  PROVE CountInv'
  OBVIOUS
<1>0. TypeOK /\ TypeOK' /\ faults \in Nat /\ faults <= faults
  BY DEF Inv, TypeOK, SchedulerAssumption
<1>1. faults <= faults + 1
  BY <1>0
<1>2. ASSUME NEW l \in Loops, Start(l) \/ Wake(l) \/ Lock(l) \/ EndJobs(l) \/ Persist(l)
      PROVE  CountInv'
  <2>1. UNCHANGED <<jobs, fired, triggers>> /\ file' \in {file, jobs}
    BY <1>2 DEF Start, Wake, Lock, EndJobs, Persist
  <2>2. faults <= faults'
    BY <1>0, <1>1, <1>2 DEF Start, Wake, Lock, EndJobs, Persist, Fault
  <2> QED  BY <1>0, <2>1, <2>2, QuietCounts
<1>3. ASSUME NEW l \in Loops, NEW j \in Jobs, SkipJob(l, j)  PROVE CountInv'
  BY <1>0, <1>3, QuietCounts DEF SkipJob
<1>4. ASSUME NEW l \in Loops, NEW j \in Jobs, TriggerDue(l, j)  PROVE CountInv'
  <2>1. /\ jobs'[j].count = jobs[j].count + 1
        /\ \A k \in Jobs \ {j} : jobs'[k] = jobs[k]
        /\ file' = file /\ triggers' = triggers
    BY <1>0, <1>4 DEF TriggerDue, Advanced, TypeOK, States
  <2>2. CASE UNCHANGED fired /\ Fault
    BY <1>0, <2>1, <2>2, OneCounts DEF Fault
  <2>3. CASE fired' = [fired EXCEPT ![j] = Append(@, jobs[j].next)] /\ UNCHANGED faults
    <3>1. jobs[j].next \in Nat /\ fired[j] \in Seq(Nat)
      BY <1>0 DEF TypeOK, States, JobState
    <3>2. /\ Len(fired'[j]) = Len(fired[j]) + 1
          /\ \A k \in Jobs \ {j} : fired'[k] = fired[k]
      BY <1>0, <2>3, <3>1 DEF TypeOK
    <3> QED  BY <1>0, <2>1, <2>3, <3>2, OneCounts
  <2> QED  BY <1>4, <2>2, <2>3 DEF TriggerDue
<1>5. ASSUME NEW j \in Jobs, NEW enabled \in BOOLEAN, SetJobEnabled(j, enabled)  PROVE CountInv'
  <2>1. \A k \in Jobs : jobs'[k].count = jobs[k].count
    BY <1>0, <1>5 DEF SetJobEnabled, TypeOK, States, JobState
  <2> QED  BY <1>0, <1>5, <2>1, QuietCounts DEF SetJobEnabled
<1>6. ASSUME NEW j \in Jobs, TriggerJob(j)  PROVE CountInv'
  <2>1. /\ jobs'[j].count = jobs[j].count + 1 /\ triggers'[j] = triggers[j] + 1
        /\ \A k \in Jobs \ {j} : jobs'[k] = jobs[k] /\ triggers'[k] = triggers[k]
        /\ UNCHANGED <<file, fired, faults>>
    BY <1>0, <1>6 DEF TriggerJob, TypeOK, States
  <2> QED  BY <1>0, <2>1, OneCounts
<1>7. ASSUME NEW j \in Jobs, PublishManual(j)  PROVE CountInv'
  BY <1>0, <1>7, QuietCounts DEF PublishManual
<1>8. CASE SaveState \/ Stop \/ Clock \/ UNCHANGED vars
  <2>1. UNCHANGED <<jobs, fired, triggers, faults>> /\ file' \in {file, jobs}
    BY <1>8 DEF SaveState, Stop, Clock, vars
  <2> QED  BY <1>0, <2>1, QuietCounts
<1>9. CASE Restart
  BY <1>0, <1>9, RestartCounts
<1> QED
  BY <1>2, <1>3, <1>4, <1>5, <1>6, <1>7, <1>8, <1>9 DEF Next, Loop, Interface

(* A job's count never exceeds its triggers and the faults and, until      *)
(* something fails or the process is restarted, equals its triggers        *)
(* (service.rs tick, trigger_job, new).                                    *)
THEOREM CountsAlwaysExact == ASSUME SchedulerAssumption PROVE Spec => []CountsAreExact
<1>1. Init => CountInv
  BY DEF Init, Loaded, Fresh, CountInv, CountsAreExact, FileCounts
<1>2. CountInv => CountsAreExact
  BY DEF CountInv
<1> QED  BY <1>1, <1>2, NextCounts, SpecInv, PTL DEF Spec
=============================================================================
