---------------------------- MODULE BusReadersProofs ----------------------------
(***************************************************************************)
(* Theorems of BusReaders, for any number of clients, deleters and faults  *)
(* and any capacity of the hub's channel.                                  *)
(***************************************************************************)
EXTENDS BusReaders, SequenceTheorems, FiniteSetTheorems, TLAPS

PCs == {"waiting", "taking", "inserting", "persisting", "publishing"}

(* The part of ServicesTypeOK the other invariants rest on, without the    *)
(* files.                                                                  *)
Typed ==
    /\ log \in Seq(Envelope)
    /\ cursor \in [Services -> Nat] /\ \A s \in Services : cursor[s] <= Len(log)
    /\ todo \in [Services -> Seq(Envelope)]
    /\ handled \in [Services -> Seq(Envelope)]
    /\ pc \in [Services -> PCs]
    /\ current \in [Services -> Record]
    /\ made \in Nat

(* A service that waits has nothing left of the batch before.              *)
OrderInv ==
    /\ Typed
    /\ \A s \in Services : pc[s] = "waiting" => todo[s] = <<>>
    /\ InOrderOnce

(* What was read stays read while the log grows.                           *)
LEMMA PrefixOfLonger ==
    ASSUME NEW S, NEW l \in Seq(S), NEW e \in S, NEW n \in Nat, n <= Len(l)
    PROVE  SubSeq(Append(l, e), 1, n) = SubSeq(l, 1, n)
OBVIOUS

(* A batch read on top of what was read before.                            *)
LEMMA ReadOn ==
    ASSUME NEW S, NEW l \in Seq(S), NEW n \in Nat, n <= Len(l)
    PROVE  SubSeq(l, 1, n) \o SubSeq(l, n + 1, Len(l)) = SubSeq(l, 1, Len(l))
<1>1. 1 \in 1..Len(l) + 1 /\ n \in 1 - 1..Len(l) /\ Len(l) \in n..Len(l)
  OBVIOUS
<1> QED
  BY <1>1, ConcatAdjacentSubSeq

(* Going on to the next event of the batch leaves the whole as it was.     *)
LEMMA MoveHead ==
    ASSUME NEW S, NEW h \in Seq(S), NEW t \in Seq(S), t # <<>>
    PROVE  /\ Head(t) \in S /\ Append(h, Head(t)) \in Seq(S) /\ Tail(t) \in Seq(S)
           /\ Append(h, Head(t)) \o Tail(t) = h \o t
<1>1. /\ Head(t) \in S /\ Tail(t) \in Seq(S) /\ Len(Tail(t)) = Len(t) - 1 /\ Len(t) \in Nat \ {0}
      /\ \A i \in 1..Len(Tail(t)) : Tail(t)[i] = t[i + 1]
  BY HeadTailProperties
<1>2. /\ Append(h, Head(t)) \in Seq(S) /\ Len(Append(h, Head(t))) = Len(h) + 1
      /\ \A i \in 1..(Len(h) + 1) : Append(h, Head(t))[i] = IF i <= Len(h) THEN h[i] ELSE Head(t)
  BY <1>1
<1> DEFINE a == Append(h, Head(t))
           u == Tail(t)
<1>3. Head(t) = t[1]
  OBVIOUS
<1>4. /\ h \o t \in Seq(S) /\ Len(h \o t) = Len(h) + Len(t)
      /\ \A i \in 1..(Len(h) + Len(t)) : (h \o t)[i] = IF i <= Len(h) THEN h[i] ELSE t[i - Len(h)]
  BY ConcatProperties
<1> HIDE DEF a, u
<1>5. a \in Seq(S) /\ u \in Seq(S) /\ Len(a) = Len(h) + 1 /\ Len(u) = Len(t) - 1 /\ Len(h) \in Nat
  BY <1>1, <1>2 DEF a, u
<1>6. /\ a \o u \in Seq(S) /\ Len(a \o u) = Len(a) + Len(u)
      /\ \A i \in 1..(Len(a) + Len(u)) : (a \o u)[i] = IF i <= Len(a) THEN a[i] ELSE u[i - Len(a)]
  BY <1>5, ConcatProperties
<1>7. ASSUME NEW i \in 1..(Len(h) + Len(t))  PROVE (a \o u)[i] = (h \o t)[i]
  <2>1. CASE i <= Len(h)
    BY <1>2, <1>4, <1>5, <1>6, <1>7, <2>1, <1>1 DEF a
  <2>2. CASE i = Len(h) + 1
    BY <1>1, <1>2, <1>3, <1>4, <1>5, <1>6, <1>7, <2>2 DEF a
  <2>3. CASE i > Len(h) + 1
    <3>1. i - Len(a) \in 1..Len(u) /\ i - Len(a) + 1 = i - Len(h)
      BY <1>1, <1>5, <1>7, <2>3
    <3>2. u[i - Len(a)] = t[i - Len(h)]
      BY <1>1, <3>1 DEF u
    <3> QED
      BY <1>1, <1>4, <1>5, <1>6, <1>7, <2>3, <3>2
  <2> QED
    BY <1>5, <2>1, <2>2, <2>3
<1>8. a \o u = h \o t
  <2>1. Len(a \o u) = Len(h \o t) /\ Len(h \o t) = Len(h) + Len(t)
    BY <1>1, <1>4, <1>5, <1>6
  <2> QED
    BY <1>4, <1>6, <1>7, <2>1, SeqEqual
<1> QED
  BY <1>1, <1>2, <1>8 DEF a, u

-----------------------------------------------------------------------------
(* The steps that publish: the log grows by one envelope, and nobody's     *)
(* reading is disturbed.                                                   *)
LEMMA GrowKeepsOrder ==
    ASSUME Typed, InOrderOnce, NEW e \in Envelope, log' = Append(log, e),
           UNCHANGED <<cursor, todo, handled>>
    PROVE  /\ log' \in Seq(Envelope)
           /\ \A s \in Services : cursor'[s] <= Len(log')
           /\ InOrderOnce'
<1>1. log' \in Seq(Envelope) /\ Len(log') = Len(log) + 1
  BY AppendProperties DEF Typed
<1>2. ASSUME NEW s \in Services
      PROVE  cursor'[s] <= Len(log') /\ handled'[s] \o todo'[s] = SubSeq(log', 1, cursor'[s])
  <2>1. cursor[s] \in Nat /\ cursor[s] <= Len(log)
    BY DEF Typed
  <2>2. SubSeq(log', 1, cursor[s]) = SubSeq(log, 1, cursor[s])
    BY <2>1, PrefixOfLonger DEF Typed
  <2> QED
    BY <1>1, <2>1, <2>2 DEF InOrderOnce, Typed
<1> QED
  BY <1>1, <1>2 DEF InOrderOnce

LEMMA TriggerOrder == ASSUME OrderInv, Trigger PROVE OrderInv'
<1>1. [type |-> "generate", record |-> NoRecord] \in Envelope
  BY DEF Envelope, NoRecord, Record
<1>2. /\ log' = Append(log, [type |-> "generate", record |-> NoRecord])
      /\ UNCHANGED <<cursor, todo, handled, pc, current, made>>
  BY DEF Trigger, Publish, svars
<1> QED
  BY <1>1, <1>2, GrowKeepsOrder DEF OrderInv, Typed

LEMMA AnnounceOrder == ASSUME OrderInv, NEW s \in Services, Announce(s) PROVE OrderInv'
<1> DEFINE e == [type |-> Announcement(s), record |-> current[s]]
<1>1. e \in Envelope
  BY DEF Envelope, Announcement, OrderInv, Typed
<1>2. log' = Append(log, e) /\ UNCHANGED <<cursor, todo, handled, current, made>>
  BY DEF Announce, Publish
<1> HIDE DEF e
<1>3. pc' = [pc EXCEPT ![s] = "taking"] /\ pc' \in [Services -> PCs]
  BY DEF Announce, Goto, OrderInv, Typed, PCs
<1>4. \A x \in Services : pc'[x] = "waiting" => todo'[x] = <<>>
  BY <1>2, <1>3 DEF OrderInv, Typed
<1> QED
  BY <1>1, <1>2, <1>3, <1>4, GrowKeepsOrder DEF OrderInv, Typed

(* A tick takes all that is new.                                           *)
LEMMA PollOrder == ASSUME OrderInv, NEW s \in Services, Poll(s) PROVE OrderInv'
<1>1. /\ pc[s] = "waiting" /\ todo' = [todo EXCEPT ![s] = NewSince(cursor[s])]
      /\ cursor' = [cursor EXCEPT ![s] = Len(log)] /\ pc' = [pc EXCEPT ![s] = "taking"]
      /\ UNCHANGED <<log, handled, current, made>>
  BY DEF Poll, Goto
<1>2. Len(log) \in Nat /\ NewSince(cursor[s]) \in Seq(Envelope)
  BY DEF OrderInv, Typed, NewSince
<1>3. Typed'
  BY <1>1, <1>2 DEF OrderInv, Typed, PCs
<1>4. ASSUME NEW x \in Services  PROVE handled'[x] \o todo'[x] = SubSeq(log', 1, cursor'[x])
  <2>1. CASE x = s
    <3>1. handled[s] = SubSeq(log, 1, cursor[s])
      <4>1. handled[s] \in Seq(Envelope) /\ todo[s] = <<>>
        BY <1>1 DEF OrderInv, Typed
      <4> QED
        BY <4>1, ConcatEmptySeq DEF OrderInv, InOrderOnce
    <3>2. cursor[s] \in Nat /\ cursor[s] <= Len(log) /\ log \in Seq(Envelope)
      BY DEF OrderInv, Typed
    <3>3. SubSeq(log, 1, cursor[s]) \o NewSince(cursor[s]) = SubSeq(log, 1, Len(log))
      BY <3>2, ReadOn DEF NewSince
    <3>4. handled'[s] = handled[s] /\ todo'[s] = NewSince(cursor[s]) /\ cursor'[s] = Len(log)
      BY <1>1 DEF OrderInv, Typed
    <3> QED
      BY <1>1, <2>1, <3>1, <3>3, <3>4
  <2>2. CASE x # s
    BY <1>1, <2>2 DEF OrderInv, Typed, InOrderOnce
  <2> QED
    BY <2>1, <2>2
<1>5. \A x \in Services : pc'[x] = "waiting" => todo'[x] = <<>>
  BY <1>1 DEF OrderInv, Typed
<1> QED
  BY <1>3, <1>4, <1>5 DEF OrderInv, InOrderOnce

(* The next event goes from the batch to those handled.                    *)
LEMMA TakeOrder == ASSUME OrderInv, NEW s \in Services, Take(s) PROVE OrderInv'
<1>1. /\ pc[s] = "taking" /\ todo[s] # <<>> /\ todo' = [todo EXCEPT ![s] = Tail(@)]
      /\ handled' = [handled EXCEPT ![s] = Append(@, Head(todo[s]))]
      /\ UNCHANGED <<log, cursor>>
  BY DEF Take
<1>2. handled[s] \in Seq(Envelope) /\ todo[s] \in Seq(Envelope)
  BY DEF OrderInv, Typed
<1>3. /\ Head(todo[s]) \in Envelope /\ Append(handled[s], Head(todo[s])) \in Seq(Envelope)
      /\ Tail(todo[s]) \in Seq(Envelope)
      /\ Append(handled[s], Head(todo[s])) \o Tail(todo[s]) = handled[s] \o todo[s]
  BY <1>1, <1>2, MoveHead
<1>4. /\ pc' \in [Services -> PCs] /\ current' \in [Services -> Record] /\ made' \in Nat
      /\ \A x \in Services : pc'[x] \in {pc[x], "inserting"} /\ (x # s => pc'[x] = pc[x])
  <2>1. pc \in [Services -> PCs] /\ current \in [Services -> Record] /\ made \in Nat
    BY DEF OrderInv, Typed
  <2>2. ASSUME NEW of \in Nat, Makes(s, of)
        PROVE  \/ UNCHANGED <<pc, current, made>>
               \/ /\ pc' = [pc EXCEPT ![s] = "inserting"] /\ made' = made + 1
                  /\ current' = [current EXCEPT ![s] = [id |-> made + 1, of |-> of]]
                  /\ [id |-> made + 1, of |-> of] \in Record
    BY <2>1, <2>2 DEF Makes, Goto, Record
  <2>3. Head(todo[s]).record.id \in Nat
    BY <1>3 DEF Envelope, Record
  <2>4. \/ UNCHANGED <<pc, current, made>>
        \/ Makes(s, 0)
        \/ Makes(s, Head(todo[s]).record.id)
    <3>1. \/ UNCHANGED <<pc, current, made>>
          \/ s = "broadcast" /\ CollectAndGenerate
          \/ s # "broadcast" /\ Synthesize(Head(todo[s]))
      BY DEF Take
    <3> QED
      BY <3>1 DEF CollectAndGenerate, Synthesize, Services
  <2>5. \/ UNCHANGED <<pc, current, made>>
        \/ \E r \in Record : /\ pc' = [pc EXCEPT ![s] = "inserting"] /\ made' = made + 1
                           /\ current' = [current EXCEPT ![s] = r]
    BY <2>2, <2>3, <2>4
  <2>6. CASE UNCHANGED <<pc, current, made>>
    BY <2>1, <2>6
  <2>7. ASSUME NEW r \in Record, pc' = [pc EXCEPT ![s] = "inserting"], made' = made + 1,
               current' = [current EXCEPT ![s] = r]
        PROVE  /\ pc' \in [Services -> PCs] /\ current' \in [Services -> Record] /\ made' \in Nat
               /\ \A x \in Services : pc'[x] \in {pc[x], "inserting"} /\ (x # s => pc'[x] = pc[x])
    <3>1. pc' \in [Services -> PCs] /\ \A x \in Services : pc'[x] \in {pc[x], "inserting"} /\ (x # s => pc'[x] = pc[x])
      BY <2>1, <2>7 DEF PCs
    <3>2. current' \in [Services -> Record]
      BY <2>1, <2>7
    <3>3. made' \in Nat
      BY <2>1, <2>7
    <3> QED
      BY <3>1, <3>2, <3>3
  <2> QED
    BY <2>5, <2>6, <2>7
<1>5. Typed'
  BY <1>1, <1>3, <1>4 DEF OrderInv, Typed
<1>6. InOrderOnce'
  BY <1>1, <1>3 DEF OrderInv, Typed, InOrderOnce
<1>7. \A x \in Services : pc'[x] = "waiting" => todo'[x] = <<>>
  BY <1>1, <1>4 DEF OrderInv, Typed
<1> QED
  BY <1>5, <1>6, <1>7 DEF OrderInv

(* The steps on the files, and the end of a batch, only move pc.           *)
LEMMA QuietOrder ==
    ASSUME OrderInv, NEW s \in Services, NEW p \in PCs, p = "waiting" => todo[s] = <<>>,
           pc' = [pc EXCEPT ![s] = p],
           UNCHANGED <<log, cursor, todo, handled, current, made>>
    PROVE  OrderInv'
<1>1. Typed'
  BY DEF OrderInv, Typed
<1>2. \A x \in Services : pc'[x] = "waiting" => todo'[x] = <<>>
  BY DEF OrderInv, Typed
<1> QED
  BY <1>1, <1>2 DEF OrderInv, InOrderOnce

LEMMA ServiceOrder == ASSUME OrderInv, NEW s \in Services, ServiceStep(s) PROVE OrderInv'
<1>1. CASE EndBatch(s)
  <2>1. /\ "waiting" \in PCs /\ todo[s] = <<>> /\ pc' = [pc EXCEPT ![s] = "waiting"]
        /\ UNCHANGED <<log, cursor, todo, handled, current, made>>
    BY <1>1 DEF EndBatch, Goto, PCs
  <2> QED
    BY <2>1, QuietOrder
<1>2. CASE Insert(s)
  <2>1. /\ "persisting" \in PCs /\ pc' = [pc EXCEPT ![s] = "persisting"]
        /\ UNCHANGED <<log, cursor, todo, handled, current, made>>
    BY <1>2 DEF Insert, Goto, PCs
  <2> QED
    BY <2>1, QuietOrder
<1>3. CASE Persist(s)
  <2>1. /\ \/ pc' = [pc EXCEPT ![s] = "publishing"]
           \/ pc' = [pc EXCEPT ![s] = "taking"]
        /\ UNCHANGED <<log, cursor, todo, handled, current, made>>
    BY <1>3 DEF Persist, Goto
  <2>2. "publishing" \in PCs /\ "taking" \in PCs
    BY DEF PCs
  <2> QED
    BY <2>1, <2>2, QuietOrder
<1> QED
  BY <1>1, <1>2, <1>3, PollOrder, TakeOrder, AnnounceOrder DEF ServiceStep

LEMMA SameOrder ==
    ASSUME OrderInv, UNCHANGED <<log, cursor, todo, pc, current, handled, made>>
    PROVE  OrderInv'
<1>1. Typed'
  BY DEF OrderInv, Typed
<1> QED
  BY <1>1 DEF OrderInv, InOrderOnce

(* After a restart nobody has read anything.                               *)
LEMMA FreshOrder ==
    ASSUME log' = <<>>, made' \in Nat, cursor' = [s \in Services |-> 0],
           todo' = [s \in Services |-> <<>>], pc' = [s \in Services |-> "waiting"],
           current' = [s \in Services |-> NoRecord], handled' = [s \in Services |-> <<>>]
    PROVE  OrderInv'
<1>1. <<>> \in Seq(Envelope) /\ Len(<<>>) = 0 /\ NoRecord \in Record
  BY EmptySeq DEF NoRecord, Record
<1>2. Typed'
  BY <1>1 DEF Typed, PCs
<1>3. <<>> \o <<>> = <<>> /\ SubSeq(<<>>, 1, 0) = <<>>
  BY <1>1, ConcatEmptySeq, SubSeqEmpty
<1>4. InOrderOnce'
  BY <1>3 DEF InOrderOnce
<1> QED
  BY <1>2, <1>4 DEF OrderInv

LEMMA InitOrder == ASSUME Init PROVE OrderInv
<1>1. /\ log = <<>> /\ made = 0 /\ cursor = [s \in Services |-> 0]
      /\ todo = [s \in Services |-> <<>>] /\ pc = [s \in Services |-> "waiting"]
      /\ current = [s \in Services |-> NoRecord] /\ handled = [s \in Services |-> <<>>]
  BY DEF Init, BusInit, ServicesInit
<1>2. <<>> \in Seq(Envelope) /\ Len(<<>>) = 0 /\ NoRecord \in Record
  BY EmptySeq DEF NoRecord, Record
<1>3. Typed
  BY <1>1, <1>2 DEF Typed, PCs
<1>4. <<>> \o <<>> = <<>> /\ SubSeq(<<>>, 1, 0) = <<>>
  BY <1>2, ConcatEmptySeq, SubSeqEmpty
<1>5. InOrderOnce
  BY <1>1, <1>4 DEF InOrderOnce
<1> QED
  BY <1>1, <1>3, <1>5 DEF OrderInv

LEMMA NextOrder == ASSUME OrderInv, [Next]_vars PROVE OrderInv'
<1>1. CASE Services_
  <2>1. ASSUME NEW d \in Deleters, Delete(d)  PROVE OrderInv'
    <3>1. UNCHANGED <<log, cursor, todo, pc, current, handled, made>>
      BY <2>1 DEF Delete
    <3> QED
      BY <3>1, SameOrder
  <2> QED
    BY <1>1, <2>1, TriggerOrder, ServiceOrder DEF Services_, ServicesNext
<1>2. CASE Hub
  <2>1. UNCHANGED log
    BY <1>2 DEF Hub, HubNext, PollBus, Connect, Ping, ApplyControl, Close, Lag, Forward
  <2>2. UNCHANGED <<cursor, todo, pc, current, handled, made>>
    BY <1>2 DEF Hub, svars
  <2> QED
    BY <2>1, <2>2, SameOrder
<1>3. CASE Restart
  <2>1. made' \in Nat
    BY <1>3 DEF Restart, ServicesRestart, OrderInv, Typed
  <2> QED
    BY <1>3, <2>1, FreshOrder DEF Restart, ServicesRestart
<1>4. CASE UNCHANGED vars
  <2>1. UNCHANGED <<log, cursor, todo, pc, current, handled, made>>
    BY <1>4 DEF vars, svars
  <2> QED
    BY <2>1, SameOrder
<1> QED
  BY <1>1, <1>2, <1>3, <1>4 DEF Next

(* The two services handle every event of the bus once and in the order it *)
(* was published, whatever fails, however often the process starts again,  *)
(* and however the hub and its clients behave.                             *)
THEOREM ServicesReadInOrder == Spec => []InOrderOnce
<1>1. Init => OrderInv
  BY InitOrder
<1>2. OrderInv /\ [Next]_vars => OrderInv'
  BY NextOrder
<1>3. OrderInv => InOrderOnce
  BY DEF OrderInv
<1> QED
  BY <1>1, <1>2, <1>3, PTL DEF Spec

-----------------------------------------------------------------------------
(* Why what is announced stays on disk: the memory a service writes out    *)
(* holds the record in hand and all those announced before, as long as     *)
(* nobody deletes; and from then on nothing is written any more.           *)
FilesTyped == cache \in [Services -> SUBSET Record]
              /\ file \in [Services -> (SUBSET Record) \cup {Torn}]

InHandInMemory ==
    \A s \in Services : pc[s] \in {"persisting", "publishing"} /\ Unlocked(s) => current[s] \in cache[s]
InHandOnDisk ==
    \A s \in Services : pc[s] = "publishing" => file[s] = Torn \/ current[s] \in file[s]
AnnouncedInMemory ==
    \A i \in DOMAIN log, s \in Services :
        log[i].type = Announcement(s) /\ Unlocked(s) => log[i].record \in cache[s]

DiskInv == FilesTyped /\ InHandInMemory /\ InHandOnDisk /\ AnnouncedInMemory /\ AnnouncedIsOnDisk

(* A step of s that leaves memory, disk and log alone, and does not come   *)
(* to a record it has not inserted.                                        *)
LEMMA QuietDisk ==
    ASSUME Typed, DiskInv, NEW s \in Services, UNCHANGED <<log, cache, file, deleting>>,
           pc' \in [Services -> PCs], pc'[s] \notin {"persisting", "publishing"},
           \A x \in Services \ {s} : pc'[x] = pc[x] /\ current'[x] = current[x]
    PROVE  DiskInv'
<1>1. FilesTyped' /\ AnnouncedInMemory' /\ AnnouncedIsOnDisk'
  BY DEF DiskInv, FilesTyped, AnnouncedInMemory, AnnouncedIsOnDisk, Unlocked
<1>2. InHandInMemory' /\ InHandOnDisk'
  BY DEF DiskInv, InHandInMemory, InHandOnDisk, Unlocked
<1> QED
  BY <1>1, <1>2 DEF DiskInv

LEMMA TakeDisk == ASSUME Typed, OrderInv', DiskInv, NEW s \in Services, Take(s) PROVE DiskInv'
<1>1. UNCHANGED <<log, cache, file, deleting>> /\ pc[s] = "taking"
  BY DEF Take
<1>2. pc' \in [Services -> PCs]
  BY DEF OrderInv, Typed
<1>3. \/ UNCHANGED <<pc, current>>
      \/ \E r : pc' = [pc EXCEPT ![s] = "inserting"] /\ current' = [current EXCEPT ![s] = r]
  <2>1. \/ UNCHANGED <<pc, current, made>>
        \/ s = "broadcast" /\ CollectAndGenerate
        \/ s # "broadcast" /\ Synthesize(Head(todo[s]))
    BY DEF Take
  <2>2. ASSUME NEW of, Makes(s, of)
        PROVE  \/ UNCHANGED <<pc, current>>
               \/ \E r : pc' = [pc EXCEPT ![s] = "inserting"] /\ current' = [current EXCEPT ![s] = r]
    BY <2>2 DEF Makes, Goto
  <2> QED
    BY <2>1, <2>2 DEF CollectAndGenerate, Synthesize, Services
<1>4. pc'[s] \in {"taking", "inserting"} /\ \A x \in Services \ {s} : pc'[x] = pc[x] /\ current'[x] = current[x]
  BY <1>1, <1>3 DEF Typed
<1> QED
  BY <1>1, <1>2, <1>4, QuietDisk

LEMMA InsertDisk == ASSUME Typed, DiskInv, NEW s \in Services, Insert(s) PROVE DiskInv'
<1>1. /\ pc[s] = "inserting" /\ Unlocked(s) /\ pc' = [pc EXCEPT ![s] = "persisting"]
      /\ cache' = [cache EXCEPT ![s] = @ \cup {current[s]}] /\ UNCHANGED <<log, current, file, deleting>>
  BY DEF Insert, Goto
<1>2. \A x \in Services : cache[x] \subseteq cache'[x]
  BY <1>1 DEF DiskInv, FilesTyped
<1>3. current[s] \in cache'[s] /\ current[s] \in Record
  BY <1>1 DEF DiskInv, FilesTyped, Typed
<1>4. FilesTyped'
  BY <1>1, <1>3 DEF DiskInv, FilesTyped
<1>5. InHandInMemory'
  BY <1>1, <1>2, <1>3 DEF DiskInv, InHandInMemory, Unlocked, Typed
<1>6. InHandOnDisk'
  BY <1>1 DEF DiskInv, InHandOnDisk, Typed
<1>7. AnnouncedInMemory'
  BY <1>1, <1>2 DEF DiskInv, AnnouncedInMemory, Unlocked
<1>8. AnnouncedIsOnDisk'
  BY <1>1 DEF DiskInv, AnnouncedIsOnDisk
<1> QED
  BY <1>4, <1>5, <1>6, <1>7, <1>8 DEF DiskInv

(* A write brings everything announced before to disk again.               *)
LEMMA PersistDisk == ASSUME Typed, DiskInv, NEW s \in Services, Persist(s) PROVE DiskInv'
<1>1. /\ pc[s] = "persisting" /\ Unlocked(s) /\ UNCHANGED <<log, current, cache, deleting>>
      /\ \/ file' = [file EXCEPT ![s] = cache[s]] /\ pc' = [pc EXCEPT ![s] = "publishing"]
         \/ file' = [file EXCEPT ![s] = file[s]] /\ pc' = [pc EXCEPT ![s] = "taking"]
         \/ file' = [file EXCEPT ![s] = Torn] /\ pc' = [pc EXCEPT ![s] = "taking"]
  BY DEF Persist, Goto
<1>2. current[s] \in cache[s] /\ cache[s] \subseteq Record
  BY <1>1 DEF DiskInv, InHandInMemory, FilesTyped
<1>3. FilesTyped'
  BY <1>1, <1>2 DEF DiskInv, FilesTyped
<1>4. InHandInMemory' /\ AnnouncedInMemory'
  BY <1>1 DEF DiskInv, InHandInMemory, AnnouncedInMemory, Unlocked, Typed
<1>5. InHandOnDisk'
  BY <1>1, <1>2 DEF DiskInv, InHandOnDisk, FilesTyped, Typed
<1>6. AnnouncedIsOnDisk'
  BY <1>1 DEF DiskInv, AnnouncedIsOnDisk, AnnouncedInMemory, FilesTyped
<1> QED
  BY <1>3, <1>4, <1>5, <1>6 DEF DiskInv

(* One more event on the bus: of a kind no service announces, or the       *)
(* announcement of what is in hand.                                        *)
LEMMA PublishDisk ==
    ASSUME Typed, DiskInv, NEW e \in Envelope, log' = Append(log, e),
           UNCHANGED <<current, cache, file, deleting>>,
           \A s \in Services : e.type = Announcement(s) => pc[s] = "publishing" /\ e.record = current[s],
           \A s \in Services : pc'[s] = pc[s] \/ pc'[s] = "taking"
    PROVE  DiskInv'
<1>1. /\ DOMAIN log' = DOMAIN log \cup {Len(log) + 1}
      /\ log'[Len(log) + 1] = e /\ \A i \in DOMAIN log : log'[i] = log[i]
  BY AppendProperties DEF Typed
<1>2. FilesTyped' /\ InHandInMemory' /\ InHandOnDisk'
  BY DEF DiskInv, FilesTyped, InHandInMemory, InHandOnDisk, Unlocked
<1>3. AnnouncedInMemory'
  BY <1>1 DEF DiskInv, AnnouncedInMemory, InHandInMemory, Unlocked
<1>4. AnnouncedIsOnDisk'
  BY <1>1 DEF DiskInv, AnnouncedIsOnDisk, InHandOnDisk
<1> QED
  BY <1>2, <1>3, <1>4 DEF DiskInv

LEMMA TriggerDisk == ASSUME Typed, DiskInv, Trigger PROVE DiskInv'
<1> DEFINE e == [type |-> "generate", record |-> NoRecord]
<1>1. e \in Envelope /\ \A s \in Services : e.type # Announcement(s)
  BY DEF Envelope, NoRecord, Record, Announcement
<1>2. log' = Append(log, e) /\ UNCHANGED <<current, cache, file, deleting, pc>>
  BY DEF Trigger, Publish, svars
<1> HIDE DEF e
<1> QED
  BY <1>1, <1>2, PublishDisk

LEMMA AnnounceDisk == ASSUME Typed, DiskInv, NEW s \in Services, Announce(s) PROVE DiskInv'
<1> DEFINE e == [type |-> Announcement(s), record |-> current[s]]
<1>1. e \in Envelope /\ e.type = Announcement(s) /\ e.record = current[s]
  BY DEF Envelope, Announcement, Typed
<1>2. log' = Append(log, e) /\ pc[s] = "publishing" /\ UNCHANGED <<current, cache, file, deleting>>
  BY DEF Announce, Publish
<1> HIDE DEF e
<1>3. \A x \in Services : pc'[x] = pc[x] \/ pc'[x] = "taking"
  BY DEF Announce, Goto, Typed
<1>4. \A x \in Services : e.type = Announcement(x) => x = s
  BY <1>1 DEF Announcement, Services
<1> QED
  BY <1>1, <1>2, <1>3, <1>4, PublishDisk

(* A deletion takes a record from memory, and the lock for ever.           *)
LEMMA DeleteDisk == ASSUME Typed, DiskInv, NEW d \in Deleters, Delete(d) PROVE DiskInv'
<1>1. /\ deleting' = {d} /\ UNCHANGED <<log, pc, current, file>>
      /\ \E r : cache' = [cache EXCEPT !["audio"] = @ \ {r}]
  BY DEF Delete
<1>2. /\ FilesTyped' /\ cache'["broadcast"] = cache["broadcast"]
      /\ ~Unlocked("audio")' /\ Unlocked("broadcast")' /\ Unlocked("broadcast")
  BY <1>1 DEF DiskInv, FilesTyped, Unlocked, Services
<1>3. InHandInMemory' /\ InHandOnDisk'
  BY <1>1, <1>2 DEF DiskInv, InHandInMemory, InHandOnDisk, Services
<1>4. AnnouncedInMemory' /\ AnnouncedIsOnDisk'
  BY <1>1, <1>2 DEF DiskInv, AnnouncedInMemory, AnnouncedIsOnDisk, Services
<1> QED
  BY <1>2, <1>3, <1>4 DEF DiskInv

LEMMA RestartDisk == ASSUME Typed, DiskInv, ServicesRestart PROVE DiskInv'
<1>1. /\ log' = <<>> /\ pc' = [s \in Services |-> "waiting"]
      /\ \E torn \in SUBSET Services : file' = [s \in Services |-> IF s \in torn THEN Torn ELSE file[s]]
      /\ cache' = [s \in Services |-> Loaded(file'[s])]
  BY DEF ServicesRestart
<1>2. file' \in [Services -> (SUBSET Record) \cup {Torn}]
  BY <1>1 DEF DiskInv, FilesTyped
<1>3. \A s \in Services : Loaded(file'[s]) \in SUBSET Record
  BY <1>2 DEF Loaded
<1>4. FilesTyped'
  BY <1>1, <1>2, <1>3 DEF FilesTyped
<1>5. DOMAIN log' = {}
  BY <1>1
<1> QED
  BY <1>1, <1>4, <1>5 DEF DiskInv, InHandInMemory, InHandOnDisk, AnnouncedInMemory, AnnouncedIsOnDisk

LEMMA SameDisk ==
    ASSUME DiskInv, UNCHANGED <<log, pc, current, cache, file, deleting>>  PROVE DiskInv'
BY DEF DiskInv, FilesTyped, InHandInMemory, InHandOnDisk, AnnouncedInMemory, AnnouncedIsOnDisk, Unlocked

LEMMA InitDisk == ASSUME Init PROVE DiskInv
<1>1. /\ log = <<>> /\ pc = [s \in Services |-> "waiting"]
      /\ cache = [s \in Services |-> {}] /\ file = [s \in Services |-> {}]
  BY DEF Init, BusInit, ServicesInit
<1>2. DOMAIN log = {}
  BY <1>1
<1>3. FilesTyped
  BY <1>1 DEF FilesTyped
<1> QED
  BY <1>1, <1>2, <1>3 DEF DiskInv, InHandInMemory, InHandOnDisk, AnnouncedInMemory, AnnouncedIsOnDisk

LEMMA NextDisk == ASSUME OrderInv, OrderInv', DiskInv, [Next]_vars PROVE DiskInv'
<1> USE DEF OrderInv
<1>1. ASSUME NEW s \in Services, Poll(s) \/ EndBatch(s)  PROVE DiskInv'
  <2>1. /\ UNCHANGED <<log, cache, file, deleting, current>>
        /\ \E p \in {"taking", "waiting"} : pc' = [pc EXCEPT ![s] = p]
    BY <1>1 DEF Poll, EndBatch, Goto
  <2>2. /\ pc' \in [Services -> PCs] /\ pc'[s] \notin {"persisting", "publishing"}
        /\ \A x \in Services \ {s} : pc'[x] = pc[x] /\ current'[x] = current[x]
    BY <2>1 DEF Typed
  <2> QED
    BY <2>1, <2>2, QuietDisk
<1>2. CASE Services_
  BY <1>1, <1>2, TriggerDisk, TakeDisk, InsertDisk, PersistDisk, AnnounceDisk, DeleteDisk
  DEF Services_, ServicesNext, ServiceStep
<1>3. CASE Hub \/ UNCHANGED vars
  <2>1. UNCHANGED log
    BY <1>3 DEF Hub, HubNext, PollBus, Connect, Ping, ApplyControl, Close, Lag, Forward, vars
  <2>2. UNCHANGED <<pc, current, cache, file, deleting>>
    BY <1>3 DEF Hub, vars, svars
  <2> QED
    BY <2>1, <2>2, SameDisk
<1>4. CASE Restart
  BY <1>4, RestartDisk DEF Restart
<1> QED
  BY <1>2, <1>3, <1>4 DEF Next

(* What a service announced is in its file, or the file no longer parses:  *)
(* nobody who follows an announcement asks for a record that a restart     *)
(* would drop, whatever was deleted or failed meanwhile.                   *)
THEOREM AnnouncedStaysOnDisk == Spec => []AnnouncedIsOnDisk
<1>1. Init => OrderInv /\ DiskInv
  BY InitOrder, InitDisk
<1>2. OrderInv /\ DiskInv /\ [Next]_vars => OrderInv' /\ DiskInv'
  BY NextOrder, NextDisk
<1>3. DiskInv => AnnouncedIsOnDisk
  BY DEF DiskInv
<1> QED
  BY <1>1, <1>2, <1>3, PTL DEF Spec

-----------------------------------------------------------------------------
(* The hub.  Whoever has not lagged and set no filter has none, and has    *)
(* been sent every message its receiver has passed.                        *)
Message == [kind : {"event", "welcome", "pong"}, event : Nat,
            type : {"generate", "generated", "ready", "none"}]

HubTyped ==
    /\ hubIndex \in Nat /\ hubIndex <= Len(log)
    /\ sent \in Seq(Message)
    /\ open \subseteq Clients /\ reading \subseteq open
    /\ start \in [Clients -> Nat] /\ pos \in [Clients -> Nat]
    /\ active \in [Clients -> SUBSET Channels]
    /\ got \in [Clients -> Seq(Nat)]

InChannel == \A c \in Clients : start[c] <= pos[c] /\ pos[c] <= Len(sent)
Unfiltered == \A c \in open \ spoiled : active[c] = {}

HubInv == HubTyped /\ InChannel /\ Unfiltered /\ NothingSkipped

(* The list of what was sent grows by its next number.                     *)
LEMMA CountOn ==
    ASSUME NEW a \in Nat, NEW n \in Nat
    PROVE  Append([k \in 1..n |-> a + k], a + n + 1) = [k \in 1..(n + 1) |-> a + k]
<1> DEFINE f == [k \in 1..n |-> a + k]
           g == [k \in 1..(n + 1) |-> a + k]
<1>1. f \in Seq(Nat) /\ Len(f) = n /\ \A i \in 1..n : f[i] = a + i
  OBVIOUS
<1>2. g \in Seq(Nat) /\ Len(g) = n + 1 /\ \A i \in 1..(n + 1) : g[i] = a + i
  OBVIOUS
<1> HIDE DEF f, g
<1>3. /\ Append(f, a + n + 1) \in Seq(Nat) /\ Len(Append(f, a + n + 1)) = n + 1
      /\ \A i \in 1..n : Append(f, a + n + 1)[i] = f[i]
      /\ Append(f, a + n + 1)[n + 1] = a + n + 1
  BY <1>1, AppendProperties, a + n + 1 \in Nat
<1>4. \A i \in 1..(n + 1) : Append(f, a + n + 1)[i] = g[i]
  <2> TAKE i \in 1..(n + 1)
  <2>1. CASE i # n + 1
    <3>1. i \in 1..n
      BY <2>1
    <3> QED
      BY <1>1, <1>2, <1>3, <3>1
  <2>2. CASE i = n + 1
    BY <1>2, <1>3, <2>2
  <2> QED
    BY <2>1, <2>2
<1>5. Append(f, a + n + 1) = g
  BY <1>2, <1>3, <1>4, SeqEqual
<1> QED
  BY <1>5 DEF f, g

(* The channel grows and no receiver moves.                                *)
LEMMA SendHub ==
    ASSUME HubInv, NEW m \in Seq(Message), sent' = sent \o m,
           UNCHANGED <<open, reading, pos, active, start, got, spoiled>>
    PROVE  sent' \in Seq(Message) /\ InChannel' /\ Unfiltered' /\ NothingSkipped'
<1>1. sent \in Seq(Message) /\ Len(m) \in Nat /\ Len(sent) \in Nat
  BY DEF HubInv, HubTyped
<1>2. sent' \in Seq(Message) /\ Len(sent') = Len(sent) + Len(m)
  BY <1>1, ConcatProperties
<1>3. InChannel'
  BY <1>1, <1>2 DEF HubInv, HubTyped, InChannel
<1>4. Unfiltered' /\ NothingSkipped'
  BY DEF HubInv, Unfiltered, NothingSkipped, Reachable
<1> QED
  BY <1>2, <1>3, <1>4

LEMMA PollBusHub == ASSUME Typed, HubInv, PollBus PROVE HubInv'
<1> DEFINE m == <<Event(hubIndex + 1)>>
<1>1. /\ log \in Seq(Envelope) /\ Len(log) \in Nat /\ hubIndex \in Nat /\ hubIndex < Len(log)
      /\ hubIndex + 1 \in 1..Len(log)
  BY DEF Typed, HubInv, HubTyped, PollBus
<1>2. Event(hubIndex + 1) \in Message
  <2>1. log[hubIndex + 1] \in Envelope
    BY <1>1, ElementOfSeq
  <2> QED
    BY <1>1, <2>1 DEF Event, Envelope, Message
<1>3. m \in Seq(Message)
  BY <1>2
<1>4. /\ sent' = Append(sent, Event(hubIndex + 1)) /\ hubIndex' = hubIndex + 1
      /\ UNCHANGED <<open, reading, pos, active, start, got, spoiled, log>>
  BY DEF PollBus
<1>5. sent' = sent \o m
  BY <1>2, <1>4, AppendIsConcat DEF HubInv, HubTyped
<1> HIDE DEF m
<1>6. sent' \in Seq(Message) /\ InChannel' /\ Unfiltered' /\ NothingSkipped'
  BY <1>3, <1>4, <1>5, SendHub
<1> QED
  BY <1>1, <1>4, <1>6 DEF HubInv, HubTyped

LEMMA PingHub == ASSUME HubInv, NEW c \in Clients, Ping(c) PROVE HubInv'
<1> DEFINE m == <<Notice("pong")>>
<1>1. m \in Seq(Message) /\ Notice("pong") \in Message
  BY DEF Notice, Message
<1>2. sent' = Append(sent, Notice("pong"))
      /\ UNCHANGED <<log, hubIndex, open, reading, active, start, got, spoiled, pos>>
  BY DEF Ping
<1>3. sent' = sent \o m
  BY <1>1, <1>2, AppendIsConcat DEF HubInv, HubTyped
<1> HIDE DEF m
<1>4. sent' \in Seq(Message) /\ InChannel' /\ Unfiltered' /\ NothingSkipped'
  BY <1>1, <1>2, <1>3, SendHub
<1> QED
  BY <1>2, <1>4 DEF HubInv, HubTyped

LEMMA ConnectHub == ASSUME HubInv, NEW c \in Clients, Connect(c) PROVE HubInv'
<1>1. /\ open' = open \cup {c} /\ reading' = reading \cup {c} /\ c \notin open
      /\ start' = [start EXCEPT ![c] = Len(sent)] /\ pos' = [pos EXCEPT ![c] = Len(sent)]
      /\ sent' = Append(sent, Notice("welcome")) /\ active' = [active EXCEPT ![c] = {}]
      /\ got' = [got EXCEPT ![c] = <<>>] /\ spoiled' = spoiled \ {c} /\ UNCHANGED <<log, hubIndex>>
  BY DEF Connect
<1>2. sent \in Seq(Message) /\ Len(sent) \in Nat /\ Notice("welcome") \in Message
  BY DEF HubInv, HubTyped, Notice, Message
<1>3. sent' \in Seq(Message) /\ Len(sent') = Len(sent) + 1
  BY <1>1, <1>2, AppendProperties
<1>4. HubTyped'
  <2>1. <<>> \in Seq(Nat)
    BY EmptySeq
  <2>2. got' \in [Clients -> Seq(Nat)] /\ active' \in [Clients -> SUBSET Channels]
    BY <1>1, <2>1 DEF HubInv, HubTyped
  <2>3. start' \in [Clients -> Nat] /\ pos' \in [Clients -> Nat]
    BY <1>1, <1>2 DEF HubInv, HubTyped
  <2> QED
    BY <1>1, <1>3, <2>2, <2>3 DEF HubInv, HubTyped
<1>5. InChannel'
  BY <1>1, <1>2, <1>3 DEF HubInv, HubTyped, InChannel
<1>6. Unfiltered'
  BY <1>1 DEF HubInv, HubTyped, Unfiltered
<1>7. ASSUME NEW x \in Clients, Reachable(x)'
      PROVE  got'[x] = [k \in 1..(pos'[x] - start'[x]) |-> start'[x] + k]
  <2>1. CASE x = c
    <3>1. got'[x] = <<>> /\ pos'[x] = Len(sent) /\ start'[x] = Len(sent)
      BY <1>1, <2>1 DEF HubInv, HubTyped
    <3>2. 1..(pos'[x] - start'[x]) = {}
      BY <1>2, <3>1
    <3> QED
      BY <3>1, <3>2
  <2>2. CASE x # c
    BY <1>1, <1>7, <2>2 DEF HubInv, HubTyped, NothingSkipped, Reachable
  <2> QED
    BY <2>1, <2>2
<1>8. NothingSkipped'
  BY <1>7 DEF NothingSkipped
<1> QED
  BY <1>4, <1>5, <1>6, <1>8 DEF HubInv

(* A filter and a lag both count as spoiled; a close ends the reading.     *)
LEMMA SpoilHub ==
    ASSUME HubInv, NEW c \in Clients, ApplyControl(c) \/ Close(c) \/ Lag(c)  PROVE HubInv'
<1>1. /\ UNCHANGED <<log, hubIndex, sent, open, start, got>>
      /\ reading' \subseteq reading /\ spoiled \subseteq spoiled'
      /\ \A x \in Clients \ {c} : active'[x] = active[x] /\ pos'[x] = pos[x]
      /\ (c \in spoiled' \/ (pos'[c] = pos[c] /\ active'[c] = active[c]))
  BY DEF ApplyControl, Close, Lag, HubInv, HubTyped
<1>2. active' \in [Clients -> SUBSET Channels]
  BY DEF ApplyControl, Close, Lag, HubInv, HubTyped
<1>3. pos' \in [Clients -> Nat] /\ \A x \in Clients : pos[x] <= pos'[x] /\ pos'[x] <= Len(sent)
  <2>1. CASE Lag(c)
    <3>1. Len(sent) \in Nat /\ Len(sent) - Capacity \in Nat /\ Len(sent) - Capacity <= Len(sent)
          /\ pos' = [pos EXCEPT ![c] = Len(sent) - Capacity] /\ pos[c] <= Len(sent) - Capacity
      BY <2>1, HubAssumption DEF Lag, HubInv, HubTyped
    <3> QED
      BY <3>1 DEF HubInv, HubTyped, InChannel
  <2>2. CASE ApplyControl(c) \/ Close(c)
    BY <2>2 DEF ApplyControl, Close, HubInv, HubTyped, InChannel
  <2> QED
    BY <2>1, <2>2
<1>4. HubTyped'
  BY <1>1, <1>2, <1>3 DEF HubInv, HubTyped
<1>5. InChannel'
  BY <1>1, <1>3 DEF HubInv, HubTyped, InChannel
<1>6. ASSUME NEW x \in Clients, x \notin spoiled'
      PROVE  x \notin spoiled /\ pos'[x] = pos[x] /\ active'[x] = active[x]
  BY <1>1, <1>6
<1>7. Unfiltered'
  BY <1>1, <1>6 DEF HubInv, HubTyped, Unfiltered
<1>8. ASSUME NEW x \in Clients, Reachable(x)'
      PROVE  Reachable(x) /\ got'[x] = got[x] /\ start'[x] = start[x] /\ pos'[x] = pos[x]
  BY <1>1, <1>6, <1>8 DEF Reachable
<1>9. NothingSkipped'
  BY <1>8 DEF HubInv, NothingSkipped
<1> QED
  BY <1>4, <1>5, <1>7, <1>9 DEF HubInv

LEMMA ForwardHub == ASSUME HubInv, NEW c \in Clients, Forward(c) PROVE HubInv'
<1>1. /\ pos' = [pos EXCEPT ![c] = @ + 1] /\ pos[c] < Len(sent) /\ c \in open
      /\ UNCHANGED <<log, hubIndex, sent, reading, active, start, spoiled>>
      /\ open' \in {open, open \ {c}} /\ (c \in reading => open' = open)
      /\ got' \in {got, [got EXCEPT ![c] = Append(@, pos[c] + 1)]}
  BY DEF Forward
<1>2. pos[c] \in Nat /\ start[c] \in Nat /\ start[c] <= pos[c] /\ pos[c] + 1 \in Nat /\ Len(sent) \in Nat
  BY DEF HubInv, HubTyped, InChannel
<1>3. got' \in [Clients -> Seq(Nat)]
  <2>1. Append(got[c], pos[c] + 1) \in Seq(Nat)
    BY <1>2, AppendProperties DEF HubInv, HubTyped
  <2> QED
    BY <1>1, <2>1 DEF HubInv, HubTyped
<1>4. HubTyped'
  <2>1. pos' \in [Clients -> Nat]
    BY <1>1, <1>2 DEF HubInv, HubTyped
  <2>2. open' \subseteq Clients /\ reading' \subseteq open'
    BY <1>1 DEF HubInv, HubTyped
  <2> QED
    BY <1>1, <1>3, <2>1, <2>2 DEF HubInv, HubTyped
<1>5. InChannel'
  BY <1>1, <1>2 DEF HubInv, HubTyped, InChannel
<1>6. Unfiltered'
  BY <1>1 DEF HubInv, Unfiltered
<1>7. ASSUME NEW x \in Clients, Reachable(x)'
      PROVE  got'[x] = [k \in 1..(pos'[x] - start'[x]) |-> start'[x] + k]
  <2>1. Reachable(x) /\ got[x] = [k \in 1..(pos[x] - start[x]) |-> start[x] + k]
    BY <1>1, <1>7 DEF HubInv, NothingSkipped, Reachable
  <2>2. CASE x = c
    <3>1. PassesFilter(c, sent[pos[c] + 1]) /\ c \in reading
      BY <2>1, <2>2 DEF HubInv, Unfiltered, Reachable, PassesFilter
    <3>2. got' = [got EXCEPT ![c] = Append(@, pos[c] + 1)]
      BY <3>1 DEF Forward
    <3>3. got'[c] = Append(got[c], pos[c] + 1) /\ pos'[c] = pos[c] + 1 /\ start'[c] = start[c]
      BY <1>1, <3>2 DEF HubInv, HubTyped
    <3> DEFINE n == pos[c] - start[c]
    <3>4. n \in Nat /\ start[c] + n + 1 = pos[c] + 1 /\ pos'[c] - start'[c] = n + 1
      BY <1>2, <3>3
    <3>5. got[c] = [k \in 1..n |-> start[c] + k]
      BY <2>1, <2>2
    <3> HIDE DEF n
    <3>6. Append([k \in 1..n |-> start[c] + k], start[c] + n + 1) = [k \in 1..(n + 1) |-> start[c] + k]
      BY <1>2, <3>4, CountOn
    <3> QED
      BY <2>2, <3>3, <3>4, <3>5, <3>6
  <2>3. CASE x # c
    <3>1. got'[x] = got[x] /\ pos'[x] = pos[x] /\ start'[x] = start[x]
      BY <1>1, <2>3 DEF HubInv, HubTyped
    <3> QED
      BY <2>1, <3>1
  <2> QED
    BY <2>2, <2>3
<1>8. NothingSkipped'
  BY <1>7 DEF NothingSkipped
<1> QED
  BY <1>4, <1>5, <1>6, <1>8 DEF HubInv

LEMMA FreshHub == ASSUME log' \in Seq(Envelope), HubRestart PROVE HubInv'
<1>1. <<>> \in Seq(Message) /\ <<>> \in Seq(Nat) /\ Len(<<>>) = 0 /\ Len(log') \in Nat
  BY EmptySeq, LenProperties
<1>2. HubTyped' /\ InChannel'
  BY <1>1 DEF HubRestart, HubTyped, InChannel
<1>3. Unfiltered' /\ NothingSkipped'
  BY DEF HubRestart, Unfiltered, NothingSkipped, Reachable
<1> QED
  BY <1>2, <1>3 DEF HubInv

LEMMA InitHub == ASSUME Init PROVE HubInv
<1>1. <<>> \in Seq(Message) /\ <<>> \in Seq(Nat) /\ Len(<<>>) = 0
  BY EmptySeq
<1>2. HubTyped /\ InChannel
  BY <1>1 DEF Init, BusInit, HubInit, HubTyped, InChannel
<1>3. Unfiltered /\ NothingSkipped
  BY DEF Init, HubInit, Unfiltered, NothingSkipped, Reachable
<1> QED
  BY <1>2, <1>3 DEF HubInv

LEMMA SameHub ==
    ASSUME HubInv, UNCHANGED hvars, hubIndex <= Len(log')  PROVE HubInv'
<1>1. HubTyped' /\ InChannel'
  BY DEF hvars, HubInv, HubTyped, InChannel
<1>2. Unfiltered' /\ NothingSkipped'
  BY DEF hvars, HubInv, Unfiltered, NothingSkipped, Reachable
<1> QED
  BY <1>1, <1>2 DEF HubInv

LEMMA NextHub == ASSUME OrderInv, OrderInv', HubInv, [Next]_vars PROVE HubInv'
<1>1. CASE Hub
  BY <1>1, PollBusHub, PingHub, ConnectHub, SpoilHub, ForwardHub DEF Hub, HubNext, OrderInv
<1>2. CASE Services_
  <2>1. log' = log \/ \E e : log' = Append(log, e)
    BY <1>2 DEF Services_, ServicesNext, ServiceStep, Trigger, Delete, Poll, EndBatch, Take, Insert,
                Persist, Announce, Publish
  <2>2. Len(log) <= Len(log') /\ Len(log) \in Nat /\ Len(log') \in Nat
    BY <2>1 DEF OrderInv, Typed
  <2>3. hubIndex <= Len(log')
    BY <2>2 DEF HubInv, HubTyped
  <2> QED
    BY <1>2, <2>3, SameHub DEF Services_
<1>3. CASE Restart
  BY <1>3, FreshHub DEF Restart, OrderInv, Typed
<1>4. CASE UNCHANGED vars
  BY <1>4, SameHub DEF vars, HubInv, HubTyped
<1> QED
  BY <1>1, <1>2, <1>3, <1>4 DEF Next

(* A client that keeps up and sets no filter is sent every message from    *)
(* its connection on, in order and once, for any capacity of the channel.  *)
THEOREM HubSkipsNothing == Spec => []NothingSkipped
<1>1. Init => OrderInv /\ HubInv
  BY InitOrder, InitHub
<1>2. OrderInv /\ HubInv /\ [Next]_vars => OrderInv' /\ HubInv'
  BY NextOrder, NextHub
<1>3. HubInv => NothingSkipped
  BY DEF HubInv
<1> QED
  BY <1>1, <1>2, <1>3, PTL DEF Spec

-----------------------------------------------------------------------------
(* What a client was sent, filtered or not, lagging or not: messages its   *)
(* receiver has passed since it connected, each later than the one before. *)
Ascending(places, from, to) ==
    \A k \in DOMAIN places :
        /\ from < places[k] /\ places[k] <= to
        /\ \A j \in DOMAIN places : j < k => places[j] < places[k]
ReceivedInOrder == \A c \in Clients : Ascending(got[c], start[c], pos[c])

LEMMA AscendOn ==
    ASSUME NEW g \in Seq(Nat), NEW a \in Nat, NEW p \in Nat, a <= p, Ascending(g, a, p)
    PROVE  Ascending(Append(g, p + 1), a, p + 1) /\ Ascending(g, a, p + 1)
<1> DEFINE h == Append(g, p + 1)
<1>1. Len(g) \in Nat /\ DOMAIN g = 1..Len(g) /\ \A k \in DOMAIN g : g[k] \in Nat
  BY LenProperties, ElementOfSeq
<1>2. /\ DOMAIN h = 1..(Len(g) + 1) /\ \A k \in 1..Len(g) : h[k] = g[k]
      /\ h[Len(g) + 1] = p + 1
  BY p + 1 \in Nat, AppendProperties, LenProperties
<1> HIDE DEF h
<1>3. Ascending(g, a, p + 1)
  BY <1>1 DEF Ascending
<1>4. ASSUME NEW k \in DOMAIN h
      PROVE  a < h[k] /\ h[k] <= p + 1 /\ \A j \in DOMAIN h : j < k => h[j] < h[k]
  <2>1. CASE k = Len(g) + 1
    <3>1. \A j \in DOMAIN h : j < k => j \in DOMAIN g /\ h[j] = g[j]
      BY <1>1, <1>2, <2>1
    <3>2. h[k] = p + 1
      BY <1>2, <2>1
    <3> QED  BY <1>1, <3>1, <3>2 DEF Ascending
  <2>2. CASE k # Len(g) + 1
    <3>1. k \in DOMAIN g /\ h[k] = g[k] /\ \A j \in DOMAIN h : j < k => j \in DOMAIN g /\ h[j] = g[j]
      BY <1>1, <1>2, <2>2
    <3> QED  BY <1>1, <3>1 DEF Ascending
  <2> QED  BY <2>1, <2>2
<1>5. Ascending(h, a, p + 1)
  BY <1>4 DEF Ascending
<1> QED  BY <1>3, <1>5 DEF h

LEMMA AscendFurther ==
    ASSUME NEW g \in Seq(Nat), NEW a \in Nat, NEW p \in Nat, NEW q \in Nat, p <= q, Ascending(g, a, p)
    PROVE  Ascending(g, a, q)
<1>1. \A k \in DOMAIN g : g[k] \in Nat
  BY LenProperties, ElementOfSeq
<1> QED  BY <1>1 DEF Ascending

LEMMA AscendNothing == ASSUME NEW a, NEW p  PROVE Ascending(<<>>, a, p)
BY DEF Ascending

LEMMA HubReceives == ASSUME HubInv, ReceivedInOrder, HubNext  PROVE ReceivedInOrder'
<1> SUFFICES ASSUME NEW x \in Clients  PROVE Ascending(got'[x], start'[x], pos'[x])
  BY DEF ReceivedInOrder
<1>0. /\ got[x] \in Seq(Nat) /\ start[x] \in Nat /\ pos[x] \in Nat /\ start[x] <= pos[x]
      /\ Ascending(got[x], start[x], pos[x]) /\ Len(sent) \in Nat
  BY DEF HubInv, HubTyped, InChannel, ReceivedInOrder
<1>1. CASE PollBus \/ \E c \in Clients : Ping(c) \/ ApplyControl(c) \/ Close(c)
  <2>1. UNCHANGED <<got, start, pos>>
    BY <1>1 DEF PollBus, Ping, ApplyControl, Close
  <2> QED  BY <1>0, <2>1
<1>2. ASSUME NEW c \in Clients, Connect(c)  PROVE Ascending(got'[x], start'[x], pos'[x])
  <2>1. got' = [got EXCEPT ![c] = <<>>] /\ (x # c => start'[x] = start[x] /\ pos'[x] = pos[x])
    BY <1>2 DEF Connect, HubInv, HubTyped
  <2>2. CASE x = c
    BY <2>1, <2>2, AscendNothing DEF HubInv, HubTyped
  <2>3. CASE x # c
    BY <1>0, <2>1, <2>3
  <2> QED  BY <2>2, <2>3
<1>3. ASSUME NEW c \in Clients, Lag(c)  PROVE Ascending(got'[x], start'[x], pos'[x])
  <2>1. UNCHANGED <<got, start>> /\ pos' = [pos EXCEPT ![c] = Len(sent) - Capacity]
        /\ Len(sent) - pos[c] > Capacity
    BY <1>3 DEF Lag
  <2>2. pos'[x] \in Nat /\ pos[x] <= pos'[x]
    BY <1>0, <2>1, HubAssumption DEF HubInv, HubTyped
  <2> QED  BY <1>0, <2>1, <2>2, AscendFurther
<1>4. ASSUME NEW c \in Clients, Forward(c)  PROVE Ascending(got'[x], start'[x], pos'[x])
  <2>1. /\ pos' = [pos EXCEPT ![c] = @ + 1] /\ UNCHANGED start
        /\ got' \in {got, [got EXCEPT ![c] = Append(@, pos[c] + 1)]}
    BY <1>4 DEF Forward
  <2>2. CASE x = c
    <3>1. pos'[x] = pos[x] + 1 /\ got'[x] \in {got[x], Append(got[x], pos[x] + 1)}
      BY <2>1, <2>2 DEF HubInv, HubTyped
    <3> QED  BY <1>0, <2>1, <3>1, AscendOn
  <2>3. CASE x # c
    <3>1. got'[x] = got[x] /\ pos'[x] = pos[x]
      BY <2>1, <2>3 DEF HubInv, HubTyped
    <3> QED  BY <1>0, <2>1, <3>1
  <2> QED  BY <2>2, <2>3
<1> QED  BY <1>1, <1>2, <1>3, <1>4 DEF HubNext

LEMMA InitReceives == ASSUME Init  PROVE ReceivedInOrder
BY AscendNothing DEF Init, HubInit, ReceivedInOrder

LEMMA NextReceives == ASSUME HubInv, ReceivedInOrder, [Next]_vars  PROVE ReceivedInOrder'
<1>1. CASE Hub
  BY <1>1, HubReceives DEF Hub
<1>2. CASE Services_ \/ UNCHANGED vars
  <2>1. UNCHANGED <<got, start, pos>>
    BY <1>2 DEF Services_, vars, hvars
  <2> QED  BY <2>1 DEF ReceivedInOrder
<1>3. CASE Restart
  BY <1>3, AscendNothing DEF Restart, HubRestart, ReceivedInOrder
<1> QED  BY <1>1, <1>2, <1>3 DEF Next

(* No client is ever sent a message twice, or an older one after a newer,  *)
(* or one from before it connected, whatever it filters and however far it *)
(* falls behind (ws.rs serve).                                             *)
THEOREM NoClientRewinds == Spec => []ReceivedInOrder
<1>1. Init => OrderInv /\ HubInv /\ ReceivedInOrder
  BY InitOrder, InitHub, InitReceives
<1>2. OrderInv /\ HubInv /\ ReceivedInOrder /\ [Next]_vars
          => OrderInv' /\ HubInv' /\ ReceivedInOrder'
  BY NextOrder, NextHub, NextReceives
<1> QED  BY <1>1, <1>2, PTL DEF Spec

-----------------------------------------------------------------------------
(* What is left of the type invariant.                                     *)
RestTyped ==
    /\ deleting \subseteq Deleters /\ Cardinality(deleting) <= 1
    /\ faults \in 0..MaxFaults
    /\ spoiled \subseteq Clients

LEMMA FaultTyped == ASSUME faults \in 0..MaxFaults, Fault  PROVE faults' \in 0..MaxFaults
BY BroadcastingAssumption DEF Fault

LEMMA InitRest == ASSUME Init  PROVE RestTyped
<1>1. Cardinality({}) = 0
  BY FS_EmptySet
<1> QED  BY <1>1, BroadcastingAssumption DEF Init, ServicesInit, HubInit, RestTyped

LEMMA NextRest == ASSUME RestTyped, [Next]_vars  PROVE RestTyped'
<1>0. Cardinality({}) = 0 /\ \A d : Cardinality({d}) = 1
  BY FS_EmptySet, FS_Singleton
<1>1. CASE Services_
  <2>1. spoiled' \subseteq Clients
    BY <1>1 DEF Services_, hvars, RestTyped
  <2>2. CASE Trigger
    BY <2>1, <2>2 DEF Trigger, svars, RestTyped
  <2>3. ASSUME NEW s \in Services, ServiceStep(s)  PROVE RestTyped'
    <3>1. UNCHANGED deleting /\ (UNCHANGED faults \/ Fault)
      BY <2>3 DEF ServiceStep, Poll, EndBatch, Take, CollectAndGenerate, Synthesize, Makes, Insert,
                  Persist, Announce
    <3> QED  BY <2>1, <3>1, FaultTyped DEF RestTyped
  <2>4. ASSUME NEW d \in Deleters, Delete(d)  PROVE RestTyped'
    <3>1. deleting' = {d} /\ Fault
      BY <2>4 DEF Delete
    <3> QED  BY <1>0, <2>1, <3>1, FaultTyped DEF RestTyped
  <2> QED  BY <1>1, <2>2, <2>3, <2>4 DEF Services_, ServicesNext
<1>2. CASE Hub
  <2>1. UNCHANGED <<deleting, faults>>
    BY <1>2 DEF Hub, svars
  <2>2. spoiled' \subseteq Clients
    BY <1>2 DEF Hub, HubNext, PollBus, Connect, Ping, ApplyControl, Close, Lag, Forward, RestTyped
  <2> QED  BY <2>1, <2>2 DEF RestTyped
<1>3. CASE Restart
  BY <1>0, <1>3, FaultTyped DEF Restart, ServicesRestart, HubRestart, RestTyped
<1>4. CASE UNCHANGED vars
  BY <1>4 DEF vars, svars, hvars, RestTyped
<1> QED  BY <1>1, <1>2, <1>3, <1>4 DEF Next

(* The services, their repositories, the channel and the connections are   *)
(* what their types say, and what a client was sent is in the channel      *)
(* (TypeOK).                                                               *)
THEOREM TypeCorrect == Spec => []TypeOK
<1> DEFINE Inv == OrderInv /\ DiskInv /\ HubInv /\ ReceivedInOrder /\ RestTyped
<1>1. Init => Inv
  BY InitOrder, InitDisk, InitHub, InitReceives, InitRest
<1>2. Inv /\ [Next]_vars => Inv'
  <2> SUFFICES ASSUME Inv, [Next]_vars  PROVE Inv'
    OBVIOUS
  <2>1. OrderInv'
    BY NextOrder
  <2> QED  BY <2>1, NextDisk, NextHub, NextReceives, NextRest
<1>3. Inv => TypeOK
  <2> SUFFICES ASSUME Inv  PROVE TypeOK
    OBVIOUS
  <2>1. ServicesTypeOK
    <3>1. cursor \in [Services -> 0..Len(log)]
      BY DEF OrderInv, Typed
    <3> QED  BY <3>1 DEF OrderInv, Typed, PCs, DiskInv, FilesTyped, RestTyped, ServicesTypeOK
  <2>2. Len(sent) \in Nat /\ Len(log) \in Nat
    BY DEF OrderInv, Typed, HubInv, HubTyped
  <2>3. ASSUME NEW c \in Clients  PROVE got[c] \in Seq(1..Len(sent))
    <3>1. got[c] \in Seq(Nat) /\ start[c] \in Nat /\ pos[c] \in Nat /\ pos[c] <= Len(sent)
      BY DEF HubInv, HubTyped, InChannel
    <3>2. \A k \in DOMAIN got[c] : got[c][k] \in Nat
      BY <3>1, LenProperties, ElementOfSeq
    <3>3. \A k \in DOMAIN got[c] : got[c][k] \in 1..Len(sent)
      BY <2>2, <3>1, <3>2 DEF ReceivedInOrder, Ascending
    <3>4. Len(got[c]) \in Nat /\ got[c] = [k \in 1..Len(got[c]) |-> got[c][k]]
      BY <3>1, LenProperties
    <3>5. \A k \in 1..Len(got[c]) : got[c][k] \in 1..Len(sent)
      BY <3>3, <3>4
    <3>6. got[c] \in [1..Len(got[c]) -> 1..Len(sent)]
      BY <3>4, <3>5
    <3> QED  BY <3>4, <3>6
  <2>4. got \in [Clients -> Seq(1..Len(sent))]
    BY <2>3 DEF HubInv, HubTyped
  <2>5. HubTypeOK
    BY <2>2, <2>4 DEF HubInv, HubTyped, InChannel, RestTyped, HubTypeOK
  <2> QED  BY <2>1, <2>5 DEF TypeOK
<1> HIDE DEF Inv
<1> QED  BY <1>1, <1>2, <1>3, PTL DEF Spec
===============================================================================
