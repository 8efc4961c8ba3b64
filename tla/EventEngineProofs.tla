--------------------------- MODULE EventEngineProofs ---------------------------
(***************************************************************************)
(* Theorems about EventEngine, for any claims and any number of clients.   *)
(***************************************************************************)
EXTENDS EventEngine, TLAPS

LEMMA PutType == ASSUME NEW store \in SUBSET Events, NEW e \in Events
                 PROVE  Put(store, e) \subseteq Events
  BY DEF Put

LEMMA PutIds == ASSUME NEW store, NEW e
                PROVE  Ids(Put(store, e)) = Ids(store) \cup {e.id}
<1>1. Ids(Put(store, e)) \subseteq Ids(store) \cup {e.id}
  BY DEF Ids, Put
<1>2. \A f \in store : f.id \in Ids(Put(store, e))
  <2> TAKE f \in store
  <2>1. CASE f.id = e.id  BY <2>1 DEF Ids, Put
  <2>2. CASE f.id # e.id  BY <2>2 DEF Ids, Put
  <2> QED  BY <2>1, <2>2
<1>3. e.id \in Ids(Put(store, e))
  BY DEF Ids, Put
<1> QED  BY <1>1, <1>2, <1>3 DEF Ids

(* A change of status keeps an event's type and its id.                    *)
LEMMA TransitionType == ASSUME NEW e \in Events
                        PROVE  /\ TransitionStatus(e) \in Events
                               /\ TransitionStatus(e).id = e.id
  BY DEF TransitionStatus, Events, Statuses

LEMMA TransitionAllType ==
    ASSUME NEW store \in SUBSET Events
    PROVE  /\ TransitionAll(store) \subseteq Events
           /\ Ids(TransitionAll(store)) = Ids(store)
<1>1. \A e \in store : e \in Events
  OBVIOUS
<1> QED  BY <1>1, TransitionType DEF TransitionAll, Ids

LEMMA MergeType == ASSUME hour \in Nat, EngineAssumption,
                          NEW e \in Events, NEW c \in Claims
                   PROVE  MergeClaim(e, c) \in Events
<1>1. Place[c] \in Places
  BY DEF EngineAssumption
<1>2. /\ e.id \in Nat /\ e.founder \in Claims /\ e.claims \cup {c} \in SUBSET Claims
      /\ e.count \in Nat /\ e.place \in Places
  BY DEF Events
<1> QED  BY <1>1, <1>2 DEF MergeClaim, Events, Statuses

LEMMA NewEventType == ASSUME hour \in Nat, ingests \in Nat, EngineAssumption, NEW c \in Claims
                      PROVE  NewEvent(c) \in Events
<1>1. Place[c] \in Places
  BY DEF EngineAssumption
<1> QED  BY <1>1 DEF NewEvent, Events, Statuses

-----------------------------------------------------------------------------
(* The repository's own steps keep its type and leave the map alone.       *)
LEMMA FlushType ==
    ASSUME NEW w \in Writers, RepositoryTypeOK, Flush(w) \/ FlushFails(w)
    PROVE  RepositoryTypeOK' /\ mem' = mem
<1> USE DEF RepositoryTypeOK, To
<1>e. {} \in Files /\ json[w] \in SUBSET Events /\ json[w] \in Files
  BY DEF Files
<1>1. CASE Serialize(w)  BY <1>1 DEF Serialize, Stages
<1>2. CASE OpenTmp(w)  BY <1>2, <1>e DEF OpenTmp, Stages
<1>3. CASE WriteTmp(w)
  <2>1. disk' \in Files /\ tmp' \in Files
    <3>1. \A old : Outcomes(old, json[w]) \subseteq {json[w], Torn}
      BY DEF Outcomes
    <3>2. Torn \in Files
      BY DEF Files
    <3> QED  BY <1>3, <1>e, <3>1, <3>2 DEF WriteTmp
  <2> QED  BY <1>3, <2>1 DEF WriteTmp, Stages
<1>4. CASE Rename(w)
  <2>1. CASE tmp = NoFile  BY <1>4, <2>1 DEF Rename, Stages
  <2>2. CASE tmp # NoFile
    <3>1. open' \in [Writers -> {"none", "tmp", "disk", "gone"}]
      BY <1>4, <2>2 DEF Rename
    <3>2. disk' \in Files /\ tmp' \in Files
      BY <1>4, <2>2 DEF Rename, Files
    <3> QED  BY <1>4, <2>2, <3>1, <3>2 DEF Rename, Stages
  <2> QED  BY <2>1, <2>2
<1>5. CASE FlushFails(w)  BY <1>5, <1>e DEF FlushFails, Stages
<1> QED  BY <1>1, <1>2, <1>3, <1>4, <1>5 DEF Flush

LEMMA LoadType == ASSUME NEW file \in Files PROVE Load(file) \in SUBSET Events
<1>1. CASE file \in {NoFile, Torn}  BY <1>1 DEF Load
<1>2. CASE file \notin {NoFile, Torn}
  <2>1. file \in SUBSET Events
    BY <1>2 DEF Files
  <2> QED  BY <1>2, <2>1 DEF Load
<1> QED  BY <1>1, <1>2

LEMMA ReloadType ==
    ASSUME RepositoryTypeOK, Reload
    PROVE  RepositoryTypeOK'
<1>1. Torn \in Files
  BY DEF Files
<1>2. disk' \in Files /\ tmp' \in Files
  BY <1>1 DEF RepositoryTypeOK, Reload
<1>3. mem' \subseteq Events
  BY <1>2, LoadType DEF Reload
<1> QED  BY <1>2, <1>3 DEF RepositoryTypeOK, Reload, Stages

(* Saving one event or replacing the map starts a flush.                   *)
LEMMA SaveType ==
    ASSUME NEW w \in Writers, RepositoryTypeOK, mem' \subseteq Events,
           To(w, "serialize"), UNCHANGED <<disk, tmp, json, open>>
    PROVE  RepositoryTypeOK'
  BY DEF RepositoryTypeOK, To, Stages

-----------------------------------------------------------------------------
(* What makes replacing the map safe: no event is known to the repository  *)
(* and not to a cache in use, and clients write back only events that are  *)
(* there.                                                                  *)
InUse == fresh \/ call \in {"matching", "saving", "transitioning", "replacing"}

CacheCovers == InUse => Ids(mem) \subseteq Ids(cache)
BatchCached == /\ call = "saving" => Ids(batch) \subseteq Ids(cache)
               /\ call = "replacing" => batch = cache
CopiesKnown == \A r \in Clients : copy[r] # Nobody => copy[r].id \in Ids(mem)

ClaimInHand == call = "matching" => claim \in Claims

Inv == TypeOK /\ CacheCovers /\ BatchCached /\ CopiesKnown /\ ClaimInHand

LEMMA InitInv == ASSUME EngineAssumption PROVE Init => Inv
<1> SUFFICES ASSUME Init PROVE Inv
  OBVIOUS
<1>1. RepositoryTypeOK
  BY DEF Init, RepositoryInit, RepositoryTypeOK, Stages, Files
<1>2. TypeOK
  <2>1. fresh \in BOOLEAN
    BY DEF Init
  <2> QED  BY <1>1, <2>1 DEF Init, TypeOK, Calls, EngineAssumption
<1>3. CacheCovers /\ BatchCached /\ CopiesKnown /\ ClaimInHand
  BY DEF Init, RepositoryInit, CacheCovers, InUse, BatchCached, CopiesKnown, ClaimInHand, Ids
<1> QED  BY <1>2, <1>3 DEF Inv

LEMMA NextInv ==
    ASSUME EngineAssumption, RepositoryAssumption, Inv, [Next]_vars
    PROVE  Inv'
<1> USE DEF Inv
<1>w. Engine \in Writers /\ Clients \subseteq Writers
  BY DEF Writers
<1>refresh. ASSUME RefreshCache, mem' = mem
            PROVE  cache' \subseteq Events /\ fresh' \in BOOLEAN /\ Ids(mem') \subseteq Ids(cache')
  BY <1>refresh DEF RefreshCache, CacheCovers, InUse, TypeOK, RepositoryTypeOK
<1>1. ASSUME NEW c \in Claims, Ingest(c)
      PROVE  Inv'
  <2>1. cache' \subseteq Events /\ fresh' \in BOOLEAN /\ Ids(mem') \subseteq Ids(cache')
    BY <1>1, <1>refresh DEF Ingest, rvars
  <2>2. TypeOK'
    BY <1>1, <2>1 DEF Ingest, TypeOK, RepositoryTypeOK, rvars, Calls, EngineAssumption
  <2>3. CacheCovers' /\ BatchCached' /\ CopiesKnown' /\ ClaimInHand'
    BY <1>1, <2>1 DEF Ingest, CacheCovers, BatchCached, CopiesKnown, ClaimInHand, rvars
  <2> QED  BY <2>2, <2>3
<1>2. ASSUME Match
      PROVE  Inv'
  <2> DEFINE current == TransitionAll(cache)
  <2>1. current \subseteq Events /\ Ids(current) = Ids(cache)
    BY TransitionAllType DEF TypeOK
  <2>2. claim \in Claims
    BY <1>2 DEF Match, ClaimInHand
  <2>3. PICK e \in Folded(current, claim) : cache' = Put(current, e) /\ batch' = {e}
    BY <1>2 DEF Match
  <2>4. e \in Events
    <3>1. NewEvent(claim) \in Events
      BY <2>2, NewEventType DEF TypeOK
    <3>2. \A b \in BestMatches(current, claim) : MergeClaim(b, claim) \in Events
      BY <2>1, <2>2, MergeType DEF BestMatches, TypeOK
    <3> HIDE DEF current
    <3> QED  BY <2>3, <3>1, <3>2 DEF Folded
  <2>5. cache' \subseteq Events /\ Ids(cache') = Ids(cache) \cup {e.id}
    BY <2>1, <2>3, <2>4, PutType, PutIds
  <2>6. Ids(batch') = {e.id}
    BY <2>3 DEF Ids
  <2> HIDE DEF current
  <2>7. TypeOK'
    BY <1>2, <2>3, <2>4, <2>5 DEF Match, TypeOK, RepositoryTypeOK, rvars, hvars, Calls
  <2>8. CacheCovers' /\ BatchCached' /\ CopiesKnown' /\ ClaimInHand'
    BY <1>2, <2>5, <2>6
       DEF Match, CacheCovers, InUse, BatchCached, CopiesKnown, ClaimInHand, rvars, Ids
  <2> QED  BY <2>7, <2>8
<1>3. ASSUME SaveEvent
      PROVE  Inv'
  <2>1. PICK e \in batch : mem' = Put(mem, e)
    BY <1>3 DEF SaveEvent
  <2>2. mem' \subseteq Events /\ Ids(mem') = Ids(mem) \cup {e.id} /\ e.id \in Ids(batch)
    BY <2>1, PutType, PutIds DEF TypeOK, RepositoryTypeOK, Ids
  <2>3. TypeOK'
    BY <1>3, <1>w, <2>2, SaveType DEF SaveEvent, TypeOK, hvars, Calls
  <2>4. CacheCovers' /\ BatchCached' /\ CopiesKnown' /\ ClaimInHand'
    BY <1>3, <2>2 DEF SaveEvent, CacheCovers, InUse, BatchCached, CopiesKnown, ClaimInHand, Ids
  <2> QED  BY <2>3, <2>4
<1>4. ASSUME Maintain
      PROVE  Inv'
  <2>1. cache' \subseteq Events /\ fresh' \in BOOLEAN /\ Ids(mem') \subseteq Ids(cache')
    BY <1>4, <1>refresh DEF Maintain, rvars
  <2>2. TypeOK'
    BY <1>4, <2>1 DEF Maintain, TypeOK, RepositoryTypeOK, rvars, hvars, Calls
  <2>3. CacheCovers' /\ BatchCached' /\ CopiesKnown' /\ ClaimInHand'
    BY <1>4, <2>1 DEF Maintain, CacheCovers, BatchCached, CopiesKnown, ClaimInHand, rvars
  <2> QED  BY <2>2, <2>3
<1>5. ASSUME TransitionCache
      PROVE  Inv'
  <2>1. cache' \subseteq Events /\ Ids(cache') = Ids(cache)
    BY <1>5, TransitionAllType DEF TransitionCache, TypeOK
  <2>2. TypeOK'
    BY <1>5, <2>1 DEF TransitionCache, TypeOK, RepositoryTypeOK, rvars, hvars, Calls
  <2>3. CacheCovers' /\ BatchCached' /\ CopiesKnown' /\ ClaimInHand'
    BY <1>5, <2>1
       DEF TransitionCache, CacheCovers, InUse, BatchCached, CopiesKnown, ClaimInHand, rvars
  <2> QED  BY <2>2, <2>3
<1>6. ASSUME ReplaceAll
      PROVE  Inv'
  <2>1. mem' = cache /\ Ids(mem) \subseteq Ids(mem')
    BY <1>6 DEF ReplaceAll, BatchCached, CacheCovers, InUse
  <2>2. TypeOK'
    BY <1>6, <1>w, <2>1, SaveType DEF ReplaceAll, TypeOK, hvars, Calls
  <2>3. CacheCovers' /\ BatchCached' /\ CopiesKnown' /\ ClaimInHand'
    BY <1>6, <2>1 DEF ReplaceAll, CacheCovers, BatchCached, CopiesKnown, ClaimInHand
  <2> QED  BY <2>2, <2>3
<1>7. ASSUME CallReturns
      PROVE  Inv'
  <2>1. TypeOK'
    BY <1>7, <1>w DEF CallReturns, TypeOK, RepositoryTypeOK, To, Stages, Calls
  <2>2. CacheCovers' /\ BatchCached' /\ CopiesKnown' /\ ClaimInHand'
    BY <1>7 DEF CallReturns, CacheCovers, InUse, BatchCached, CopiesKnown, ClaimInHand
  <2> QED  BY <2>1, <2>2
<1>8. ASSUME NEW r \in Clients, GetEvent(r)
      PROVE  Inv'
  <2>1. TypeOK'
    BY <1>8 DEF GetEvent, TypeOK, RepositoryTypeOK, rvars, hvars
  <2>2. CacheCovers' /\ BatchCached' /\ CopiesKnown' /\ ClaimInHand'
    BY <1>8 DEF GetEvent, CacheCovers, InUse, BatchCached, CopiesKnown, ClaimInHand, rvars,
                TypeOK, Ids
  <2> QED  BY <2>1, <2>2
<1>9. ASSUME NEW r \in Clients, SaveResolved(r)
      PROVE  Inv'
  <2> DEFINE e == [copy[r] EXCEPT !.status = "Resolved"]
  <2>1. copy[r] \in Events /\ e \in Events /\ e.id = copy[r].id
    BY <1>9 DEF SaveResolved, TypeOK, Events, Statuses
  <2>m. mem' = Put(mem, e) /\ copy[r].id \in Ids(mem)
    BY <1>9 DEF SaveResolved, CopiesKnown
  <2> HIDE DEF e
  <2>i. Ids(Put(mem, e)) = Ids(mem) \cup {e.id}
    BY PutIds
  <2>t. Put(mem, e) \subseteq Events
    BY <2>1, PutType DEF TypeOK, RepositoryTypeOK
  <2>2. mem' \subseteq Events /\ Ids(mem') = Ids(mem)
    BY <2>m, <2>i, <2>t, <2>1
  <2>3. TypeOK'
    BY <1>9, <1>w, <2>2, SaveType DEF SaveResolved, TypeOK, evars, hvars
  <2>4. CacheCovers' /\ BatchCached' /\ CopiesKnown' /\ ClaimInHand'
    BY <1>9, <2>2
       DEF SaveResolved, CacheCovers, InUse, BatchCached, CopiesKnown, ClaimInHand, evars
  <2> QED  BY <2>3, <2>4
<1>10. ASSUME NEW r \in Clients, Respond(r)
       PROVE  Inv'
  <2>1. TypeOK'
    BY <1>10, <1>w DEF Respond, TypeOK, RepositoryTypeOK, To, Stages, hvars
  <2>2. CacheCovers' /\ BatchCached' /\ CopiesKnown' /\ ClaimInHand'
    BY <1>10 DEF Respond, CacheCovers, InUse, BatchCached, CopiesKnown, ClaimInHand, TypeOK
  <2> QED  BY <2>1, <2>2
<1>11. ASSUME NEW w \in Writers, FlushStep(w) \/ FlushFault(w)
       PROVE  Inv'
  <2>1. RepositoryTypeOK' /\ mem' = mem
    BY <1>11, FlushType DEF FlushStep, FlushFault, TypeOK
  <2>2. TypeOK'
    BY <1>11, <2>1 DEF FlushStep, FlushFault, Fault, TypeOK, evars, hvars, EngineAssumption
  <2>3. CacheCovers' /\ BatchCached' /\ CopiesKnown' /\ ClaimInHand'
    BY <1>11, <2>1 DEF FlushStep, FlushFault, CacheCovers, InUse, BatchCached, CopiesKnown,
                       ClaimInHand, evars
  <2> QED  BY <2>2, <2>3
<1>12. ASSUME CacheExpires \/ Tick
       PROVE  Inv'
  <2>r. RepositoryTypeOK'
    BY <1>12 DEF CacheExpires, Tick, TypeOK, RepositoryTypeOK, rvars
  <2>f. fresh' \in BOOLEAN
    BY <1>12 DEF CacheExpires, Tick
  <2>1. TypeOK'
    BY <1>12, <2>r, <2>f DEF CacheExpires, Tick, TypeOK, hvars
  <2>2. CacheCovers' /\ BatchCached' /\ CopiesKnown' /\ ClaimInHand'
    BY <1>12 DEF CacheExpires, Tick, CacheCovers, InUse, BatchCached, CopiesKnown,
                 ClaimInHand, rvars
  <2> QED  BY <2>1, <2>2
<1>13. ASSUME Restart
       PROVE  Inv'
  <2>1. RepositoryTypeOK'
    BY <1>13, ReloadType DEF Restart, TypeOK
  <2>f. fresh' \in BOOLEAN
    BY <1>13 DEF Restart
  <2>2. TypeOK'
    BY <1>13, <2>1, <2>f DEF Restart, Fault, TypeOK, Calls, EngineAssumption
  <2>3. CacheCovers' /\ BatchCached' /\ CopiesKnown' /\ ClaimInHand'
    BY <1>13 DEF Restart, CacheCovers, InUse, BatchCached, CopiesKnown, ClaimInHand
  <2> QED  BY <2>2, <2>3
<1>14. ASSUME UNCHANGED vars
       PROVE  Inv'
  BY <1>14 DEF vars, rvars, evars, hvars, TypeOK, RepositoryTypeOK, CacheCovers, InUse,
               BatchCached, CopiesKnown, ClaimInHand
<1> QED
  BY <1>1, <1>2, <1>3, <1>4, <1>5, <1>6, <1>7, <1>8, <1>9, <1>10, <1>11, <1>12, <1>13, <1>14
     DEF Next, EngineStep, ClientStep

LEMMA SpecInv == ASSUME EngineAssumption, RepositoryAssumption PROVE Spec => []Inv
  BY InitInv, NextInv, PTL DEF Spec

(* The repository, the cache and the clients keep their types: the ids of  *)
(* events, the statuses the code gives and the contents of the two files.  *)
THEOREM TypeCorrect == ASSUME EngineAssumption, RepositoryAssumption
                       PROVE  Spec => []TypeOK
<1>1. Inv => TypeOK
  BY DEF Inv
<1> QED  BY <1>1, SpecInv, PTL

(* No event leaves the repository while the process runs, however many     *)
(* clients resolve events while the engine merges, creates and replaces:   *)
(* the cache may hold old versions of events but lacks none.               *)
THEOREM EventsAlwaysKept == ASSUME EngineAssumption, RepositoryAssumption
                            PROVE  Spec => EventsKept
<1>1. ASSUME Inv, [Next]_vars
      PROVE  [faults' = faults => Ids(mem) \subseteq Ids(mem')]_mem
  <2> USE DEF Inv
  <2>1. ASSUME SaveEvent  PROVE Ids(mem) \subseteq Ids(mem')
    BY <2>1, PutIds DEF SaveEvent
  <2>2. ASSUME ReplaceAll  PROVE Ids(mem) \subseteq Ids(mem')
    BY <1>1, <2>2 DEF ReplaceAll, BatchCached, CacheCovers, InUse
  <2>3. ASSUME NEW r \in Clients, SaveResolved(r)  PROVE Ids(mem) \subseteq Ids(mem')
    BY <2>3, PutIds DEF SaveResolved
  <2>4. ASSUME Restart  PROVE faults' # faults
    BY <1>1, <2>4 DEF Restart, Fault, TypeOK
  <2>5. ASSUME NEW w \in Writers, FlushStep(w) \/ FlushFault(w)  PROVE mem' = mem
    BY <1>1, <2>5, FlushType DEF FlushStep, FlushFault, TypeOK
  <2> QED
    BY <1>1, <2>1, <2>2, <2>3, <2>4, <2>5
       DEF Next, EngineStep, ClientStep, Ingest, Match, Maintain, TransitionCache, CallReturns,
           GetEvent, Respond, CacheExpires, Tick, vars, rvars
<1> QED  BY <1>1, SpecInv, PTL DEF Spec, EventsKept

-----------------------------------------------------------------------------
(* The engine alone.  Its flush writes the map it has just changed, and    *)
(* nobody else opens the files.                                            *)
(* No client resolves events, and a file that is missing or does not parse *)
(* is no set of events.                                                    *)
Alone == Clients = {} /\ NoFile # Torn /\ {NoFile, Torn} \cap SUBSET Events = {}

FlushInv ==
    /\ stage[Engine] # "idle" <=> call = "flushing"
    /\ stage[Engine] = "write" => tmp = {}
    /\ open[Engine] = (IF stage[Engine] = "write" THEN "tmp" ELSE "none")
    /\ stage[Engine] \in {"open", "write"} => json[Engine] = mem
    /\ stage[Engine] = "rename" => tmp = mem
    /\ stage[Engine] = "saved" => disk = mem
    /\ disk # Torn
    /\ faults = 0 => /\ stage[Engine] # "failed"
                     /\ stage[Engine] = "idle" => Load(disk) = mem

LEMMA LoadsItself ==
    ASSUME Alone, NEW store \in SUBSET Events
    PROVE  store \notin {NoFile, Torn} /\ Load(store) = store
<1>1. store \notin {NoFile, Torn}
  BY DEF Alone
<1> QED  BY <1>1 DEF Load

(* The steps of the flush itself.                                          *)
LEMMA FlushAlone ==
    ASSUME Alone, RepositoryTypeOK, FlushInv,
           UNCHANGED call, NEW w \in Writers,
           \/ Flush(w) /\ UNCHANGED faults
           \/ FlushFails(w) /\ faults' # 0
    PROVE  FlushInv'
<1>1. w = Engine /\ Writers = {Engine}
  BY DEF Writers, Alone
<1>2. mem \in SUBSET Events /\ mem \notin {NoFile, Torn} /\ Load(mem) = mem
  BY LoadsItself DEF RepositoryTypeOK
<1> USE DEF RepositoryTypeOK, FlushInv, To
<1>3. CASE Serialize(w) /\ UNCHANGED faults
  BY <1>1, <1>3 DEF Serialize
<1>4. CASE OpenTmp(w) /\ UNCHANGED faults
  BY <1>1, <1>4 DEF OpenTmp
<1>5. CASE WriteTmp(w) /\ UNCHANGED faults
  <2>1. open[Engine] = "tmp" /\ tmp = {} /\ json[Engine] = mem
    BY <1>1, <1>5 DEF WriteTmp
  <2>2. tmp' = mem /\ disk' = disk
    BY <1>1, <1>5, <2>1 DEF WriteTmp, Outcomes
  <2> QED  BY <1>1, <1>5, <2>2 DEF WriteTmp
<1>6. CASE Rename(w) /\ UNCHANGED faults
  <2>1. tmp = mem /\ tmp # NoFile /\ open[Engine] = "none"
    BY <1>1, <1>2, <1>6 DEF Rename
  <2>2. /\ disk' = mem /\ mem' = mem /\ stage' = [stage EXCEPT ![Engine] = "saved"]
        /\ open'[Engine] = "none"
    BY <1>1, <1>6, <2>1 DEF Rename
  <2>3. /\ stage'[Engine] = "saved" /\ UNCHANGED <<call, faults>> /\ stage[Engine] = "rename"
        /\ disk' # Torn
    BY <1>1, <1>2, <1>6, <2>2 DEF Rename
  <2> QED  BY <2>2, <2>3
<1>7. CASE FlushFails(w) /\ faults' # 0
  BY <1>1, <1>7 DEF FlushFails
<1> QED  BY <1>3, <1>4, <1>5, <1>6, <1>7 DEF Flush

LEMMA FlushInvNext ==
    ASSUME EngineAssumption, RepositoryAssumption, Alone, Inv, FlushInv, [Next]_vars
    PROVE  FlushInv'
<1>1. Writers = {Engine}
  BY DEF Writers, Alone
<1>2. RepositoryTypeOK /\ faults \in Nat
  BY DEF Inv, TypeOK, EngineAssumption
<1>3. ASSUME UNCHANGED <<rvars, faults>>, call # "flushing", call' # "flushing"  PROVE FlushInv'
  BY <1>3 DEF FlushInv, rvars
<1>4. CASE Match \/ Maintain \/ TransitionCache \/ \E c \in Claims : Ingest(c)
  BY <1>3, <1>4 DEF Match, Maintain, TransitionCache, Ingest, hvars
<1>5. CASE SaveEvent \/ ReplaceAll
  <2>1. /\ stage' = [stage EXCEPT ![Engine] = "serialize"] /\ call' = "flushing"
        /\ UNCHANGED <<disk, tmp, json, open, faults>> /\ stage[Engine] = "idle"
    BY <1>5 DEF SaveEvent, ReplaceAll, To, hvars, FlushInv
  <2> QED  BY <1>1, <1>2, <2>1 DEF FlushInv, RepositoryTypeOK
<1>6. CASE CallReturns
  <2>1. /\ stage' = [stage EXCEPT ![Engine] = "idle"] /\ call' = "none"
        /\ UNCHANGED <<mem, disk, tmp, json, open, faults>> /\ stage[Engine] \in {"saved", "failed"}
    BY <1>6 DEF CallReturns, To
  <2>2. stage[Engine] = "saved" => Load(disk) = mem
    BY <1>2, LoadsItself DEF FlushInv, RepositoryTypeOK
  <2> QED  BY <1>1, <1>2, <2>1, <2>2 DEF FlushInv, RepositoryTypeOK
<1>7. CASE CacheExpires \/ Tick \/ UNCHANGED vars
  <2>1. UNCHANGED <<rvars, faults, call>>
    BY <1>7 DEF CacheExpires, Tick, vars, hvars, evars
  <2> QED  BY <2>1 DEF FlushInv, rvars
<1>8. ASSUME NEW w \in Writers, FlushStep(w) \/ FlushFault(w)  PROVE FlushInv'
  <2>1. \/ Flush(w) /\ UNCHANGED <<call, faults>>
        \/ FlushFails(w) /\ UNCHANGED call /\ faults' = faults + 1
    BY <1>8 DEF FlushStep, FlushFault, Fault, evars, hvars
  <2> QED  BY <1>2, <2>1, FlushAlone
<1>9. CASE Restart
  <2>1. /\ stage' = [w \in Writers |-> "idle"] /\ open' = [w \in Writers |-> "none"]
        /\ call' = "none" /\ faults' # 0 /\ disk' = disk
    BY <1>1, <1>2, <1>9 DEF Restart, Reload, Fault, FlushInv
  <2> QED  BY <1>1, <2>1 DEF FlushInv
<1> QED
  BY <1>4, <1>5, <1>6, <1>7, <1>8, <1>9 DEF Next, EngineStep, Alone

LEMMA FlushInvInit ==
    ASSUME EngineAssumption, RepositoryAssumption, Alone, Init  PROVE FlushInv
<1>1. /\ stage[Engine] = "idle" /\ open[Engine] = "none" /\ call = "none"
      /\ disk = NoFile /\ mem = {}
  BY DEF Init, RepositoryInit, Writers
<1> QED  BY <1>1 DEF FlushInv, Load, Alone

LEMMA SpecFlushInv ==
    ASSUME EngineAssumption, RepositoryAssumption, Alone  PROVE Spec => [](Inv /\ FlushInv)
<1>1. Init => Inv /\ FlushInv
  BY InitInv, FlushInvInit
<1>2. Inv /\ FlushInv /\ [Next]_vars => Inv' /\ FlushInv'
  BY NextInv, FlushInvNext
<1> QED  BY <1>1, <1>2, PTL DEF Spec

(* With one writer a rename is atomic: whatever flush fails or is cut off  *)
(* by a restart, events.json is never a torn text (store.rs flush).        *)
THEOREM ReplaceAlwaysAtomic ==
    ASSUME EngineAssumption, RepositoryAssumption, Alone
    PROVE  Spec => []AtomicReplace
<1>1. FlushInv => AtomicReplace
  BY DEF FlushInv, AtomicReplace
<1> QED  BY <1>1, SpecFlushInv, PTL

(* With one writer, and until a fault, the file is the map whenever no     *)
(* call is writing (store.rs save, replace_all).                           *)
THEOREM AlwaysFlushedAfterWrite ==
    ASSUME EngineAssumption, RepositoryAssumption, Alone
    PROVE  Spec => []FlushedAfterWrite
<1>1. FlushInv => FlushedAfterWrite
  BY DEF FlushInv, FlushedAfterWrite, Quiet, Writers, Alone
<1> QED  BY <1>1, SpecFlushInv, PTL

-----------------------------------------------------------------------------
(* What was acknowledged is kept.  An id names one event of a map, the     *)
(* cache knows every event of the repository with at least its claims, and *)
(* the claim of a call is in what the call writes.                         *)
OneEventPerId(store) == \A e, f \in store : e.id = f.id => e = f
KnownIds(store) == \A e \in store : e.id <= ingests /\ (call = "matching" => e.id < ingests)
Covers(newer, older) == \A f \in older : \E g \in newer : g.id = f.id /\ f.claims \subseteq g.claims

IdsInv ==
    /\ OneEventPerId(mem) /\ OneEventPerId(Load(disk)) /\ OneEventPerId(cache)
    /\ KnownIds(mem) /\ KnownIds(Load(disk)) /\ KnownIds(cache)

CoverInv ==
    /\ InUse => Covers(cache, mem)
    /\ call = "saving" => batch \subseteq cache /\ \E e : batch = {e}

AckInv ==
    /\ acked \subseteq ClaimsIn(Load(disk)) \cap ClaimsIn(mem)
    /\ call \in {"none", "transitioning", "replacing"} => claim = NoClaim
    /\ call = "saving" => claim \in ClaimsIn(batch)
    /\ call = "flushing" => claim \in ClaimsIn(mem) \cup {NoClaim}

KeptInv == IdsInv /\ CoverInv /\ AckInv

(* A change of status changes nothing else.                                *)
LEMMA TransitionKeeps ==
    ASSUME NEW e \in Events
    PROVE  TransitionStatus(e).id = e.id /\ TransitionStatus(e).claims = e.claims
  BY DEF TransitionStatus, Events

LEMMA TransitionAllKeeps ==
    ASSUME NEW store \in SUBSET Events, OneEventPerId(store)
    PROVE  OneEventPerId(TransitionAll(store)) /\ Covers(TransitionAll(store), store)
<1>1. ASSUME NEW a \in TransitionAll(store), NEW b \in TransitionAll(store), a.id = b.id
      PROVE  a = b
  <2>1. PICK e \in store : a = TransitionStatus(e)
    BY DEF TransitionAll
  <2>2. PICK f \in store : b = TransitionStatus(f)
    BY DEF TransitionAll
  <2>3. e.id = f.id
    BY <1>1, <2>1, <2>2, TransitionKeeps
  <2> QED  BY <2>1, <2>2, <2>3 DEF OneEventPerId
<1>2. \A f \in store : TransitionStatus(f) \in TransitionAll(store)
  BY DEF TransitionAll
<1>3. Covers(TransitionAll(store), store)
  BY <1>2, TransitionKeeps DEF Covers
<1> QED  BY <1>1, <1>3 DEF OneEventPerId

LEMMA PutKeeps ==
    ASSUME NEW store, OneEventPerId(store), NEW e
    PROVE  OneEventPerId(Put(store, e))
  BY DEF OneEventPerId, Put

LEMMA PutCovers ==
    ASSUME NEW store, NEW e, \A f \in store : f.id = e.id => f.claims \subseteq e.claims
    PROVE  Covers(Put(store, e), store)
<1>1. ASSUME NEW f \in store  PROVE \E g \in Put(store, e) : g.id = f.id /\ f.claims \subseteq g.claims
  <2>1. CASE f.id = e.id  BY <2>1 DEF Put
  <2>2. CASE f.id # e.id  BY <2>2 DEF Put
  <2> QED  BY <2>1, <2>2
<1> QED  BY <1>1 DEF Covers

LEMMA CoversAll ==
    ASSUME NEW newer, NEW older, Covers(newer, older)
    PROVE  ClaimsIn(older) \subseteq ClaimsIn(newer)
  BY DEF Covers, ClaimsIn

LEMMA CoversOn ==
    ASSUME NEW a, NEW b, NEW c, Covers(a, b), Covers(b, c)  PROVE Covers(a, c)
<1>1. ASSUME NEW f \in c  PROVE \E g \in a : g.id = f.id /\ f.claims \subseteq g.claims
  <2>1. PICK h \in b : h.id = f.id /\ f.claims \subseteq h.claims
    BY DEF Covers
  <2>2. PICK g \in a : g.id = h.id /\ h.claims \subseteq g.claims
    BY DEF Covers
  <2> QED  BY <2>1, <2>2
<1> QED  BY <1>1 DEF Covers

LEMMA CoversItself == ASSUME NEW store PROVE Covers(store, store)
  BY DEF Covers

LEMMA SameIds ==
    ASSUME NEW a, NEW b, Ids(a) = Ids(b)  PROVE \A e \in a : \E f \in b : f.id = e.id
<1> TAKE e \in a
<1>1. e.id \in Ids(b)
  BY DEF Ids
<1> QED  BY <1>1 DEF Ids

(* A call begins with a cache that is in use or a copy of the repository.  *)
LEMMA RefreshKept ==
    ASSUME IdsInv, CoverInv, RefreshCache
    PROVE  OneEventPerId(cache') /\ Covers(cache', mem) /\ cache' \in {cache, mem}
  BY CoversItself DEF IdsInv, CoverInv, RefreshCache, InUse

LEMMA IngestKept ==
    ASSUME EngineAssumption, Inv, KeptInv, NEW c \in Claims, Ingest(c)  PROVE KeptInv'
<1>1. /\ call = "none" /\ call' = "matching" /\ ingests' = ingests + 1 /\ RefreshCache
      /\ UNCHANGED <<mem, disk, batch, acked>>
  BY DEF Ingest, rvars
<1>2. OneEventPerId(cache') /\ Covers(cache', mem) /\ cache' \in {cache, mem}
  BY <1>1, RefreshKept DEF KeptInv
<1>3. ingests \in Nat
  BY DEF Inv, TypeOK, EngineAssumption
<1>4. ASSUME NEW store \in SUBSET Events, \A e \in store : e.id <= ingests
      PROVE  \A e \in store : e.id <= ingests' /\ e.id < ingests'
  BY <1>1, <1>3, <1>4 DEF Events
<1>5. mem \in SUBSET Events /\ Load(disk) \in SUBSET Events /\ cache' \in SUBSET Events
  BY <1>2, LoadType DEF Inv, TypeOK, RepositoryTypeOK
<1>6. /\ \A e \in mem : e.id <= ingests
      /\ \A e \in Load(disk) : e.id <= ingests
      /\ \A e \in cache' : e.id <= ingests
  BY <1>2 DEF KeptInv, IdsInv, KnownIds
<1>7. IdsInv'
  BY <1>1, <1>2, <1>4, <1>5, <1>6 DEF KeptInv, IdsInv, KnownIds, OneEventPerId, Load
<1>8. CoverInv'
  BY <1>1, <1>2 DEF CoverInv, Covers
<1>9. AckInv'
  BY <1>1 DEF KeptInv, AckInv, ClaimsIn, Load
<1> QED  BY <1>7, <1>8, <1>9 DEF KeptInv

LEMMA MatchKept ==
    ASSUME EngineAssumption, Inv, KeptInv, Match  PROVE KeptInv'
<1> DEFINE current == TransitionAll(cache)
<1>1. /\ call = "matching" /\ call' = "saving" /\ UNCHANGED <<mem, disk, acked, claim, ingests>>
      /\ claim \in Claims
  BY DEF Match, rvars, hvars, Inv, ClaimInHand
<1>2. PICK e \in Folded(current, claim) : cache' = Put(current, e) /\ batch' = {e}
  BY DEF Match
<1>3. /\ current \in SUBSET Events /\ OneEventPerId(current) /\ Covers(current, cache)
      /\ Ids(current) = Ids(cache)
  BY TransitionAllType, TransitionAllKeeps DEF Inv, TypeOK, KeptInv, IdsInv
<1>i. ingests \in Nat /\ cache \subseteq Events
  BY DEF Inv, TypeOK, EngineAssumption
<1>k. \A f \in current : f.id \in Nat /\ f.id < ingests
  <2> TAKE f \in current
  <2>1. PICK g \in cache : g.id = f.id
    BY <1>3, SameIds
  <2> QED  BY <1>1, <1>i, <2>1 DEF KeptInv, IdsInv, KnownIds, Events
<1> HIDE DEF current
<1>4. /\ e.id \in Nat /\ e.id <= ingests /\ claim \in e.claims
      /\ \A f \in current : f.id = e.id => f.claims \subseteq e.claims
  <2>1. CASE e = NewEvent(claim)
    <3>1. e.id = ingests /\ claim \in e.claims
      BY <2>1 DEF NewEvent
    <3> QED  BY <1>i, <1>k, <3>1
  <2>2. ASSUME NEW b \in BestMatches(current, claim), e = MergeClaim(b, claim)
        PROVE  /\ e.id \in Nat /\ e.id <= ingests /\ claim \in e.claims
               /\ \A f \in current : f.id = e.id => f.claims \subseteq e.claims
    <3>1. b \in current
      BY DEF BestMatches
    <3>2. e.id = b.id /\ e.claims = b.claims \cup {claim}
      BY <2>2 DEF MergeClaim
    <3>3. \A f \in current : f.id = b.id => f = b
      BY <1>3, <3>1 DEF OneEventPerId
    <3>4. b.id \in Nat /\ b.id <= ingests
      BY <1>i, <1>k, <3>1
    <3> QED  BY <3>2, <3>3, <3>4
  <2> QED  BY <1>2, <2>1, <2>2 DEF Folded
<1>5. OneEventPerId(cache') /\ Covers(cache', current)
  BY <1>2, <1>3, <1>4, PutKeeps, PutCovers
<1>6. Covers(cache', mem)
  BY <1>1, <1>3, <1>5, CoversOn DEF KeptInv, CoverInv, InUse
<1>7. \A f \in cache' : f.id <= ingests
  BY <1>2, <1>4, <1>k, <1>i DEF Put
<1>8. IdsInv'
  BY <1>1, <1>5, <1>7 DEF KeptInv, IdsInv, KnownIds, OneEventPerId, Load
<1>9. CoverInv'
  BY <1>1, <1>2, <1>6 DEF CoverInv, Covers, Put
<1>10. AckInv'
  BY <1>1, <1>2, <1>4 DEF KeptInv, AckInv, ClaimsIn, Load
<1> QED  BY <1>8, <1>9, <1>10 DEF KeptInv

LEMMA SaveEventKept ==
    ASSUME EngineAssumption, Inv, KeptInv, SaveEvent  PROVE KeptInv'
<1>1. /\ call = "saving" /\ call' = "flushing"
      /\ UNCHANGED <<disk, cache, fresh, batch, acked, claim, ingests>>
  BY DEF SaveEvent, hvars
<1>2. PICK e : batch = {e} /\ e \in cache /\ claim \in e.claims
  BY <1>1 DEF KeptInv, CoverInv, AckInv, ClaimsIn
<1>3. mem' = Put(mem, e)
  BY <1>2 DEF SaveEvent
<1>4. \A f \in mem : f.id = e.id => f.claims \subseteq e.claims
  BY <1>1, <1>2 DEF KeptInv, CoverInv, IdsInv, InUse, Covers, OneEventPerId
<1>5. OneEventPerId(mem') /\ Covers(mem', mem)
  BY <1>3, <1>4, PutKeeps, PutCovers DEF KeptInv, IdsInv
<1>6. e \in mem' /\ \A f \in mem' : f = e \/ f \in mem
  BY <1>3 DEF Put
<1>7. IdsInv'
  BY <1>1, <1>2, <1>5, <1>6 DEF KeptInv, IdsInv, KnownIds, OneEventPerId, Load
<1>8. CoverInv'
  <2>1. Covers(cache, mem')
    BY <1>1, <1>2, <1>6 DEF KeptInv, CoverInv, InUse, Covers
  <2> QED  BY <1>1, <2>1 DEF CoverInv, Covers
<1>9. ClaimsIn(mem) \subseteq ClaimsIn(mem')
  BY <1>5, CoversAll
<1>10. AckInv'
  BY <1>1, <1>2, <1>6, <1>9 DEF KeptInv, AckInv, ClaimsIn, Load
<1> QED  BY <1>7, <1>8, <1>10 DEF KeptInv

LEMMA MaintainKept ==
    ASSUME EngineAssumption, Inv, KeptInv, Maintain \/ TransitionCache  PROVE KeptInv'
<1>1. /\ call \in {"none", "transitioning"} /\ call' \in {"none", "transitioning", "replacing"}
      /\ UNCHANGED <<mem, disk, acked, claim, ingests>>
  BY DEF Maintain, TransitionCache, rvars, hvars
<1>2. /\ OneEventPerId(cache') /\ Covers(cache', mem)
      /\ \A e \in cache' : e.id <= ingests
  <2>1. CASE Maintain
    <3>1. OneEventPerId(cache') /\ Covers(cache', mem) /\ cache' \in {cache, mem}
      BY <2>1, RefreshKept DEF KeptInv, Maintain
    <3> QED  BY <3>1 DEF KeptInv, IdsInv, KnownIds
  <2>2. CASE TransitionCache
    <3>1. cache' = TransitionAll(cache) /\ cache \in SUBSET Events /\ Covers(cache, mem)
      BY <2>2 DEF TransitionCache, Inv, TypeOK, KeptInv, CoverInv, InUse
    <3>2. OneEventPerId(cache') /\ Covers(cache', cache) /\ Ids(cache') = Ids(cache)
      BY <3>1, TransitionAllKeeps, TransitionAllType DEF KeptInv, IdsInv
    <3>3. \A e \in cache' : \E f \in cache : f.id = e.id
      BY <3>2, SameIds
    <3> QED  BY <3>1, <3>2, <3>3, CoversOn DEF KeptInv, IdsInv, KnownIds
  <2> QED  BY <2>1, <2>2
<1>3. IdsInv'
  BY <1>1, <1>2 DEF KeptInv, IdsInv, KnownIds, OneEventPerId, Load
<1>4. CoverInv'
  BY <1>1, <1>2 DEF CoverInv, Covers
<1>5. AckInv'
  BY <1>1 DEF KeptInv, AckInv, ClaimsIn, Load
<1> QED  BY <1>3, <1>4, <1>5 DEF KeptInv

LEMMA ReplaceAllKept ==
    ASSUME EngineAssumption, Inv, KeptInv, ReplaceAll  PROVE KeptInv'
<1>1. /\ call = "replacing" /\ call' = "flushing" /\ mem' = cache
      /\ UNCHANGED <<disk, cache, fresh, batch, acked, claim, ingests>>
  BY DEF ReplaceAll, hvars, Inv, BatchCached
<1>2. Covers(cache, mem) /\ Covers(cache, cache)
  BY <1>1, CoversItself DEF KeptInv, CoverInv, InUse
<1>3. IdsInv'
  BY <1>1 DEF KeptInv, IdsInv, KnownIds, OneEventPerId, Load
<1>4. CoverInv'
  BY <1>1, <1>2 DEF CoverInv, Covers
<1>5. ClaimsIn(mem) \subseteq ClaimsIn(mem')
  BY <1>1, <1>2, CoversAll
<1>6. AckInv'
  BY <1>1, <1>5 DEF KeptInv, AckInv, Load
<1> QED  BY <1>3, <1>4, <1>6 DEF KeptInv

(* What a call that returns Ok acknowledges is in the map, and the map is  *)
(* what it has written.                                                    *)
LEMMA CallReturnsKept ==
    ASSUME EngineAssumption, Alone, Inv, FlushInv, KeptInv, CallReturns  PROVE KeptInv'
<1>1. /\ call = "flushing" /\ call' = "none" /\ claim' = NoClaim
      /\ UNCHANGED <<mem, disk, cache, fresh, ingests>>
      /\ acked' = IF stage[Engine] = "saved" THEN acked \cup ({claim} \ {NoClaim}) ELSE acked
  BY DEF CallReturns
<1>2. stage[Engine] = "saved" => Load(disk) = mem
  BY LoadsItself DEF FlushInv, Inv, TypeOK, RepositoryTypeOK
<1>3. IdsInv'
  BY <1>1 DEF KeptInv, IdsInv, KnownIds, OneEventPerId, Load
<1>4. CoverInv'
  BY <1>1 DEF KeptInv, CoverInv, InUse, Covers
<1>5. Load(disk)' = Load(disk) /\ ClaimsIn(mem)' = ClaimsIn(mem)
  BY <1>1 DEF Load, ClaimsIn
<1>6. AckInv'
  BY <1>1, <1>2, <1>5 DEF KeptInv, AckInv
<1> QED  BY <1>3, <1>4, <1>6 DEF KeptInv

(* A flush changes the file into the map or leaves it alone.               *)
LEMMA FlushKept ==
    ASSUME Alone, Inv, FlushInv, KeptInv, NEW w \in Writers, FlushStep(w) \/ FlushFault(w)
    PROVE  KeptInv'
<1>1. w = Engine
  BY DEF Writers, Alone
<1>2. UNCHANGED <<mem, call, cache, fresh, batch, acked, claim, ingests>>
  BY FlushType DEF FlushStep, FlushFault, evars, hvars, Inv, TypeOK
<1>3. Load(disk') \in {Load(disk), mem}
  <2>1. CASE disk' = disk  BY <2>1
  <2>2. CASE Rename(w)
    <3>1. tmp = mem
      BY <1>1, <2>2 DEF Rename, FlushInv
    <3> QED  BY <2>2, <3>1, LoadsItself DEF Rename, Inv, TypeOK, RepositoryTypeOK
  <2>3. CASE WriteTmp(w)
    BY <1>1, <2>3 DEF WriteTmp, FlushInv
  <2> QED
    BY <2>1, <2>2, <2>3 DEF FlushStep, FlushFault, Flush, Serialize, OpenTmp, FlushFails
<1>4. IdsInv'
  BY <1>2, <1>3 DEF KeptInv, IdsInv, KnownIds, OneEventPerId, Load
<1>5. CoverInv'
  BY <1>2 DEF KeptInv, CoverInv, InUse, Covers
<1>6. AckInv'
  BY <1>2, <1>3 DEF KeptInv, AckInv, ClaimsIn, Load
<1> QED  BY <1>4, <1>5, <1>6 DEF KeptInv

LEMMA RestartKept ==
    ASSUME EngineAssumption, Alone, Inv, FlushInv, KeptInv, Restart  PROVE KeptInv'
<1>1. /\ call' = "none" /\ claim' = NoClaim /\ cache' = {} /\ fresh' = FALSE
      /\ UNCHANGED <<acked, ingests>>
  BY DEF Restart
<1>2. disk' = disk
  BY DEF Restart, Reload, FlushInv, Writers, Alone
<1>3. mem' = Load(disk) /\ Load(disk)' = Load(disk)
  BY <1>2 DEF Restart, Reload, Load
<1>4. IdsInv'
  BY <1>1, <1>3 DEF KeptInv, IdsInv, KnownIds, OneEventPerId
<1>5. CoverInv'
  BY <1>1 DEF CoverInv, InUse
<1>6. AckInv'
  BY <1>1, <1>3 DEF KeptInv, AckInv, ClaimsIn
<1> QED  BY <1>4, <1>5, <1>6 DEF KeptInv

LEMMA KeptInvNext ==
    ASSUME EngineAssumption, Alone, Inv, FlushInv, KeptInv, [Next]_vars  PROVE KeptInv'
<1>1. CASE CacheExpires \/ Tick \/ UNCHANGED vars
  <2>1. /\ UNCHANGED <<mem, disk, call, cache, batch, claim, acked, ingests>>
        /\ fresh' \in {fresh, FALSE}
    BY <1>1 DEF CacheExpires, Tick, vars, rvars, evars, hvars
  <2>2. Load(disk)' = Load(disk)
    BY <2>1 DEF Load
  <2>3. IdsInv'
    BY <2>1, <2>2 DEF KeptInv, IdsInv, OneEventPerId, KnownIds
  <2>4. CoverInv'
    <3>1. InUse' => InUse
      BY <2>1 DEF InUse
    <3> QED  BY <2>1, <3>1 DEF KeptInv, CoverInv, Covers
  <2>5. AckInv'
    BY <2>1, <2>2 DEF KeptInv, AckInv, ClaimsIn
  <2> QED  BY <2>3, <2>4, <2>5 DEF KeptInv
<1> QED
  BY <1>1, IngestKept, MatchKept, SaveEventKept, MaintainKept, ReplaceAllKept, CallReturnsKept,
     FlushKept, RestartKept
  DEF Next, EngineStep, Alone

LEMMA KeptInvInit == ASSUME Init PROVE KeptInv
<1>1. /\ mem = {} /\ Load(disk) = {} /\ cache = {} /\ acked = {} /\ call = "none"
      /\ claim = NoClaim /\ fresh = FALSE
  BY DEF Init, RepositoryInit, Load
<1> QED
  BY <1>1 DEF KeptInv, IdsInv, OneEventPerId, KnownIds, CoverInv, InUse, AckInv, ClaimsIn

(* A claim whose ingestion returned Ok stays in the file and in the map,   *)
(* through merges, maintenance's replacement of the whole map, failed      *)
(* flushes and restarts (engine.rs ingest_claim, run_maintenance).         *)
THEOREM AckedAlwaysKept ==
    ASSUME EngineAssumption, RepositoryAssumption, Alone
    PROVE  Spec => []AckedIsKept
<1>1. Init => KeptInv
  BY KeptInvInit
<1>2. Inv /\ FlushInv /\ KeptInv /\ [Next]_vars => KeptInv'
  BY KeptInvNext
<1>3. KeptInv => AckedIsKept
  BY DEF KeptInv, AckInv, AckedIsKept
<1> QED  BY <1>1, <1>2, <1>3, SpecFlushInv, PTL DEF Spec
=============================================================================
