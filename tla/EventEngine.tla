------------------------------ MODULE EventEngine ------------------------------
(***************************************************************************)
(* The event engine of src/crates/correlation/src/engine.rs on top of the  *)
(* file-backed EventRepository, with its two writers: the engine, which    *)
(* only the pipeline worker calls, one call at a time, and the clients of  *)
(* the API route that resolves an event (api-gateway/src/routes/events.rs). *)
(*                                                                         *)
(* The engine matches claims against a cache of the repository that it     *)
(* reads anew when it is more than a second old; "fresh" says whether it   *)
(* would not.  Importance, confidence, titles and notes are left out; the  *)
(* words of a claim and of an event's title and description matter only by *)
(* how much they overlap.  Claims of low confidence are dropped before     *)
(* anything happens and are not in Claims.  No code gives an event the     *)
(* status Evolving, Archived or Merged.                                    *)
(***************************************************************************)
EXTENDS EventRepository

CONSTANTS Entities, NoEntity,
          Subject, Object,    \* the entities of a claim
          Place, NoPlace,     \* the location of a claim
          Words,              \* Words[f][c]: tenths of c's words that are in
                              \* the title or description of an event f founded
          Within,             \* pairs of entities, the first part of the second's name
          StabilityHours,     \* EventEngineConfig::stability_hours
          Nobody, NoClaim,    \* no event read, no claim in hand
          MaxIngests, MaxHours, MaxFaults   \* bounds

ASSUME EngineAssumption ==
    /\ Subject \in [Claims -> Entities]
    /\ Object \in [Claims -> Entities \cup {NoEntity}]
    /\ Place \in [Claims -> Places] /\ NoPlace \in Places
    /\ Words \in [Claims -> [Claims -> 0..10]]
    /\ StabilityHours \in Nat
    /\ NoEntity \notin Entities
    /\ Nobody \notin Events /\ NoClaim \notin Claims
    /\ MaxIngests \in Nat /\ MaxHours \in Nat /\ MaxFaults \in Nat

VARIABLES hour,     \* the clock
          cache, fresh,   \* EventEngine::cache; last_refresh is at most a second ago
          call,     \* the engine's call in progress
          batch,    \* the events it will write to the repository
          claim,    \* the claim being ingested
          copy,     \* the event each client has read and will write back
          (* history *)
          ingests,  \* ingestions begun; the last is the id of the event it creates
          acked,    \* claims whose ingestion returned Ok
          faults    \* restarts and failed flushes

evars == <<hour, cache, fresh, call, batch, claim, copy>>
hvars == <<ingests, acked, faults>>
vars == <<rvars, evars, hvars>>

Calls == {"none", "matching", "saving", "transitioning", "replacing", "flushing"}

TypeOK ==
    /\ RepositoryTypeOK
    /\ hour \in Nat
    /\ cache \subseteq Events
    /\ fresh \in BOOLEAN
    /\ call \in Calls
    /\ batch \subseteq Events
    /\ claim \in Claims \cup {NoClaim}
    /\ copy \in [Clients -> Events \cup {Nobody}]
    /\ ingests \in 0..MaxIngests
    /\ acked \subseteq Claims
    /\ faults \in 0..MaxFaults

Init ==
    /\ RepositoryInit
    /\ hour = 0 /\ cache = {} /\ fresh = FALSE /\ call = "none" /\ batch = {}
    /\ claim = NoClaim
    /\ copy = [r \in Clients |-> Nobody]
    /\ ingests = 0 /\ acked = {} /\ faults = 0

-----------------------------------------------------------------------------
(* Matching.                                                               *)

EntitiesOf(e) == (UNION {{Subject[c], Object[c]} : c \in e.claims}) \ {NoEntity}

(* entity_overlap, in tenths. *)
EntityOverlap(e, entity) ==
    IF entity = NoEntity THEN 0
    ELSE IF entity \in EntitiesOf(e) THEN 10
    ELSE IF \E other \in EntitiesOf(e) : <<other, entity>> \in Within THEN 6
    ELSE 0

(* similarity, in hundredths. *)
Similarity(e, c) ==
    LET score == 5 * EntityOverlap(e, Subject[c]) + 3 * EntityOverlap(e, Object[c])
                 + 2 * Words[e.founder][c]
                 + (IF e.place = Place[c] /\ e.place # NoPlace THEN 20 ELSE 0)
    IN  IF score > 100 THEN 100 ELSE score

AutoMergeThreshold == 70

AcceptsClaims(e) == e.status # "Resolved"

(* The candidates that come first; equal scores are in no definite order.  *)
BestMatches(store, c) ==
    LET open_ == {e \in store : AcceptsClaims(e)}
    IN  {e \in open_ : /\ Similarity(e, c) >= AutoMergeThreshold
                       /\ \A f \in open_ : Similarity(f, c) <= Similarity(e, c)}

(* transition_status. *)
TransitionStatus(e) ==
    IF e.status = "Resolved" THEN e
    ELSE [e EXCEPT !.status = IF hour - e.last >= StabilityHours THEN "Stable"
                              ELSE IF e.count >= 3 THEN "Active" ELSE @]

TransitionAll(store) == {TransitionStatus(e) : e \in store}

MergeClaim(e, c) ==
    [id |-> e.id, founder |-> e.founder, claims |-> e.claims \cup {c},
     count |-> e.count + 1,
     place |-> IF e.place = NoPlace THEN Place[c] ELSE e.place,
     status |-> IF e.count + 1 >= 3 THEN "Active" ELSE "Forming",
     last |-> hour]

NewEvent(c) ==
    [id |-> ingests, founder |-> c, claims |-> {c}, count |-> 1, place |-> Place[c],
     status |-> "Forming", last |-> hour]

-----------------------------------------------------------------------------
(* The engine.                                                             *)

(* refresh_cache. *)
RefreshCache == cache' = (IF fresh THEN cache ELSE mem) /\ fresh' = TRUE

Ingest(c) ==
    /\ call = "none"
    /\ ingests < MaxIngests
    /\ ingests' = ingests + 1
    /\ RefreshCache
    /\ claim' = c
    /\ call' = "matching"
    /\ UNCHANGED <<rvars, hour, batch, copy, acked, faults>>

(* The event a claim ends in: its best match with the claim merged into    *)
(* it, or a new one.                                                       *)
Folded(store, c) ==
    LET best == BestMatches(store, c)
    IN  IF best = {} THEN {NewEvent(c)} ELSE {MergeClaim(e, c) : e \in best}

(* Mutant: the event is saved but not cached. *)
Match_NotCached ==
    /\ call = "matching"
    /\ \E e \in Folded(TransitionAll(cache), claim) : batch' = {e}
    /\ cache' = TransitionAll(cache)
    /\ call' = "saving"
    /\ UNCHANGED <<rvars, hour, fresh, claim, copy, hvars>>

(* The statuses of the whole cache are brought up to date, but of what     *)
(* changed only the claim's event is saved.                                *)
Match ==
    /\ call = "matching"
    /\ \E e \in Folded(TransitionAll(cache), claim) :
           cache' = Put(TransitionAll(cache), e) /\ batch' = {e}
    /\ call' = "saving"
    /\ UNCHANGED <<rvars, hour, fresh, claim, copy, hvars>>

SaveEvent ==
    /\ call = "saving"
    /\ \E e \in batch : mem' = Put(mem, e)
    /\ To(Engine, "serialize")
    /\ call' = "flushing"
    /\ UNCHANGED <<disk, tmp, json, open, hour, cache, fresh, batch, claim, copy, hvars>>

(* run_maintenance. *)
Maintain ==
    /\ call = "none"
    /\ RefreshCache
    /\ call' = "transitioning"
    /\ UNCHANGED <<rvars, hour, batch, claim, copy, hvars>>

(* Only if a status changed is the cache, all of it, written back.         *)
TransitionCache ==
    /\ call = "transitioning"
    /\ cache' = TransitionAll(cache)
    /\ IF cache' = cache
       THEN call' = "none" /\ UNCHANGED batch
       ELSE call' = "replacing" /\ batch' = cache'
    /\ UNCHANGED <<rvars, hour, fresh, claim, copy, hvars>>

(* Mutant: the replaced map is not flushed. *)
ReplaceAll_NoFlush ==
    /\ call = "replacing"
    /\ mem' = batch
    /\ To(Engine, "saved")
    /\ call' = "flushing"
    /\ UNCHANGED <<disk, tmp, json, open, hour, cache, fresh, batch, claim, copy, hvars>>

ReplaceAll ==
    /\ call = "replacing"
    /\ mem' = batch
    /\ To(Engine, "serialize")
    /\ call' = "flushing"
    /\ UNCHANGED <<disk, tmp, json, open, hour, cache, fresh, batch, claim, copy, hvars>>

(* Mutant: a call returns Ok whatever became of its flush. *)
CallReturns_AlwaysOk ==
    /\ call = "flushing"
    /\ stage[Engine] \in {"saved", "failed"}
    /\ acked' = acked \cup ({claim} \ {NoClaim})
    /\ call' = "none" /\ batch' = {} /\ claim' = NoClaim
    /\ To(Engine, "idle")
    /\ UNCHANGED <<mem, disk, tmp, json, open, hour, cache, fresh, copy, ingests, faults>>

(* The call returns what the flush returned. *)
CallReturns ==
    /\ call = "flushing"
    /\ stage[Engine] \in {"saved", "failed"}
    /\ acked' = IF stage[Engine] = "saved" THEN acked \cup ({claim} \ {NoClaim}) ELSE acked
    /\ call' = "none" /\ batch' = {} /\ claim' = NoClaim
    /\ To(Engine, "idle")
    /\ UNCHANGED <<mem, disk, tmp, json, open, hour, cache, fresh, copy, ingests, faults>>

-----------------------------------------------------------------------------
(* The clients of resolve_event: the event is read, *)
GetEvent(r) ==
    /\ copy[r] = Nobody
    /\ \E e \in mem : copy' = [copy EXCEPT ![r] = e]
    /\ UNCHANGED <<rvars, hour, cache, fresh, call, batch, claim, hvars>>

(* and written back, resolved, whatever it has become meanwhile.           *)
SaveResolved(r) ==
    /\ copy[r] # Nobody /\ stage[r] = "idle"
    /\ mem' = Put(mem, [copy[r] EXCEPT !.status = "Resolved"])
    /\ To(r, "serialize")
    /\ UNCHANGED <<disk, tmp, json, open, evars, hvars>>

Respond(r) ==
    /\ stage[r] \in {"saved", "failed"}
    /\ copy' = [copy EXCEPT ![r] = Nobody]
    /\ To(r, "idle")
    /\ UNCHANGED <<mem, disk, tmp, json, open, hour, cache, fresh, call, batch, claim, hvars>>

-----------------------------------------------------------------------------
(* More than a second passes since the cache was read; an hour passes.     *)
CacheExpires == fresh /\ fresh' = FALSE
                /\ UNCHANGED <<rvars, hour, cache, call, batch, claim, copy, hvars>>

Tick ==
    /\ hour < MaxHours
    /\ hour' = hour + 1 /\ fresh' = FALSE
    /\ UNCHANGED <<rvars, cache, call, batch, claim, copy, hvars>>

FlushStep(w) == Flush(w) /\ UNCHANGED <<evars, hvars>>

Fault == faults < MaxFaults /\ faults' = faults + 1

FlushFault(w) == Fault /\ FlushFails(w) /\ UNCHANGED <<evars, ingests, acked>>

Restart ==
    /\ Fault
    /\ Reload
    /\ cache' = {} /\ fresh' = FALSE
    /\ call' = "none" /\ batch' = {} /\ claim' = NoClaim
    /\ copy' = [r \in Clients |-> Nobody]
    /\ UNCHANGED <<hour, ingests, acked>>

EngineStep ==
    \/ \E c \in Claims : Ingest(c)
    \/ Match \/ SaveEvent \/ Maintain \/ TransitionCache \/ ReplaceAll \/ CallReturns

ClientStep(r) == GetEvent(r) \/ SaveResolved(r) \/ Respond(r)

Next ==
    \/ EngineStep
    \/ \E r \in Clients : ClientStep(r)
    \/ \E w \in Writers : FlushStep(w) \/ FlushFault(w)
    \/ CacheExpires \/ Tick \/ Restart

Spec == Init /\ [][Next]_vars

-----------------------------------------------------------------------------
(* Properties.                                                             *)

ClaimsIn(store) == UNION {e.claims : e \in store}

(* A claim whose ingestion returned Ok is in the file, whatever failed or  *)
(* was interrupted since, and in the memory that answers queries: merging, *)
(* maintenance's replacement of the whole map and a restart keep it.  (For *)
(* the engine alone; a client's stale copy may overwrite a merge.)         *)
AckedIsKept == acked \subseteq ClaimsIn(Load(disk)) \cap ClaimsIn(mem)

(* store.rs:90 "Events are loaded from disk on first access and flushed    *)
(* after every write": once nobody writes the file is the map.  (For the   *)
(* engine alone, and until a fault: of two writers the older text may be   *)
(* renamed last.)                                                          *)
Quiet == \A w \in Writers : stage[w] = "idle"
FlushedAfterWrite == Quiet /\ faults = 0 => Load(disk) = mem

(* store.rs:149 "Write to a temp file then rename for atomicity": whatever *)
(* is interrupted, events.json is never a torn text.  It holds for the     *)
(* engine alone; writers that share the temporary file break it.           *)
AtomicReplace == disk # Torn

(* While the process runs no event leaves the repository: maintenance      *)
(* replaces the whole map by a cache that may be out of date, but never by *)
(* one that lacks an event (engine.rs run_maintenance, store.rs            *)
(* replace_all).                                                           *)
EventsKept == [][faults' = faults => Ids(mem) \subseteq Ids(mem')]_mem

=============================================================================
