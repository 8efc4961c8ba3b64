----------------------------- MODULE Broadcasting -----------------------------
(***************************************************************************)
(* The broadcast and the audio service: src/crates/broadcast and           *)
(* src/crates/audio.  Each polls the bus, handles the new events one after *)
(* the other, adds a record to its repository, writes the repository's     *)
(* file and publishes.  The one's announcement is what the other waits     *)
(* for.                                                                    *)
(*                                                                         *)
(* A broadcast is its identity; what it says (the collected events, the    *)
(* model's text or the template) is left out, and so is the sound, which   *)
(* the stub engine does not make.  delete of the audio repository has no   *)
(* caller in the daemon; it is modelled as the crate offers it.            *)
(***************************************************************************)
EXTENDS MessageBus, FiniteSets

CONSTANTS Torn,                    \* a file that does not parse
          Deleters,                \* callers of FileAudioRepository::delete
          MaxTriggers, MaxFaults   \* bounds

ASSUME BroadcastingAssumption == MaxTriggers \in Nat /\ MaxFaults \in Nat

VARIABLES cursor,    \* last_index of each service
          todo,      \* new_events it has still to go through
          pc,
          current,   \* the record it is making
          cache,     \* the records in memory
          file,      \* the repository's file
          deleting,  \* the deleters that hold the audio cache's write lock
          (* history *)
          handled,   \* the events each service went through
          made,      \* records made so far: ids are fresh
          faults

svars == <<cursor, todo, pc, current, cache, file, deleting, handled, made, faults>>

Services == {"broadcast", "audio"}

(* The records: an audio names its broadcast.                              *)
Record == [id : Nat, of : Nat]
NoRecord == [id |-> 0, of |-> 0]

Envelope == [type : {"generate", "generated", "ready"}, record : Record]

ServicesTypeOK ==
    /\ log \in Seq(Envelope)
    /\ cursor \in [Services -> 0..Len(log)]
    /\ todo \in [Services -> Seq(Envelope)]
    /\ pc \in [Services -> {"waiting", "taking", "inserting", "persisting", "publishing"}]
    /\ current \in [Services -> Record]
    /\ cache \in [Services -> SUBSET Record]
    /\ file \in [Services -> (SUBSET Record) \cup {Torn}]
    /\ deleting \subseteq Deleters /\ Cardinality(deleting) <= 1
    /\ handled \in [Services -> Seq(Envelope)]
    /\ made \in Nat /\ faults \in 0..MaxFaults

ServicesInit ==
    /\ cursor = [s \in Services |-> 0]
    /\ todo = [s \in Services |-> <<>>]
    /\ pc = [s \in Services |-> "waiting"]
    /\ current = [s \in Services |-> NoRecord]
    /\ cache = [s \in Services |-> {}]
    /\ file = [s \in Services |-> {}]
    /\ deleting = {}
    /\ handled = [s \in Services |-> <<>>]
    /\ made = 0 /\ faults = 0

Goto(s, p) == pc' = [pc EXCEPT ![s] = p]
Fault == faults < MaxFaults /\ faults' = faults + 1

(* FileBroadcastRepository::new, FileAudioRepository::new: a file that     *)
(* does not parse is an empty repository.                                  *)
Loaded(f) == IF f = Torn THEN {} ELSE f

(* Mutant: the audio service waits for its own announcement.               *)
Interest_Own(s) == IF s = "broadcast" THEN "generate" ELSE "ready"

(* The events each service acts on, and those it publishes.                *)
Interest(s) == IF s = "broadcast" THEN "generate" ELSE "generated"
Announcement(s) == IF s = "broadcast" THEN "generated" ELSE "ready"
-----------------------------------------------------------------------------
(* POST /broadcasts/generate and the scheduler's job.                      *)
Trigger ==
    /\ Cardinality({i \in DOMAIN log : log[i].type = "generate"}) < MaxTriggers
    /\ Publish([type |-> "generate", record |-> NoRecord])
    /\ UNCHANGED svars

(* Mutant: an event is skipped.                                            *)
Poll_Skips(s) ==
    /\ pc[s] = "waiting" /\ Len(log) > cursor[s]
    /\ todo' = [todo EXCEPT ![s] = SubSeq(log, cursor[s] + 2, Len(log))]
    /\ cursor' = [cursor EXCEPT ![s] = Len(log)]
    /\ Goto(s, "taking")
    /\ UNCHANGED <<log, current, cache, file, deleting, handled, made, faults>>

(* BroadcastService::run, AudioService::run: a tick with new events.       *)
Poll(s) ==
    /\ pc[s] = "waiting" /\ Len(log) > cursor[s]
    /\ todo' = [todo EXCEPT ![s] = NewSince(cursor[s])]
    /\ cursor' = [cursor EXCEPT ![s] = Len(log)]
    /\ Goto(s, "taking")
    /\ UNCHANGED <<log, current, cache, file, deleting, handled, made, faults>>

EndBatch(s) ==
    /\ pc[s] = "taking" /\ todo[s] = <<>>
    /\ Goto(s, "waiting")
    /\ UNCHANGED <<log, cursor, todo, current, cache, file, deleting, handled, made, faults>>

(* A new record for a service to insert, or an error, which is logged and  *)
(* is the end of the event.                                                *)
Makes(s, of) ==
    \/ /\ made' = made + 1
       /\ current' = [current EXCEPT ![s] = [id |-> made + 1, of |-> of]]
       /\ Goto(s, "inserting")
       /\ UNCHANGED faults
    \/ Fault /\ UNCHANGED <<pc, current, made>>

(* generate_and_deliver: the repository of events may fail to list them;   *)
(* generating falls back to the template.                                  *)
CollectAndGenerate == Makes("broadcast", 0)

(* process_broadcast: parses, makes the directory, synthesizes segment by  *)
(* segment and assembles.                                                  *)
Synthesize(event) == Makes("audio", event.record.id)

(* The next event of the batch.                                            *)
Take(s) ==
    /\ pc[s] = "taking" /\ todo[s] # <<>>
    /\ todo' = [todo EXCEPT ![s] = Tail(@)]
    /\ handled' = [handled EXCEPT ![s] = Append(@, Head(todo[s]))]
    /\ IF Head(todo[s]).type # Interest(s)
       THEN UNCHANGED <<pc, current, made, faults>>
       ELSE IF s = "broadcast" THEN CollectAndGenerate ELSE Synthesize(Head(todo[s]))
    /\ UNCHANGED <<log, cursor, cache, file, deleting>>

Unlocked(s) == s = "audio" => deleting = {}

(* insert, under the cache's write lock.                                   *)
Insert(s) ==
    /\ pc[s] = "inserting" /\ Unlocked(s)
    /\ cache' = [cache EXCEPT ![s] = @ \cup {current[s]}]
    /\ Goto(s, "persisting")
    /\ UNCHANGED <<log, cursor, todo, current, file, deleting, handled, made, faults>>

(* Mutant: a failed write is taken for a done one.                         *)
Persist_Ignores(s) ==
    /\ pc[s] = "persisting" /\ Unlocked(s)
    /\ \/ file' = [file EXCEPT ![s] = cache[s]] /\ UNCHANGED faults
       \/ Fault /\ \E f \in {file[s], Torn} : file' = [file EXCEPT ![s] = f]
    /\ Goto(s, "publishing")
    /\ UNCHANGED <<log, cursor, todo, current, cache, deleting, handled, made>>

(* persist, under its read lock: a failure ends the call with the record   *)
(* in memory and nothing announced.                                        *)
Persist(s) ==
    /\ pc[s] = "persisting" /\ Unlocked(s)
    /\ \/ /\ file' = [file EXCEPT ![s] = cache[s]]
          /\ Goto(s, "publishing")
          /\ UNCHANGED faults
       \/ /\ Fault
          /\ \E f \in {file[s], Torn} : file' = [file EXCEPT ![s] = f]
          /\ Goto(s, "taking")
    /\ UNCHANGED <<log, cursor, todo, current, cache, deleting, handled, made>>

(* The bus in memory refuses nothing.                                      *)
Announce(s) ==
    /\ pc[s] = "publishing"
    /\ Publish([type |-> Announcement(s), record |-> current[s]])
    /\ Goto(s, "taking")
    /\ UNCHANGED <<cursor, todo, current, cache, file, deleting, handled, made, faults>>

(* delete: persist asks for the read lock of the cache whose write lock    *)
(* the call still holds, and waits for ever.  It is counted as a fault.    *)
Delete(d) ==
    /\ deleting = {} /\ Fault
    /\ \E r \in cache["audio"] : cache' = [cache EXCEPT !["audio"] = @ \ {r}]
    /\ deleting' = {d}
    /\ UNCHANGED <<log, cursor, todo, pc, current, file, handled, made>>

(* The process dies and starts: the bus is new.                            *)
ServicesRestart ==
    /\ Fault
    /\ log' = <<>>
    /\ \E torn \in SUBSET {s \in Services : pc[s] = "persisting"} :
          /\ file' = [s \in Services |-> IF s \in torn THEN Torn ELSE file[s]]
          /\ cache' = [s \in Services |-> Loaded(file'[s])]
    /\ cursor' = [s \in Services |-> 0]
    /\ todo' = [s \in Services |-> <<>>]
    /\ pc' = [s \in Services |-> "waiting"]
    /\ current' = [s \in Services |-> NoRecord]
    /\ deleting' = {}
    /\ handled' = [s \in Services |-> <<>>]
    /\ UNCHANGED made

ServiceStep(s) ==
    \/ Poll(s) \/ EndBatch(s) \/ Take(s) \/ Insert(s) \/ Persist(s) \/ Announce(s)

ServicesNext == Trigger \/ (\E s \in Services : ServiceStep(s)) \/ (\E d \in Deleters : Delete(d))

ServicesFair == \A s \in Services : WF_<<log, svars>>(ServiceStep(s))
-----------------------------------------------------------------------------
(* Each service goes through the log in order, and through every event of  *)
(* it once: what it did and what it has in hand is what it has read.       *)
InOrderOnce ==
    \A s \in Services : handled[s] \o todo[s] = SubSeq(log, 1, cursor[s])

(* What was announced has been written: a restart loads it, unless a later *)
(* write was torn.                                                         *)
AnnouncedIsOnDisk ==
    \A i \in DOMAIN log, s \in Services :
        log[i].type = Announcement(s) => file[s] = Torn \/ log[i].record \in file[s]

(* Broadcasts that are announced get their audio, unless something fails.  *)
AllSpoken == \A i \in DOMAIN log : log[i].type = "generated" =>
                 \E r \in cache["audio"] : r.of = log[i].record.id
AnnouncedIsSpoken == ~AllSpoken ~> (AllSpoken \/ faults > 0)
===============================================================================
