---------------------------- MODULE SourceRegistry ----------------------------
(***************************************************************************)
(* The registry of ingestion sources of src/crates/ingestion: definitions  *)
(* by name behind a lock, written whole to sources.json after each change. *)
(* A request changes the map under the lock, takes a snapshot under        *)
(* another, and writes the file under none, so the requests of two clients *)
(* overlap in any way.  A write empties the file before it fills it.       *)
(* Schedules are left out: nothing reads them.                             *)
(***************************************************************************)
EXTENDS Normalizer

CONSTANTS Names,         \* the sources' names
          Types, Urls,   \* what a request registers: an adapter type, and a target or None
          Clients,       \* concurrent requests that change the registry
          Torn,          \* a file that does not parse
          MaxChanges, MaxFaults   \* bounds

SourceType == {"rss", "reddit", "youtube", "hackernews", "arxiv", "web", "podcast", "github",
               "github_releases", "sec_edgar", "static"}

ASSUME RegistryAssumption ==
    Types \subseteq SourceType /\ MaxChanges \in Nat /\ MaxFaults \in Nat

VARIABLES sources,   \* RegistryState::sources, None where there is none
          file,      \* sources.json
          request,   \* per client, its step and the snapshot it writes
          (* history *)
          alone,     \* no other request has run beside this one
          doubtful,  \* since the last request that ran alone, others overlapped or failed
          changes, faults

registryVars == <<sources, file, request, alone, doubtful, changes, faults>>

Source == [type : Types, url : Urls \cup {None}, enabled : BOOLEAN]
Registry == [Names -> Source \cup {None}]
EmptyRegistry == [n \in Names |-> None]
Idle == [step |-> "idle", snapshot |-> EmptyRegistry, mixed |-> FALSE]
Running == {c \in Clients : request[c].step # "idle"}
Writing == {c \in Clients : request[c].step = "writing"}

RegistryTypeOK ==
    /\ sources \in Registry
    /\ file \in Registry \cup {Torn}
    /\ request \in [Clients -> [step : {"idle", "changed", "read", "writing"}, snapshot : Registry,
                                mixed : BOOLEAN]]
    /\ alone \in [Clients -> BOOLEAN] /\ doubtful \in BOOLEAN
    /\ changes \in 0..MaxChanges /\ faults \in 0..MaxFaults

(* SourceRegistry::load: what does not parse is empty.                     *)
Load(content) == IF content = Torn THEN EmptyRegistry ELSE content

RegistryInit ==
    /\ file = EmptyRegistry /\ sources = Load(file)
    /\ request = [c \in Clients |-> Idle]
    /\ alone = [c \in Clients |-> TRUE] /\ doubtful = FALSE
    /\ changes = 0 /\ faults = 0

Fault == faults < MaxFaults /\ faults' = faults + 1

(* A request has changed the map and has still to persist it.              *)
Change(c, n, source) ==
    /\ request[c] = Idle
    /\ changes < MaxChanges /\ changes' = changes + 1
    /\ sources' = [sources EXCEPT ![n] = source]
    /\ request' = [request EXCEPT ![c].step = "changed"]
    /\ alone' = [d \in Clients |-> IF d = c THEN Running = {} ELSE alone[d] /\ request[d] = Idle]
    /\ UNCHANGED <<file, doubtful, faults>>

(* add: a name that is taken is refused.                                   *)
AddSource(c) == \E n \in Names, s \in Source : sources[n] = None /\ Change(c, n, s)

(* update: each field that is given replaces the source's.                 *)
UpdateSource(c) ==
    \E n \in Names :
        /\ sources[n] # None
        /\ \E u \in Urls \cup {sources[n].url}, b \in BOOLEAN :
               Change(c, n, [sources[n] EXCEPT !.url = u, !.enabled = b])

(* Mutant: the file is left as it is.                                      *)
RemoveSource_Unsaved(c) ==
    /\ changes < MaxChanges /\ changes' = changes + 1
    /\ \E n \in Names : sources[n] # None /\ sources' = [sources EXCEPT ![n] = None]
    /\ UNCHANGED <<file, request, alone, doubtful, faults>>

RemoveSource(c) == \E n \in Names : sources[n] # None /\ Change(c, n, None)

(* persist: the snapshot, under the read lock.                             *)
TakeSnapshot(c) ==
    /\ request[c].step = "changed"
    /\ request' = [request EXCEPT ![c] = [step |-> "read", snapshot |-> sources, mixed |-> FALSE]]
    /\ UNCHANGED <<sources, file, alone, doubtful, changes, faults>>

(* persist: fs::write opens the file and empties it, or fails to.          *)
OpenFile(c) ==
    /\ request[c].step = "read"
    /\ \/ /\ file' = Torn
          /\ request' = [request EXCEPT ![c].step = "writing"]
          /\ UNCHANGED <<doubtful, faults>>
       \/ /\ Fault
          /\ request' = [request EXCEPT ![c] = Idle]
          /\ doubtful' = TRUE /\ UNCHANGED file
    /\ UNCHANGED <<sources, alone, changes>>

(* persist: the file is filled.  What another filled since this request    *)
(* emptied it may show behind a shorter text.  A failure is logged.        *)
FillFile(c) ==
    /\ request[c].step = "writing"
    /\ request' = [d \in Clients |->
                      IF d = c THEN Idle
                      ELSE IF d \in Writing THEN [request[d] EXCEPT !.mixed = TRUE] ELSE request[d]]
    /\ \/ file' = request[c].snapshot /\ doubtful' = ~alone[c] /\ UNCHANGED faults
       \/ request[c].mixed /\ file' = Torn /\ doubtful' = TRUE /\ UNCHANGED faults
       \/ Fault /\ file' = Torn /\ doubtful' = TRUE
    /\ UNCHANGED <<sources, alone, changes>>

RegistryStep(c) ==
    \/ AddSource(c) \/ UpdateSource(c) \/ RemoveSource(c)
    \/ TakeSnapshot(c) \/ OpenFile(c) \/ FillFile(c)

(* The process ends and starts again.                                      *)
RegistryRestart ==
    /\ Fault
    /\ sources' = Load(file) /\ UNCHANGED file
    /\ request' = [c \in Clients |-> Idle]
    /\ alone' = [c \in Clients |-> TRUE]
    /\ doubtful' = (Load(file) # file) /\ UNCHANGED changes

-----------------------------------------------------------------------------
(* Between requests the file holds the registry, unless requests           *)
(* overlapped or a write failed since the last request that ran alone (the *)
(* snapshot and the write in SourceRegistry::persist are not one step).    *)
FileHoldsRegistry == Running = {} /\ ~doubtful => file = sources
===============================================================================
