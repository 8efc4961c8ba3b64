---------------------------- MODULE EventRepository ----------------------------
(***************************************************************************)
(* The file-backed event repository of src/crates/correlation/src/store.rs: *)
(* a map in memory behind a lock, and events.json, which every write of    *)
(* the map is followed by a flush to.                                      *)
(*                                                                         *)
(* A flush serialises the map under the read lock, drops the lock, writes  *)
(* the text to events.json.tmp, a path all writers share, and renames that *)
(* to events.json.  Between these steps other writers run.  A writer that  *)
(* has opened the temporary file keeps it open across somebody else's      *)
(* rename, so "open" says where the file it will write to is by then.      *)
(*                                                                         *)
(* A map or a file is a set of events no two of which have the same id; a  *)
(* truncated file is the empty set, as that is what it loads as.           *)
(***************************************************************************)
EXTENDS Naturals, FiniteSets

CONSTANTS Claims,
          Places,    \* locations of claims
          Engine,    \* the two kinds of writers: the event engine
          Clients,   \* and the clients of the route that resolves an event
          NoFile,    \* the path does not exist
          Torn       \* a file that does not parse

ASSUME RepositoryAssumption == Engine \notin Clients

VARIABLES mem,    \* FileEventRepository::events
          disk,   \* events.json
          tmp,    \* events.json.tmp
          stage,  \* where each writer is in a save
          json,   \* the text it is about to write
          open    \* the place of the file it has open

Writers == {Engine} \cup Clients

Statuses == {"Forming", "Active", "Stable", "Resolved"}

(* An event: "founder" is the claim its title and description come from,   *)
(* claims its claim_ids, count its claim_count, last its last_claim_at.    *)
Events == [id : Nat, founder : Claims, claims : SUBSET Claims, count : Nat,
           place : Places, status : Statuses, last : Nat]

rvars == <<mem, disk, tmp, stage, json, open>>

Stages == {"idle", "serialize", "open", "write", "rename", "saved", "failed"}
Files == (SUBSET Events) \cup {NoFile, Torn}

RepositoryTypeOK ==
    /\ mem \subseteq Events
    /\ disk \in Files
    /\ tmp \in Files
    /\ stage \in [Writers -> Stages]
    /\ json \in [Writers -> SUBSET Events]
    /\ open \in [Writers -> {"none", "tmp", "disk", "gone"}]

RepositoryInit ==
    /\ mem = {} /\ disk = NoFile /\ tmp = NoFile
    /\ stage = [w \in Writers |-> "idle"]
    /\ json = [w \in Writers |-> {}]
    /\ open = [w \in Writers |-> "none"]

-----------------------------------------------------------------------------
Ids(store) == {e.id : e \in store}
Put(store, e) == {f \in store : f.id # e.id} \cup {e}

(* load_from_file: nothing there, or nothing that parses, is an empty map. *)
Load(file) == IF file \in {NoFile, Torn} THEN {} ELSE file

To(w, s) == stage' = [stage EXCEPT ![w] = s]

(* The text of a flush is the map as it is now, whoever changed it. *)
Serialize(w) ==
    /\ stage[w] = "serialize"
    /\ json' = [json EXCEPT ![w] = mem]
    /\ To(w, "open")
    /\ UNCHANGED <<mem, disk, tmp, open>>

(* Mutant: the flush opens events.json itself. *)
OpenTmp_InPlace(w) ==
    /\ stage[w] = "open"
    /\ disk' = {}
    /\ open' = [open EXCEPT ![w] = "disk"]
    /\ To(w, "write")
    /\ UNCHANGED <<mem, tmp, json>>

(* fs::write truncates the file, *)
OpenTmp(w) ==
    /\ stage[w] = "open"
    /\ tmp' = {}
    /\ open' = [open EXCEPT ![w] = "tmp"]
    /\ To(w, "write")
    /\ UNCHANGED <<mem, disk, json>>

(* then writes the text from the start of the file: over another writer's  *)
(* text it may leave the end of that behind.                               *)
Outcomes(old, text) == {text} \cup (IF old = {} THEN {} ELSE {Torn})

WriteTmp(w) ==
    /\ stage[w] = "write"
    /\ \/ open[w] = "tmp" /\ tmp' \in Outcomes(tmp, json[w]) /\ UNCHANGED disk
       \/ open[w] = "disk" /\ disk' \in Outcomes(disk, json[w]) /\ UNCHANGED tmp
       \/ open[w] = "gone" /\ UNCHANGED <<disk, tmp>>
    /\ open' = [open EXCEPT ![w] = "none"]
    /\ json' = [json EXCEPT ![w] = {}]
    /\ To(w, "rename")
    /\ UNCHANGED mem

(* The rename fails when another writer has renamed the file already.      *)
Rename(w) ==
    /\ stage[w] = "rename"
    /\ \/ /\ tmp = NoFile
          /\ To(w, "failed")
          /\ UNCHANGED <<disk, tmp, open>>
       \/ /\ tmp # NoFile
          /\ disk' = tmp
          /\ tmp' = NoFile
          /\ open' = [v \in Writers |-> CASE open[v] = "tmp" -> "disk"
                                          [] open[v] = "disk" -> "gone"
                                          [] OTHER -> open[v]]
          /\ To(w, "saved")
    /\ UNCHANGED <<mem, json>>

(* The file system may refuse to open, to write or to rename; what was     *)
(* opened stays truncated.                                                 *)
FlushFails(w) ==
    /\ stage[w] \in {"open", "write", "rename"}
    /\ open' = [open EXCEPT ![w] = "none"]
    /\ json' = [json EXCEPT ![w] = {}]
    /\ To(w, "failed")
    /\ UNCHANGED <<mem, disk, tmp>>

Flush(w) == Serialize(w) \/ OpenTmp(w) \/ WriteTmp(w) \/ Rename(w)

(* The process is started again.  A write in progress may have got half of *)
(* its text into the file.                                                 *)
Reload ==
    /\ \/ UNCHANGED <<disk, tmp>>
       \/ \E w \in Writers : stage[w] = "write" /\ open[w] = "tmp" /\ tmp' = Torn /\ UNCHANGED disk
       \/ \E w \in Writers : stage[w] = "write" /\ open[w] = "disk" /\ disk' = Torn /\ UNCHANGED tmp
    /\ mem' = Load(disk')
    /\ stage' = [w \in Writers |-> "idle"]
    /\ json' = [w \in Writers |-> {}]
    /\ open' = [w \in Writers |-> "none"]
=============================================================================
