-------------------------------- MODULE Gateway --------------------------------
(***************************************************************************)
(* The requests of src/crates/api-gateway that change what the daemon      *)
(* holds, beside the pipeline worker that extracts documents: changes of   *)
(* the source registry, reloads of the model runtime, and merges of        *)
(* entities, which read the list of extractions, rewrite the copy and put  *)
(* it in the place of the list.                                            *)
(***************************************************************************)
EXTENDS RuntimeExtraction, EntityReads

CONSTANTS Targets   \* names that a merge merges into

VARIABLES merge,     \* per client, the merge it has read the list for
          (* history *)
          gone,      \* names merged away and not mentioned by a document since
          exposed    \* extractions saved between a merge's two steps

mergeVars == <<merge, gone, exposed>>
vars == <<registryVars, handleVars, workVars, mergeVars>>

NoMerge == [step |-> "idle", source |-> None, target |-> None, list |-> <<>>, gone |-> {}, saved |-> 0]

TypeOK ==
    /\ RegistryTypeOK /\ HandleTypeOK /\ WorkTypeOK
    /\ \A c \in Clients : merge[c] = NoMerge \/ merge[c].step = "read"
    /\ exposed \in Nat

Init ==
    /\ RegistryInit /\ HandleInit /\ WorkInit
    /\ merge = [c \in Clients |-> NoMerge] /\ gone = {} /\ exposed = 0

MentionedBy(x) ==
    {e.name : e \in ToSet(x.entities)}
    \cup {k.subject : k \in ToSet(x.claims)} \cup {k.object : k \in ToSet(x.claims)}
    \cup {r.from : r \in ToSet(x.relationships)} \cup {r.to : r \in ToSet(x.relationships)}
Mentioned == UNION {MentionedBy(x) : x \in ToSet(extractions)}

(* merge_entities: a source no document mentions as an entity is refused.  *)
ReadForMerge(c) ==
    /\ merge[c] = NoMerge
    /\ changes < MaxChanges /\ changes' = changes + 1
    /\ \E s \in EntityNames(extractions), t \in Targets :
          /\ s # t
          /\ merge' = [merge EXCEPT ![c] = [step |-> "read", source |-> s, target |-> t,
                                            list |-> extractions, gone |-> gone, saved |-> saved]]
    /\ UNCHANGED <<extractions, gone, exposed>>

Renamed(name, s, t) == IF name = s THEN t ELSE name

(* Mutant: the object of a claim is left as it is.                         *)
RewrittenClaim_Subject(k, s, t) == [k EXCEPT !.subject = Renamed(@, s, t)]

RewrittenClaim(k, s, t) == [k EXCEPT !.subject = Renamed(@, s, t), !.object = Renamed(@, s, t)]
RewrittenRelationship(r, s, t) == [r EXCEPT !.from = Renamed(@, s, t), !.to = Renamed(@, s, t)]

(* The source's entities go, they do not become the target's.              *)
Rewritten(x, s, t) ==
    [x EXCEPT
        !.entities = Filtered(@, LAMBDA e : e.name # s),
        !.claims = [i \in DOMAIN @ |-> RewrittenClaim(@[i], s, t)],
        !.relationships = [i \in DOMAIN @ |-> RewrittenRelationship(@[i], s, t)]]

(* Mutant: extractions left without entities are dropped.                  *)
ReplaceExtractions_Prunes(c) ==
    LET m == merge[c]
    IN  /\ m.step = "read"
        /\ extractions' = Filtered([i \in DOMAIN m.list |-> Rewritten(m.list[i], m.source, m.target)],
                                    LAMBDA x : x.entities # <<>>)
        /\ gone' = (m.gone \cup {m.source}) \ {m.target}
        /\ exposed' = exposed + (saved - m.saved)
        /\ merge' = [merge EXCEPT ![c] = NoMerge]
        /\ UNCHANGED changes

(* replace_extractions: the whole list is the copy read before.            *)
ReplaceExtractions(c) ==
    LET m == merge[c]
    IN  /\ m.step = "read"
        /\ extractions' = [i \in DOMAIN m.list |-> Rewritten(m.list[i], m.source, m.target)]
        /\ gone' = (m.gone \cup {m.source}) \ {m.target}
        /\ exposed' = exposed + (saved - m.saved)
        /\ merge' = [merge EXCEPT ![c] = NoMerge]
        /\ UNCHANGED changes

-----------------------------------------------------------------------------
UnchangedRegistry == UNCHANGED <<sources, file, request, alone, doubtful>>

RegistryRequest(c) ==
    /\ reload[c] = NoReload /\ merge[c] = NoMerge
    /\ RegistryStep(c) /\ UNCHANGED <<handleVars, workVars, mergeVars>>

ReloadRequest(c) ==
    /\ request[c] = Idle /\ merge[c] = NoMerge
    /\ Reload(c) /\ UNCHANGED <<workVars, mergeVars, faults>> /\ UnchangedRegistry

MergeRequest(c) ==
    /\ request[c] = Idle /\ reload[c] = NoReload
    /\ ReadForMerge(c) \/ ReplaceExtractions(c)
    /\ UNCHANGED <<handleVars, archived, work, cycles, saved, faults>> /\ UnchangedRegistry

(* The pipeline worker; the archive grows by somebody's ingestion.         *)
Work ==
    /\ \/ (ArchiveDocument \/ StartCycle \/ NextDocument \/ Infer) /\ UNCHANGED <<runtimes, faults>>
       \/ Answered \/ TimedOut
    /\ UNCHANGED <<swappable, view, reload, strayed, mergeVars, changes>> /\ UnchangedRegistry

Save ==
    /\ SaveExtraction
    /\ gone' = gone \ MentionedBy(extractions'[Len(extractions')])
    /\ UNCHANGED <<handleVars, merge, exposed, changes, faults>> /\ UnchangedRegistry

(* The process ends and starts again; extractions live in memory.          *)
Restart ==
    /\ RegistryRestart
    /\ runtimes' = <<EmptyMetrics, EmptyMetrics>> /\ view' = 1 /\ swappable' = 2
    /\ reload' = [c \in Clients |-> NoReload] /\ strayed' = TRUE
    /\ extractions' = <<>> /\ saved' = 0 /\ work' = NoWork
    /\ merge' = [c \in Clients |-> NoMerge] /\ gone' = {} /\ exposed' = 0
    /\ UNCHANGED <<archived, cycles>>

Next ==
    \/ \E c \in Clients : RegistryRequest(c) \/ ReloadRequest(c) \/ MergeRequest(c)
    \/ Work \/ Save \/ Restart

Spec == Init /\ [][Next]_vars

-----------------------------------------------------------------------------
(* Properties.                                                             *)

(* An extraction that was saved stays, unless a merge had read the list    *)
(* before it was saved and put its copy in place after (entities.rs        *)
(* merge_entities, which takes the store's lock twice); and whatever the   *)
(* runtime's calls come to, and whatever is merged, it has the heuristic's *)
(* relationships, and claims where the heuristic found any (the contract   *)
(* of runtime_extractor.rs, 3 to 5).                                       *)
SavedIsKept ==
    /\ saved - exposed <= Len(extractions) /\ Len(extractions) <= saved
    /\ \A i \in DOMAIN extractions :
          LET x == extractions[i]
              heuristic == Heuristic(CHOOSE d \in ToSet(Documents) : d.id = x.document)
          IN  /\ Len(heuristic.claims) > 0 => Len(x.claims) > 0
              /\ Len(x.relationships) >= Len(heuristic.relationships)

(* A name that was merged away is mentioned nowhere until a document says  *)
(* it again, another merge merges into it, or a merge that had read the    *)
(* list before puts its copy in place (entities.rs merge_entities).        *)
MergedIsGone == gone \cap Mentioned = {}

(* The read-only routes agree on every list there can be (EntityReads).    *)
ReadersAgree == Agree(extractions)
===============================================================================
