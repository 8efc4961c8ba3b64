--------------------------------- MODULE Stores ---------------------------------
(***************************************************************************)
(* The graph and the vector store as the daemon has them: at every start   *)
(* AppState::seed_first_vertical_slice (src/crates/objective/src/app.rs)   *)
(* extracts the documents of the archive and saves each one's entities,    *)
(* claims and relationships in the graph, going on when a save fails.  The *)
(* vector store's callers are any two.                                     *)
(***************************************************************************)
EXTENDS GraphStore, VectorStore, SequencesExt

CONSTANTS Extractions,  \* what the processor can make of a document
          MaxSeeds      \* bound

(* What is extracted are lists of entities, claims and relationships, with *)
(* the fields the stores look at; a vector is none of the absent values.   *)
ASSUME StoresAssumption ==
    /\ MaxSeeds \in Nat /\ MaxFailures \in Nat
    /\ \A x \in Extractions :
          /\ x \in [entities : Seq(ToSet(x.entities)), claims : Seq(ToSet(x.claims)),
                    relationships : Seq(ToSet(x.relationships))]
          /\ \A e \in ToSet(x.entities) : {"name", "description"} \subseteq DOMAIN e
          /\ \A c \in ToSet(x.claims) : {"text", "subject", "object"} \subseteq DOMAIN c
          /\ \A r \in ToSet(x.relationships) :
                r = [from |-> r.from, to |-> r.to, type |-> r.type, confidence |-> r.confidence]
    /\ None \notin DOMAIN Dimension
    /\ \A b \in Batches : b \in Seq([id : Ids, vector : DOMAIN Dimension]) \ {<<>>}

VARIABLES seeding,    \* what is left to be saved of a document, or Seeded
          seeds,
          (* history *)
          lostEntities, lostClaims,   \* whose last save failed in Kuzu
          restarted

lostVars == <<lostEntities, lostClaims>>
storesVars == <<graphVars, vectorVars, seeding, seeds, failures, lostVars, restarted>>

Seeded == [entities |-> <<>>, claims |-> <<>>, relationships |-> <<>>]

StoresInit ==
    /\ GraphInit /\ VectorInit
    /\ seeding = Seeded /\ seeds = 0
    /\ lostEntities = {} /\ lostClaims = {} /\ restarted = FALSE

SeedDocument ==
    /\ seeding = Seeded
    /\ seeds < MaxSeeds /\ seeds' = seeds + 1
    /\ \E x \in Extractions : seeding' = x
    /\ UNCHANGED <<graphVars, failures, lostVars>>

(* A save fails in Kuzu, which the seed only logs.                         *)
SaveFails == failures < MaxFailures /\ failures' = failures + 1 /\ UNCHANGED kuzu

SaveEntity ==
    /\ seeding.entities # <<>>
    /\ LET e == Head(seeding.entities)
       IN  /\ StubSaveEntity(e)
           /\ \/ KuzuSaveEntity(e) /\ lostEntities' = lostEntities \ {e.name} /\ UNCHANGED failures
              \/ SaveFails /\ lostEntities' = lostEntities \cup {e.name}
    /\ seeding' = [seeding EXCEPT !.entities = Tail(@)]
    /\ UNCHANGED <<missed, seeds, lostClaims>>

SaveClaim ==
    /\ seeding.entities = <<>> /\ seeding.claims # <<>>
    /\ LET c == Head(seeding.claims)
       IN  /\ StubSaveClaim(c)
           /\ \/ KuzuSaveClaim(c) /\ lostClaims' = lostClaims \ {c.text} /\ UNCHANGED failures
              \/ SaveFails /\ lostClaims' = lostClaims \cup {c.text}
    /\ seeding' = [seeding EXCEPT !.claims = Tail(@)]
    /\ UNCHANGED <<missed, seeds, lostEntities>>

SaveRelationship ==
    /\ seeding.entities = <<>> /\ seeding.claims = <<>> /\ seeding.relationships # <<>>
    /\ LET r == Head(seeding.relationships)
           place == Len(stub.relationships) + 1
       IN  /\ StubSaveRelationship(r)
           /\ \/ /\ KuzuSaveRelationship(r)
                 /\ missed' = IF KuzuHasEnds(r) THEN missed ELSE missed \cup {place}
                 /\ UNCHANGED failures
              \/ SaveFails /\ missed' = missed \cup {place}
    /\ seeding' = [seeding EXCEPT !.relationships = Tail(@)]
    /\ UNCHANGED <<seeds, lostVars>>

Seed ==
    /\ SeedDocument \/ SaveEntity \/ SaveClaim \/ SaveRelationship
    /\ UNCHANGED <<vectorVars, restarted>>

UseVectors == VectorStep /\ UNCHANGED <<graphVars, seeding, seeds, lostVars, restarted>>

StoresRestart ==
    /\ failures < MaxFailures /\ failures' = failures + 1
    /\ stub' = EmptyStub /\ missed' = {} /\ seeding' = Seeded
    /\ VectorRestart
    /\ restarted' = TRUE
    /\ UNCHANGED <<kuzu, seeds, lostVars>>

StoresNext == Seed \/ UseVectors \/ StoresRestart

StoresSpec == StoresInit /\ [][StoresNext]_storesVars

-----------------------------------------------------------------------------
(* Properties.                                                             *)

(* The one field of each that may be empty, and is missing then in Kuzu.   *)
PlainEntity(e) == [e EXCEPT !.description = Optional(@)]
PlainClaim(c) == [c EXCEPT !.object = Optional(@)]

(* The two builds answer alike: what the stub says of an entity or a claim *)
(* Kuzu says too, but for texts that are empty and for what failed to be   *)
(* saved, and Kuzu knows no more unless it remembers an earlier start      *)
(* (kuzu/mod.rs: "preserves the GraphRepository contract").                *)
GraphsAgree ==
    /\ \A n \in DOMAIN stub.entities \ lostEntities : KuzuEntity(n) = PlainEntity(StubEntity(n))
    /\ \A t \in DOMAIN stub.claims \ lostClaims :
          /\ KuzuClaim(t) = PlainClaim(StubClaim(t))
          /\ PlainClaim(StubClaim(t)) \in KuzuClaimsFor(StubClaim(t).subject)
    /\ ~restarted =>
          /\ DOMAIN kuzu.entities \subseteq DOMAIN stub.entities
          /\ DOMAIN kuzu.claims \subseteq DOMAIN stub.claims
          /\ lostClaims = {} => \A t \in DOMAIN kuzu.claims :
                LET n == kuzu.claims[t].subject
                IN  KuzuClaimsFor(n) = {PlainClaim(c) : c \in StubClaimsFor(n)}

InTime == {i \in DOMAIN StubRelationships : i \notin missed}
Newest(i) ==
    \A j \in InTime : j > i =>
        LET r == stub.relationships[i]
            s == stub.relationships[j]
        IN  <<r.from, r.to, r.type>> # <<s.from, s.to, s.type>>

(* Of the relationships that were saved while their ends were there, both  *)
(* builds have the newest of each type between two entities, and from it   *)
(* know the same neighbours (real.rs save_relationship drops the others).  *)
RelatedAgree ==
    LET newest == {stub.relationships[i] : i \in {j \in InTime : Newest(j)}}
    IN  /\ newest \subseteq KuzuRelationships
        /\ ~restarted => newest = KuzuRelationships
        /\ \A n \in DOMAIN stub.entities :
              /\ StubRelated(n, newest) \subseteq KuzuRelated(n)
              /\ ~restarted => KuzuRelated(n) \subseteq StubRelated(n, newest)

(* A vector that is stored is found in both builds, the same one unless it *)
(* was stored over another, and a deleted one in neither; but for those    *)
(* whose last addition failed in LanceDB, or was refused because the table *)
(* was created in between or has another dimension, and for rows of an     *)
(* earlier start or whose deletion failed or found no table (lancedb.rs    *)
(* store_vectors, delete_vector, get_or_open_table).                       *)
VectorsAgree ==
    \A i \in Ids \ failed :
        /\ StubVector(i) # None => LanceVector(i) # None
        /\ StubVector(i) # None /\ i \notin again => LanceVector(i) = StubVector(i)
        /\ StubVector(i) = None /\ i \notin left => LanceVector(i) = None
===============================================================================
