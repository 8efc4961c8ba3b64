------------------------------- MODULE GraphStore -------------------------------
(***************************************************************************)
(* The two implementations of GraphRepository in src/crates/store/src/kuzu *)
(* side by side, given the same calls: the in-memory stub of the default   *)
(* build (stub.rs) and the Kuzu database of the "kuzu" feature (real.rs).  *)
(* A row of a table is a record under its primary key; a text that is      *)
(* missing is stored as the empty text and read back as missing.           *)
(***************************************************************************)
EXTENDS Options

CONSTANTS EmptyText    \* the empty text

VARIABLES stub, kuzu,
          (* history *)
          missed   \* places in stub.relationships whose save failed in Kuzu or found an end missing

graphVars == <<stub, kuzu, missed>>

EmptyStub == [entities |-> <<>>, claims |-> <<>>, relationships |-> <<>>]
EmptyKuzu == [entities |-> <<>>, claims |-> <<>>, edges |-> <<>>]

Rows(rows) == {rows[k] : k \in DOMAIN rows}

GraphInit == stub = EmptyStub /\ kuzu = EmptyKuzu /\ missed = {}

-----------------------------------------------------------------------------
(* Writing.  A row of Kuzu is merged by its key and then set.              *)

ToEntityRow(e) == [e EXCEPT !.description = Or(@, EmptyText)]
ToClaimRow(c) == [c EXCEPT !.object = Or(@, EmptyText)]

StubSaveEntity(e) == stub' = [stub EXCEPT !.entities = Put(@, e.name, e)]

(* Mutant: an entity that is there keeps what was first said of it.        *)
KuzuSaveEntity_OnCreate(e) ==
    kuzu' = IF e.name \in DOMAIN kuzu.entities THEN kuzu
            ELSE [kuzu EXCEPT !.entities = Put(@, e.name, ToEntityRow(e))]

KuzuSaveEntity(e) == kuzu' = [kuzu EXCEPT !.entities = Put(@, e.name, ToEntityRow(e))]

StubSaveClaim(c) == stub' = [stub EXCEPT !.claims = Put(@, c.text, c)]
KuzuSaveClaim(c) == kuzu' = [kuzu EXCEPT !.claims = Put(@, c.text, ToClaimRow(c))]

(* The stub keeps every relationship it is given.  Kuzu matches both ends  *)
(* first: when one is missing nothing is saved and nothing is said.        *)
StubSaveRelationship(r) == stub' = [stub EXCEPT !.relationships = Append(@, r)]

KuzuHasEnds(r) == {r.from, r.to} \subseteq DOMAIN kuzu.entities

KuzuSaveRelationship(r) ==
    kuzu' = IF KuzuHasEnds(r)
            THEN [kuzu EXCEPT !.edges = Put(@, <<r.from, r.to, r.type>>, [confidence |-> r.confidence])]
            ELSE kuzu

-----------------------------------------------------------------------------
(* Reading.                                                                *)

Optional(text) == IF text = EmptyText THEN None ELSE text
EntityFromRow(row) == [row EXCEPT !.description = Optional(@)]
ClaimFromRow(row) == [row EXCEPT !.object = Optional(@)]

StubEntity(name) == IF name \in DOMAIN stub.entities THEN stub.entities[name] ELSE None
KuzuEntity(name) == IF name \in DOMAIN kuzu.entities THEN EntityFromRow(kuzu.entities[name]) ELSE None
StubClaim(text) == IF text \in DOMAIN stub.claims THEN stub.claims[text] ELSE None
KuzuClaim(text) == IF text \in DOMAIN kuzu.claims THEN ClaimFromRow(kuzu.claims[text]) ELSE None

StubClaimsFor(name) == {c \in Rows(stub.claims) : c.subject = name}
KuzuClaimsFor(name) == {ClaimFromRow(c) : c \in {d \in Rows(kuzu.claims) : d.subject = name}}

(* list_relationships.                                                     *)
StubRelationships == stub.relationships
KuzuRelationships ==
    {[from |-> k[1], to |-> k[2], type |-> k[3], confidence |-> kuzu.edges[k].confidence] :
        k \in DOMAIN kuzu.edges}

(* find_related_entities: the other ends, of the relationships given.      *)
Across(name, from, to) == IF from = name THEN {to} ELSE IF to = name THEN {from} ELSE {}
StubRelated(name, relationships) ==
    (UNION {Across(name, r.from, r.to) : r \in relationships}) \cap DOMAIN stub.entities

(* Mutant: only what the relationship points at is related.                *)
KuzuRelated_Directed(name) == {k[2] : k \in {e \in DOMAIN kuzu.edges : e[1] = name}}

KuzuRelated(name) == UNION {Across(name, k[1], k[2]) : k \in DOMAIN kuzu.edges}
===============================================================================
