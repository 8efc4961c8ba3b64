------------------------------ MODULE EntityReads ------------------------------
(***************************************************************************)
(* The read-only routes over the extraction results: each goes through the *)
(* list in a way of its own, src/crates/api-gateway/src/routes/entities.rs, *)
(* claims.rs, export.rs and search.rs.  Orders by name are left            *)
(* out; averages are sums and counts.  A needle is the set of the texts    *)
(* that contain it.                                                        *)
(***************************************************************************)
EXTENDS Extraction, FiniteSetsExt

(* Every mention of an entity, in the order of the list.                   *)
Mentions(xs) == FlattenSeq([i \in DOMAIN xs |-> xs[i].entities])
Of(xs, name) == Filtered(Mentions(xs), LAMBDA e : e.name = name)
EntityNames(xs) == {e.name : e \in ToSet(Mentions(xs))}
Sum(entities) == FoldSeq(LAMBDA e, n : e.confidence + n, 0, entities)

(* list_entities: the first mention of each name.                          *)
ListEntities(xs) == [n \in EntityNames(xs) |-> Of(xs, n)[1]]

(* Mutant: a document that mentions an entity twice counts once.           *)
EntitySummary_PerDocument(xs) ==
    [n \in EntityNames(xs) |->
        [type |-> Of(xs, n)[1].type, sum |-> Sum(Of(xs, n)),
         documents |-> Cardinality({i \in DOMAIN xs : n \in {e.name : e \in ToSet(xs[i].entities)}}),
         snippet |-> Of(xs, n)[1].snippet]]

(* list_entity_summary: the count called document_count is of mentions; of *)
(* the snippets the first of the longest is kept.                          *)
EntitySummary(xs) ==
    [n \in EntityNames(xs) |->
        LET all == Of(xs, n)
            longest == Max({Letters[e.snippet] : e \in ToSet(all)})
        IN  [type |-> all[1].type, sum |-> Sum(all), documents |-> Len(all),
             snippet |-> Filtered(all, LAMBDA e : Letters[e.snippet] = longest)[1].snippet]]

ListClaims(xs) == FlattenSeq([i \in DOMAIN xs |-> xs[i].claims])

(* get_entity.                                                             *)
GetEntity(xs, name) ==
    IF name \notin EntityNames(xs) THEN None
    ELSE [entity |-> Of(xs, name)[1], documents |-> Len(Of(xs, name)),
          claims |-> Filtered(ListClaims(xs), LAMBDA c : name \in {c.subject, c.object})]

(* export_data.                                                            *)
Export(xs) ==
    [entities |-> [n \in EntityNames(xs) |-> [type |-> Of(xs, n)[1].type, sum |-> Sum(Of(xs, n)),
                                        documents |-> Len(Of(xs, n))]],
     claims |-> FlattenSeq([i \in DOMAIN xs |->
                    [j \in DOMAIN xs[i].claims |-> [document |-> xs[i].document,
                                                    claim |-> xs[i].claims[j]]]]),
     relationships |-> FlattenSeq([i \in DOMAIN xs |-> xs[i].relationships])]

(* search: each list is cut to the limit, which is at least one.           *)
Cut(hits, limit) == SubSeq(hits, 1, Min({Len(hits), Max({limit, 1})}))

FirstMentions(xs) ==
    LET all == Mentions(xs)
        firsts == Filtered([i \in DOMAIN all |-> i],
                           LAMBDA i : \A j \in 1..(i - 1) : all[j].name # all[i].name)
    IN  [k \in DOMAIN firsts |-> all[firsts[k]]]

Search(documents, xs, needle, limit) ==
    LET hits == [documents |-> Cut(Filtered(documents, LAMBDA d : {d.title, d.text} \cap needle # {}), limit),
                 entities |-> Cut(Filtered(FirstMentions(xs), LAMBDA e : e.name \in needle), limit),
                 claims |-> Cut(Filtered(ListClaims(xs),
                                          LAMBDA c : {c.subject, c.predicate, c.object, c.text} \cap needle # {}),
                                limit)]
    IN  [hits |-> hits, total |-> Len(hits.documents) + Len(hits.entities) + Len(hits.claims)]

-----------------------------------------------------------------------------
(* The routes tell one story: they know the same entities, with the same   *)
(* first mention, counts and sums, and an entity's page lists the claims   *)
(* that a search for it and for nothing else finds first.                  *)
Agree(xs) ==
    /\ \A n \in EntityNames(xs) :
          LET page == GetEntity(xs, n)
              found == Search(<<>>, xs, {n}, Len(ListClaims(xs)))
          IN  /\ page.entity = ListEntities(xs)[n]
              /\ page.documents = EntitySummary(xs)[n].documents
              /\ Export(xs).entities[n].documents = page.documents
              /\ Export(xs).entities[n].sum = EntitySummary(xs)[n].sum
              /\ found.hits.entities = <<page.entity>>
              /\ ToSet(page.claims) \subseteq ToSet(found.hits.claims)
    /\ Len(Export(xs).claims) = Len(ListClaims(xs))
===============================================================================
