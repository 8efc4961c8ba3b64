-------------------------------- MODULE MCStores --------------------------------
(* A small instance of Stores: two documents about the same entities, the  *)
(* second with a relationship that has no entity at one end.               *)
EXTENDS Stores

CONSTANTS i1, i2, v1, v2, w1

MCEntity(name, confidence, description) ==
    [name |-> name, confidence |-> confidence, description |-> description]
MCClaim(text, subject, object, confidence) ==
    [text |-> text, subject |-> subject, object |-> object, confidence |-> confidence]
MCRelationship(from, to, type, confidence) ==
    [from |-> from, to |-> to, type |-> type, confidence |-> confidence]

MCExtractions ==
    {[entities |-> <<MCEntity("Apple", 55, None), MCEntity("Austin", 55, EmptyText)>>,
      claims |-> <<MCClaim("hires", "Apple", "Austin", 50)>>,
      relationships |-> <<MCRelationship("Apple", "Austin", "located_in", 55)>>],
     [entities |-> <<MCEntity("Austin", 60, "city")>>,
      claims |-> <<MCClaim("hires", "Austin", EmptyText, 60), MCClaim("grows", "Austin", None, 50)>>,
      relationships |-> <<MCRelationship("Austin", "Apple", "related_to", 50),
                          MCRelationship("Austin", "Austin", "related_to", 50),
                          MCRelationship("Apple", "Austin", "located_in", 50)>>]}

MCDimension == [v \in {v1, v2, w1} |-> IF v = w1 THEN 2 ELSE 3]
MCBatches == {<<[id |-> i1, vector |-> v1]>>, <<[id |-> i1, vector |-> v2]>>,
              <<[id |-> i2, vector |-> w1]>>,
              <<[id |-> i1, vector |-> v1], [id |-> i2, vector |-> v2]>>,
              <<[id |-> i1, vector |-> v1], [id |-> i1, vector |-> v2]>>}
MCSymmetry == Permutations(Writers)
===============================================================================
