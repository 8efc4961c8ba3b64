---------------------------- MODULE MCEventEngine ----------------------------
(* Small instances of EventEngine: "deal" and "deal2" are about the same   *)
(* two entities and "sale" is about another.                               *)
EXTENDS EventEngine

CONSTANTS deal, deal2, sale, apple, austin, google, london

MCEntities == {apple, austin, google}
MCSubject == [c \in Claims |-> IF c = sale THEN google ELSE apple]
MCObject == [c \in Claims |-> IF c \in {deal, deal2} THEN austin ELSE NoEntity]
MCPlaces == {london, NoPlace}
MCPlace == [c \in Claims |-> IF c = sale THEN london ELSE NoPlace]
MCWords == [f \in Claims |-> [c \in Claims |-> IF f # c THEN 2 ELSE 10]]
MCWithin == {}
=============================================================================
