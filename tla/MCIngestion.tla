----------------------------- MODULE MCIngestion -----------------------------
(* A small instance of Ingestion: the worker and the registered source     *)
(* read one feed.  Its second entry is too short, its third has the text   *)
(* of the first and another link, and its fourth the link of the first and *)
(* another text.                                                           *)
EXTENDS Ingestion

MCSize == [empty |-> 0, word |-> 1, first |-> 2, fourth |-> 2, feed |-> 1]

MCEntry(id, text, link, t) ==
    [id |-> id, title |-> "word", summary |-> text, content |-> None, link |-> <<link>>,
     alternate |-> None, published |-> t, updated |-> None]

MCFeed == <<"feed">>
MCUrls == {MCFeed}
MCItems == MCFeed :> <<MCEntry("a", "first", "x", 1), MCEntry("b", "word", "y", 2),
                       MCEntry("c", "first", "z", 3), MCEntry("d", "fourth", "x", 4)>>
MCServes == MCFeed :> {"rss"}
MCWorkerSources == <<[type |-> "rss", url |-> MCFeed, enabled |-> TRUE]>>
MCHackerNews == <<"hn">>
MCSecEdgar == <<"sec">>
===============================================================================
