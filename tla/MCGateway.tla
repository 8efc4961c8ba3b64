------------------------------- MODULE MCGateway -------------------------------
(* A small instance of Gateway: a document of two sentences, one of which  *)
(* the heuristic makes a claim of, and one without a sentence.             *)
EXTENDS Gateway

MCSize == [empty |-> 0]
MCUrls == {<<"u">>}
MCBounds == <<1, 5>>
MCLetters == [Acme |-> 4, Austin |-> 6, told |-> 30, short |-> 5]
MCStrategy == [ner |-> "llm", claim_extraction |-> "llm", embedding |-> "embedding"]

MCSentence(text, length, names, tokens) ==
    [text |-> text, length |-> length, names |-> names, words |-> {"announced"}, number |-> None,
     tokens |-> tokens, capitals |-> {"Acme", "Austin"}]

MCDocuments ==
    <<[id |-> "d1", title |-> "t1", text |-> "b1",
       body |-> [captures |-> <<"Acme", "Austin", "Acme">>, located |-> {<<"Acme", "Austin">>},
                 sentences |-> <<MCSentence("told", 30, {"Acme", "Austin"}, <<"Acme", "in", "Austin">>),
                                 MCSentence("short", 5, {}, <<"so">>)>>]],
      [id |-> "d2", title |-> "t2", text |-> "b2",
       body |-> [captures |-> <<"Austin">>, located |-> {}, sentences |-> <<>>]]>>
===============================================================================
