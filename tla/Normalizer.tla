------------------------------ MODULE Normalizer ------------------------------
(***************************************************************************)
(* What every adapter of src/crates/ingestion does with what it fetched:   *)
(* the items not newer than the cursor are skipped, the others become      *)
(* documents, and one document that is too short fails the whole poll.     *)
(*                                                                         *)
(* A text is a word with a size, which stands for its length once tags are *)
(* stripped and blanks are collapsed; a body is the sequence of the words  *)
(* it is joined from, and two bodies have one content hash when they are   *)
(* equal.  Titles, authors and metadata are left out, and so is the cut at *)
(* 100 000 bytes.  An url is a tuple.                                      *)
(***************************************************************************)
EXTENDS Options, Integers, SequencesExt

CONSTANTS Blank,       \* a field that is present and empty
          Size,        \* Size[w]: the length of word w
          MinContent   \* MIN_CONTENT_LENGTH, in the same unit

Given(words) == Filtered(words, LAMBDA w : w # None)
IsEmpty(word) == word = Blank

Length(body) ==
    LET upTo[k \in 0..Len(body)] == IF k = 0 THEN 0 ELSE upTo[k - 1] + Size[body[k]]
    IN  upTo[Len(body)]

(* The parts of a DocumentInput that tell documents apart, and its time.   *)
DocumentInput(id, url, body, at) == [id |-> id, url |-> url, body |-> body, at |-> at]

(* DocumentNormalizer::normalize succeeds.                                 *)
Normalizes(input) == Length(input.body) >= MinContent

Failed == [ok |-> FALSE, documents |-> <<>>, cursor |-> None]

Latest(documents) ==
    LET times == {d.at : d \in ToSet(documents)} \ {None}
    IN  IF times = {} THEN None ELSE CHOOSE t \in times : \A u \in times : u <= t

Polled(documents) ==
    IF \A d \in ToSet(documents) : Normalizes(d)
    THEN [ok |-> TRUE, documents |-> documents, cursor |-> Latest(documents)]
    ELSE Failed

(* An adapter gives Input, which makes an item a document.                 *)
PollItems(Input(_), items, cursor) ==
    LET Fresh(d) == cursor = None \/ d.at = None \/ d.at > cursor
    IN  Polled(Filtered([k \in DOMAIN items |-> Input(items[k])], Fresh))

NotFound == [ok |-> FALSE]
Found(d) == IF Normalizes(d) THEN [ok |-> TRUE, document |-> d] ELSE NotFound

(* The first document Is accepts, of those of a poll without cursor.       *)
FindPolled(poll, Is(_)) ==
    IF ~poll.ok THEN NotFound
    ELSE LET k == SelectInSeq(poll.documents, Is)
         IN  IF k = 0 THEN NotFound ELSE [ok |-> TRUE, document |-> poll.documents[k]]

(* The first item Is accepts, normalised on its own.                       *)
FindItem(Input(_), items, Is(_)) ==
    LET k == SelectInSeq(items, Is)
    IN  IF k = 0 THEN NotFound ELSE Found(Input(items[k]))
===============================================================================
