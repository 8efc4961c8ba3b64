-------------------------------- MODULE Options --------------------------------
(* Optional values, Rust's Option: None is the same wherever it appears;   *)
(* tables of rows by key; and filter, written out as a recursive function. *)
EXTENDS Naturals, Sequences

CONSTANTS None,
          Unknown   \* the id or the name of what has none, "unknown"

Or(a, b) == IF a = None THEN b ELSE a

Put(rows, key, row) == [k \in DOMAIN rows \cup {key} |-> IF k = key THEN row ELSE rows[k]]

(* The elements of a sequence that pass, in their order.                   *)
Filtered(s, Passes(_)) ==
    LET upTo[k \in 0..Len(s)] == IF k = 0 THEN <<>>
                                 ELSE IF Passes(s[k]) THEN Append(upTo[k - 1], s[k]) ELSE upTo[k - 1]
    IN  upTo[Len(s)]
===============================================================================
