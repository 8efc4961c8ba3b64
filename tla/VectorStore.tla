------------------------------- MODULE VectorStore -------------------------------
(***************************************************************************)
(* The two implementations of VectorRepository in                          *)
(* src/crates/store/src/vectordb side by side, given the same calls: the   *)
(* in-memory stub (stub.rs), a map, and the LanceDB table of the "lancedb" *)
(* feature (lancedb.rs), to which rows are added.  LanceDB's store_vectors *)
(* looks for the table and adds to it or creates it after, so two callers  *)
(* can both find none.  Each of its calls of LanceDB may fail, and then    *)
(* leaves the table as it was; the stub's never do.                        *)
(***************************************************************************)
EXTENDS Options, Functions

CONSTANTS Writers, Ids,
          Batches,    \* what a call stores: entries with an id and a vector, of one dimension
          Dimension,  \* Dimension[v]: the length of a vector
          MaxStores,  \* bound: calls of store_vectors and delete_vector
          MaxFailures \* bound

VARIABLES entries,    \* the stub's map
          table,      \* LanceDB's, with the dimension it was created with and its rows as added
          opened,     \* the store keeps a handle of the table
          storing,    \* per writer, its call of store_vectors under way
          stores, failures,
          (* history *)
          failed,     \* ids the last addition of which failed in LanceDB
          left,       \* ids of rows from an earlier start, or that a deletion left there
          again       \* ids stored while a row of theirs was there, or twice at once

vectorVars == <<entries, table, opened, storing, stores, failed, left, again>>

NotStoring == [step |-> "idle", entries |-> <<>>, found |-> FALSE]
NoTable == [created |-> FALSE, dim |-> 0, rows |-> <<>>]
IdsOf(rows) == {rows[k].id : k \in DOMAIN rows}
DimensionOf(batch) == Dimension[batch[1].vector]

FirstRow(rows, i) == CHOOSE k \in DOMAIN rows : rows[k].id = i /\ \A l \in DOMAIN rows : rows[l].id = i => k <= l
LastRow(rows, i) == CHOOSE k \in DOMAIN rows : rows[k].id = i /\ \A l \in DOMAIN rows : rows[l].id = i => l <= k
Repeated(rows) == {i \in IdsOf(rows) : FirstRow(rows, i) # LastRow(rows, i)}

VectorInit ==
    /\ entries = <<>> /\ table = NoTable /\ storing = [w \in Writers |-> NotStoring]
    /\ opened = FALSE /\ stores = 0 /\ failures = 0
    /\ failed = {} /\ left = {} /\ again = {}

LanceFails == failures < MaxFailures /\ failures' = failures + 1

(* get_or_open_table: the handle the store keeps, or the table if there is *)
(* one.  An error in opening it counts as none.                            *)
OpenTable(found) ==
    \/ opened /\ found /\ UNCHANGED <<opened, failures>>
    \/ ~opened /\ found = table.created /\ opened' = found /\ UNCHANGED failures
    \/ ~opened /\ table.created /\ ~found /\ LanceFails /\ UNCHANGED opened

ConnectFails == ~opened /\ LanceFails /\ UNCHANGED opened

StubStore(added) ==
    entries' = [i \in DOMAIN entries \cup IdsOf(added) |->
                   IF i \in IdsOf(added) THEN added[LastRow(added, i)].vector ELSE entries[i]]

NotStored(batch) == failed' = failed \cup IdsOf(batch) /\ UNCHANGED <<table, again>>

(* store_vectors up to get_or_open_table; an empty list returns at once.   *)
LookForTable(w) ==
    /\ storing[w] = NotStoring
    /\ stores < MaxStores /\ stores' = stores + 1
    /\ \E batch \in Batches :
          \/ \E found \in BOOLEAN :
                /\ OpenTable(found)
                /\ storing' = [storing EXCEPT ![w] = [step |-> "looked", entries |-> batch,
                                                     found |-> found]]
                /\ UNCHANGED <<entries, table, failed, again>>
          \/ ConnectFails /\ StubStore(batch) /\ NotStored(batch) /\ UNCHANGED storing
    /\ UNCHANGED left

(* The table has vectors of another dimension, or another call created it  *)
(* in between.                                                             *)
Refused(call) ==
    \/ call.found /\ table.dim # DimensionOf(call.entries)
    \/ ~call.found /\ table.created

LanceStore(call) ==
    /\ table' = [created |-> TRUE, dim |-> DimensionOf(call.entries), rows |-> table.rows \o call.entries]
    /\ opened' = TRUE
    /\ again' = again \cup (IdsOf(call.entries) \cap IdsOf(table.rows)) \cup Repeated(call.entries)
    /\ failed' = failed \ IdsOf(call.entries)

(* Mutant: a table that was created meanwhile is replaced.                 *)
AddOrCreate_Overwrites(w) ==
    LET call == storing[w]
    IN  /\ call.step = "looked"
        /\ StubStore(call.entries)
        /\ IF ~call.found
           THEN /\ table' = [created |-> TRUE, dim |-> DimensionOf(call.entries), rows |-> call.entries]
                /\ opened' = TRUE /\ UNCHANGED <<failed, again>>
           ELSE LanceStore(call)
        /\ storing' = [storing EXCEPT ![w] = NotStoring]
        /\ UNCHANGED <<stores, failures, left>>

(* store_vectors from there on.                                            *)
AddOrCreate(w) ==
    LET call == storing[w]
    IN  /\ call.step = "looked"
        /\ StubStore(call.entries)
        /\ \/ ~Refused(call) /\ LanceStore(call) /\ UNCHANGED failures
           \/ Refused(call) /\ NotStored(call.entries) /\ UNCHANGED <<opened, failures>>
           \/ LanceFails /\ NotStored(call.entries) /\ UNCHANGED opened
        /\ storing' = [storing EXCEPT ![w] = NotStoring]
        /\ UNCHANGED <<stores, left>>

RowsGone(i) ==
    /\ table' = [table EXCEPT !.rows = Filtered(@, LAMBDA r : r.id # i)]
    /\ left' = left \ {i} /\ again' = again \ {i}
RowsStay(i) ==
    /\ left' = left \cup ({i} \cap IdsOf(table.rows))
    /\ UNCHANGED <<table, again>>

(* delete_vector: it fails, or takes the table for missing, or deletes.    *)
DeleteVector(i) ==
    /\ stores < MaxStores /\ stores' = stores + 1
    /\ entries' = [j \in DOMAIN entries \ {i} |-> entries[j]]
    /\ \/ OpenTable(TRUE) /\ RowsGone(i)
       \/ OpenTable(FALSE) /\ RowsStay(i)
       \/ ConnectFails /\ RowsStay(i)
       \/ table.created /\ LanceFails /\ opened' = TRUE /\ RowsStay(i)
    /\ failed' = failed \ {i}
    /\ UNCHANGED storing

VectorStep == \/ \E w \in Writers : LookForTable(w) \/ AddOrCreate(w)
              \/ \E i \in Ids : DeleteVector(i)

(* The stub forgets; the table is on disk.  Calls under way never end.     *)
VectorRestart ==
    /\ entries' = <<>> /\ storing' = [w \in Writers |-> NotStoring]
    /\ opened' = FALSE /\ failed' = {}
    /\ left' = IdsOf(table.rows) /\ again' = IdsOf(table.rows)
    /\ UNCHANGED <<table, stores>>

-----------------------------------------------------------------------------
(* Reading: get_vector takes the first row it is given for an id, when the *)
(* table can be read.                                                      *)
StubVector(i) == IF i \in DOMAIN entries THEN entries[i] ELSE None
LanceVector(i) == IF i \in IdsOf(table.rows) THEN table.rows[FirstRow(table.rows, i)].vector ELSE None
===============================================================================
