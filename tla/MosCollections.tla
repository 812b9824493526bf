--------------------------- MODULE MosCollections ---------------------------
(***************************************************************************)
(* What the MOS store promises to the services above it: a family of named *)
(* collections, each a set of entries, and commands that add or remove one *)
(* entry of the collection AS IT STANDS.  Nothing here knows of versions,  *)
(* processes, caches or transactions.  MosStore implements this module.    *)
(***************************************************************************)
CONSTANTS Key,      \* collection keys, e.g. "objects.json"
          Entry     \* the entries a collection (a JSON map) may hold

VARIABLE collection \* collection[k]: the entries that collection k holds

PutEntry(k, e) ==
    collection' = [collection EXCEPT ![k] = @ \cup {e}]

DropEntry(k, e) ==
    collection' = [collection EXCEPT ![k] = @ \ {e}]

Init == collection = [k \in Key |-> {}]

Next == \E k \in Key, e \in Entry : PutEntry(k, e) \/ DropEntry(k, e)

Spec == Init /\ [][Next]_collection
=============================================================================
