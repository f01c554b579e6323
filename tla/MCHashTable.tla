----------------------------- MODULE MCHashTable -----------------------------
(* The keys are chosen to collide: with a capacity of 4 or 8 several of them *)
(* share their first slot, and probing wraps around the end of the table.    *)
(* Six are the fewest with which a table of 8 slots can come to hold two     *)
(* thirds of them, the sixth being a key copied from elsewhere. A value from *)
(* elsewhere is v1 or NULL, so that one that is stale shows.                 *)
EXTENDS HashTable
=============================================================================
