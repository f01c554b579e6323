------------------------------ MODULE SymbolMap ------------------------------
(***************************************************************************)
(* What the table of bindings is to the IR generator: a dictionary from    *)
(* keys to values, in which a binding stays until it is overwritten or     *)
(* removed, except that an insertion that makes the table grow may lose    *)
(* one binding, and may gain one that nobody inserted.                     *)
(***************************************************************************)
CONSTANTS Keys, Values, NULL

VARIABLES
  dict,    (* the value bound to each key, NULL if there is none            *)
  answer   (* what the last lookup returned                                 *)

vars == <<dict, answer>>

Init ==
  /\ dict = [k \in Keys |-> NULL]
  /\ answer = NULL

Insert(k, v) ==
  /\ dict' = [dict EXCEPT ![k] = v]
  /\ UNCHANGED answer

(* Only a key that had no binding, or lost it, gets one from elsewhere.     *)
InsertGrowing(k, v) ==
  /\ \E lost, stray \in Keys, w \in Values \cup {NULL} :
       /\ stray = lost \/ dict[stray] = NULL
       /\ dict' = [dict EXCEPT ![lost] = NULL, ![stray] = w, ![k] = v]
  /\ UNCHANGED answer

Get(k) ==
  /\ answer' = dict[k]
  /\ UNCHANGED dict

Remove(k) ==
  /\ dict' = [dict EXCEPT ![k] = NULL]
  /\ UNCHANGED answer

Next ==
  \E k \in Keys :
    \/ \E v \in Values : Insert(k, v) \/ InsertGrowing(k, v)
    \/ Get(k)
    \/ Remove(k)

Spec == Init /\ [][Next]_vars
=============================================================================
