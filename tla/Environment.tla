----------------------------- MODULE Environment -----------------------------
(***************************************************************************)
(* What the symbol tables promise to the semantic analysis: block          *)
(* structure. Names are declared in the innermost open block, are visible  *)
(* until it is closed, and cannot be declared again while they are visible *)
(* (this compiler has no shadowing).                                       *)
(***************************************************************************)
EXTENDS Naturals, Sequences

CONSTANTS Names, NONE

VARIABLES
  blocks,   (* the open blocks, outermost first: declared name -> its id    *)
  fresh,    (* the id of the next declaration                               *)
  found     (* the id the last lookup found, or NONE                        *)

vars == <<blocks, fresh, found>>

Init ==
  /\ blocks = <<>>
  /\ fresh = 0
  /\ found = NONE

Visible(b, n) == \E k \in DOMAIN b : n \in DOMAIN b[k]

IdOf(b, n) ==
  IF Visible(b, n) THEN (b[CHOOSE k \in DOMAIN b : n \in DOMAIN b[k]])[n] ELSE NONE

(* The blocks after declaring n in the innermost one. *)
With(b, n, id) ==
  IF Visible(b, n) THEN b
  ELSE [b EXCEPT ![Len(b)] = [m \in DOMAIN @ \cup {n} |-> IF m = n THEN id ELSE @[m]]]

Open == blocks' = Append(blocks, <<>>) /\ UNCHANGED <<fresh, found>>

Close ==
  /\ blocks # <<>>
  /\ blocks' = SubSeq(blocks, 1, Len(blocks) - 1)
  /\ UNCHANGED <<fresh, found>>

(* A declaration that is rejected for another reason uses up its id. *)
Declare(n) ==
  /\ blocks # <<>>
  /\ blocks' \in {With(blocks, n, fresh), blocks}
  /\ fresh' = fresh + 1
  /\ UNCHANGED found

(* The name of a function is declared outside of the block it opens.         *)
DeclareAndOpen(n) ==
  /\ blocks # <<>>
  /\ blocks' = Append(With(blocks, n, fresh), <<>>)
  /\ fresh' = fresh + 1
  /\ UNCHANGED found

Lookup(n) ==
  /\ blocks # <<>>
  /\ found' = IdOf(blocks, n)
  /\ UNCHANGED <<blocks, fresh>>

(* Another file. *)
Forget == blocks = <<>> /\ found' = NONE /\ UNCHANGED <<blocks, fresh>>

Next ==
  \/ Forget
  \/ Open
  \/ Close
  \/ \E n \in Names : Declare(n) \/ DeclareAndOpen(n) \/ Lookup(n)

Spec == Init /\ [][Next]_vars
=============================================================================
