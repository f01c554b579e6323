------------------------------ MODULE Selection ------------------------------
(***************************************************************************)
(* The places of a sequence in ascending order, and what a sequence has at *)
(* some of its places. SelectSeq says the same of what a test picks; said  *)
(* by places it can be reasoned about.                                     *)
(***************************************************************************)
EXTENDS Integers, FiniteSets

Below(S, i) == {j \in S : j < i}

(* The n-th number of a finite set of them. *)
Nth(S, n) == CHOOSE i \in S : Cardinality(Below(S, i)) = n - 1

(* What s has at the places S, in order. *)
Selected(s, S) == [n \in 1 .. Cardinality(S) |-> s[Nth(S, n)]]
==============================================================================
