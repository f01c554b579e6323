------------------------------- MODULE MCScopes -------------------------------
(* The bounds are the constants of Scopes, given in the .cfg files. Names    *)
(* are compared and nothing else, so they are interchangeable.               *)
EXTENDS Scopes, TLC

NamesAlike == Permutations(Names)
=============================================================================
