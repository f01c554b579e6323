------------------------------- MODULE Tokens -------------------------------
(***************************************************************************)
(* What lex() (Lexer/lexer.c) hands to the token stream, seen from the     *)
(* stream: a source text is the sequence of the types of its tokens, and   *)
(* once they are used up every further call of lex() yields an EOF token.  *)
(* How characters become tokens is the subject of module Lexer.            *)
(***************************************************************************)
EXTENDS Integers, Sequences, Selection

CONSTANTS
  Types,     (* the token types that occur in a text (token_type_t)         *)
  EOF,       (* TOKTYPE_EOF                                                 *)
  INVALID,   (* TOKTYPE_INVALID, an unrecognized character                  *)
  Texts,     (* the source texts, as sequences of token types               *)
  Garbage    (* a position_t that was never written                         *)

ASSUME TokensAssumption ==
  /\ EOF \notin Types
  /\ INVALID \in Types
  /\ Texts \subseteq Seq(Types)
  /\ Garbage \notin Nat

(* A position: 0 is the {0, 0} that tok_expect_n starts from, i is where    *)
(* token i starts, Garbage the bytes malloc() left in an EOF token.         *)
Position == Nat \cup {Garbage}

Token == [type : Types \cup {EOF}, nth : Nat \ {0}, at : Position]

(* The i-th token of text t. The EOF branch of lex() sets type and text but *)
(* neither start nor end.                                                   *)
TokenAt(t, i) ==
  IF i <= Len(t) THEN [type |-> t[i], nth |-> i, at |-> i]
                 ELSE [type |-> EOF, nth |-> i, at |-> Garbage]

Error == [kind : {"lex", "expected"}, at : Position]

(* The diagnostics pushed by lex() while it produces tokens first..final:    *)
(* one for each character it does not recognize.                             *)
LexErrors(t, first, final) ==
  LET bad == {k \in first .. final : TokenAt(t, k).type = INVALID}
  IN  [n \in 1 .. Cardinality(bad) |-> [kind |-> "lex", at |-> TokenAt(t, Nth(bad, n)).at]]
=============================================================================
