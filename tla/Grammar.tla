-------------------------------- MODULE Grammar --------------------------------
(***************************************************************************)
(* The language as Parser/grammar.txt describes it: its productions, and   *)
(* which texts (sequences of token types) they derive. An optional symbol  *)
(* of the grammar is written as the two productions with and without it.   *)
(***************************************************************************)
EXTENDS Naturals, Sequences, TLC, Functions

AssignmentOps == {"=", "*=", "/=", "%=", "+=", "-=", "<<=", ">>=", "&=", "^=", "|="}

UnaryOps == {"++", "--", "&", "*", "+", "-", "~", "!"}

(* The operators of the binary expressions, loosest first, from               *)
(* logical_or_expression to multiplicative_expression. Which texts are binary  *)
(* expressions does not depend on the levels, so one symbol derives them.     *)
BinaryOps ==
  << {"||"}, {"&&"}, {"|"}, {"^"}, {"&"}, {"==", "!="}, {"<", ">", "<=", ">="},
     {"<<", ">>"}, {"+", "-"}, {"*", "/", "%"} >>

Levels == 1 .. Len(BinaryOps)

Declarations ==
  [translation_unit     |-> {<<>>, <<"translation_unit", "external_declaration">>},
   external_declaration |-> {<<"function_definition">>, <<"declaration">>},
   function_definition  |-> {<<"type_specifier", "declarator", "compound_statement">>},
   type_specifier       |-> {<<"int">>, <<"void">>},
   declaration          |-> {<<"type_specifier", "init_declarator_list", ";">>},
   init_declarator_list |-> {<<"init_declarator">>,
                             <<"init_declarator_list", ",", "init_declarator">>},
   init_declarator      |-> {<<"declarator">>, <<"declarator", "=", "assignment_expression">>},
   declarator           |-> {<<"direct_declarator">>, <<"pointer", "direct_declarator">>},
   pointer              |-> {<<"*">>, <<"*", "pointer">>},
   direct_declarator    |-> {<<"identifier">>, <<"(", "declarator", ")">>,
                             <<"direct_declarator", "[", "]">>,
                             <<"direct_declarator", "[", "conditional_expression", "]">>,
                             <<"direct_declarator", "(", ")">>,
                             <<"direct_declarator", "(", "parameter_list", ")">>},
   parameter_list       |-> {<<"parameter_declaration">>,
                             <<"parameter_list", ",", "parameter_declaration">>},
   parameter_declaration |-> {<<"type_specifier", "declarator">>}]

Statements ==
  [statement            |-> {<<"compound_statement">>, <<"expression_statement">>,
                             <<"selection_statement">>, <<"iteration_statement">>,
                             <<"jump_statement">>},
   compound_statement   |-> {<<"{", "}">>, <<"{", "block_item_list", "}">>},
   block_item_list      |-> {<<"block_item">>, <<"block_item_list", "block_item">>},
   block_item           |-> {<<"declaration">>, <<"statement">>},
   expression_statement |-> {<<";">>, <<"expression", ";">>},
   selection_statement  |-> {<<"if", "(", "expression", ")", "statement">>,
                             <<"if", "(", "expression", ")", "statement", "else", "statement">>},
   iteration_statement  |-> {<<"while", "(", "expression", ")", "statement">>}
     \cup {<<"for", "(", first, "expression_statement">> \o step \o <<")", "statement">> :
             first \in {"expression_statement", "declaration"},
             step \in {<<>>, <<"expression">>}},
   jump_statement       |-> {<<"return", ";">>, <<"return", "expression", ";">>}]

Expressions ==
  [expression             |-> {<<"assignment_expression">>,
                               <<"expression", ",", "assignment_expression">>},
   assignment_expression  |-> {<<"conditional_expression">>}
     \cup {<<"unary_expression", op, "assignment_expression">> : op \in AssignmentOps},
   conditional_expression |-> {<<"binary_expression">>,
                               <<"binary_expression", "?", "expression", ":",
                                 "conditional_expression">>},
   binary_expression      |-> {<<"unary_expression">>}
     \cup {<<"binary_expression", op, "unary_expression">> : op \in UNION Range(BinaryOps)},
   unary_expression       |-> {<<"postfix_expression">>}
     \cup {<<op, "unary_expression">> : op \in UnaryOps},
   postfix_expression     |-> {<<"primary_expression">>,
                               <<"postfix_expression", "[", "expression", "]">>,
                               <<"postfix_expression", "(", ")">>,
                               <<"postfix_expression", "(", "argument_list", ")">>,
                               <<"postfix_expression", ".", "identifier">>,
                               <<"postfix_expression", "->", "identifier">>,
                               <<"postfix_expression", "++">>,
                               <<"postfix_expression", "--">>},
   argument_list          |-> {<<"assignment_expression">>,
                               <<"argument_list", ",", "assignment_expression">>},
   primary_expression     |-> {<<"identifier">>, <<"literal">>, <<"(", "expression", ")">>}]

Rules == Declarations @@ Statements @@ Expressions

-----------------------------------------------------------------------------
RECURSIVE Ends(_, _, _), EndsOf(_, _, _), Repeated(_, _, _)

(* Where in the text what a symbol derives can end, from its i-th token on.  *)
(* The tails of left recursive productions are repeated.                     *)
Ends(text, x, i) ==
  IF x \notin DOMAIN Rules
  THEN IF i <= Len(text) /\ text[i] = x THEN {i + 1} ELSE {}
  ELSE LET tails == {rhs \in Rules[x] : rhs # <<>> /\ Head(rhs) = x}
       IN  Repeated(text, {Tail(rhs) : rhs \in tails}, EndsOf(text, Rules[x] \ tails, i))

(* The same for a set of right-hand sides, which share what they start with. *)
EndsOf(text, rules, i) ==
  LET heads == {Head(rhs) : rhs \in rules \ {<<>>}}
      After(x) == {Tail(rhs) : rhs \in {r \in rules \ {<<>>} : Head(r) = x}}
  IN  (IF <<>> \in rules THEN {i} ELSE {})
        \cup UNION {UNION {EndsOf(text, After(x), j) : j \in Ends(text, x, i)} : x \in heads}

Repeated(text, tails, ends) ==
  LET more == ends \cup UNION {EndsOf(text, tails, j) : j \in ends}
  IN  IF more = ends THEN ends ELSE Repeated(text, tails, more)

Derivable(text) == Len(text) + 1 \in Ends(text, "translation_unit", 1)
=============================================================================
