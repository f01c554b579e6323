------------------------------- MODULE MCParser -------------------------------
(* Texts around one place of the grammar each, in which every combination of *)
(* some pieces is put.                                                       *)
EXTENDS Parser

RECURSIVE Joins(_, _)
Joins(P, n) == IF n = 0 THEN {<<>>} ELSE {p \o rest : p \in P, rest \in Joins(P, n - 1)}
JoinsUpTo(P, max) == UNION {Joins(P, n) : n \in 0 .. max}
Single(S) == {<<x>> : x \in S}

(* What replaces the dots in: int a = ... ;                                  *)
id == "identifier"
Operands ==
  JoinsUpTo(Single({id, "=", "*", "+", "?", ":", "(", ")", ",", "[", "]", "++", "."}), 3)
    \cup {<<u, id, p, "literal", q, u, id>> :
            u \in UnaryOps, p, q \in {"||", "|", "^", "&", "==", "-", "%", "+="}}
    \cup {<<id, p, id, q, id>> : p, q \in AssignmentOps \cup UNION Range(BinaryOps)}
    \cup {<<id, p, id, q, id, r, id>> : p, q, r \in {"=", "*", "+", "?", ":", ",", "<<", "&&"}}
    \cup {<<p, "(", id, q, id, ")", r, id>> : p \in {"*", "++"}, q, r \in {"=", "*", "+", ","}}
    \cup {<<id, q, id>> \o e \o <<r, id>> :
            q, r \in {"=", "*", "+", ","},
            e \in {<<"[", id, "=", id, "]">>, <<"(", id, ",", id, ")">>, <<"(", ")">>,
                   <<".", id>>, <<"->", id>>, <<"++">>, <<"--">>}}
Initializers == {<<"int", id, "=">> \o e \o <<";">> : e \in Operands}

(* The start of a unit. *)
Declarators ==
  {<<>>, <<id>>, <<"*", "*", id>>, <<"(", "*", id, ")">>, <<id, "[", "]">>,
   <<id, "[", id, "]", "[", "literal", "]">>, <<id, "[", id, "=", id, "]">>}
Externals ==
  {<<"int">> \o c \o <<"(", "int">> \o d \o <<",", "void">> \o e \o <<")">> \o end :
     c, d, e \in Declarators, end \in {<<";">>, <<"{", "}">>, <<>>}} \cup
  {<<"int">> \o d :
     d \in JoinsUpTo(Single({id, "*", "(", ")", ",", ";", "[", "]"})
                       \cup {<<"(", "int", id>>, <<"{", "}">>}, 4)}

(* Statements in the body of a function. *)
Bodies ==
  JoinsUpTo({<<";">>, <<id>>, <<"{">>, <<"}">>, <<")">>, <<"return">>,
             <<"while", "(", id, ")">>, <<"for", "(", "int", id, ";">>, <<"int", id>>,
             <<"if", "(", id, ")">>}, 3)
    \cup JoinsUpTo({<<"if", "(", id, ")">>, <<"else">>, <<";">>, <<"{">>, <<"}">>}, 5)
    \cup {<<"for", "(">> \o first \o cond \o step \o <<")">> \o body :
            first \in {<<";">>, <<id, ";">>, <<"int", id, ";">>,
                       <<"int", id, "=", id, ",", id, ";">>, <<id>>},
            cond \in {<<";">>, <<id, ";">>, <<>>},
            step \in {<<>>, <<id>>, <<id, ",", id>>, <<";">>},
            body \in {<<";">>, <<"{", "}">>, <<"while", "(", id, ")", ";">>, <<>>}}
Functions == {<<"void", id, "(", ")", "{">> \o b \o <<"}">> : b \in Bodies}

(* Lists of declarators outside of functions. *)
ListTexts == {<<"int", id>> \o d \o <<";">> : d \in JoinsUpTo(Single({id, "=", ",", "*"}), 3)}

MCTexts == Initializers \cup Externals \cup Functions \cup ListTexts
=============================================================================
