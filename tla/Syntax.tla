-------------------------------- MODULE Syntax --------------------------------
(***************************************************************************)
(* The syntax trees behind the parser (AST.h): a node is its type, the     *)
(* token that tells it from others of its type (an operator, a name, the   *)
(* text of a literal, a keyword) and its children. Positions are left out. *)
(***************************************************************************)
EXTENDS Integers, Sequences, FiniteSetsExt, TLC

CONSTANTS
  Literals,  (* the values of literals, of those the desugaring makes too   *)
  NULL

Node(type, token, children) == [type |-> type, token |-> token, children |-> children]

Child(node, i) == node.children[i]

(* A copy is what it is a copy of: trees are values here. The tokens, which  *)
(* a copy shares with its original, are never written after it was made.     *)
node_clone(node) == node

(* Expressions.                                                              *)
Identifier(name) == Node("IDENTIFIER", name, <<>>)
IntegerLiteral(text) == Node("INTEGER_LITERAL", text, <<>>)
UnaryOperation(op, e) == Node("UNARY_OPERATION", op, <<e>>)
PostfixOperation(op, e) == Node("POSTFIX_OPERATION", op, <<e>>)
BinaryOperation(op, e, f) == Node("BINARY_OPERATION", op, <<e, f>>)
Assign(op, e, f) == Node("ASSIGNMENT", op, <<e, f>>)
ConditionalOperation(c, e, f) == Node("CONDITIONAL_OPERATION", "?", <<c, e, f>>)
ArraySubscript(e, f) == Node("ARRAY_SUBSCRIPT", "[", <<e, f>>)
MemberAccess(e) == Node("MEMBER_ACCESS", "member", <<e>>)
FunctionCall(e, args) == Node("FUNCTION_CALL", "(", <<e>> \o args)

(* The value of the text of a literal.                                       *)
atoll(text) == CHOOSE n \in Literals : ToString(n) = text

(* Declarations: a DECLARATION, a PARAMETER and a FUNCTION_DEFINITION have a  *)
(* keyword and a declarator first. A declarator is a name inside of what it  *)
(* is a pointer to, an array of or a function of.                             *)
Declarator(name) == Node("DECLARATOR", name, <<>>)
PointerTo(d) == Node("POINTER_TYPE", "*", <<d>>)
ArrayOf(d, size) == Node("ARRAY_TYPE", "[", <<d, size>>)
FunctionOf(d, params) == Node("FUNCTION_TYPE", "(", <<d>> \o params)
Initialized(d, e) == BinaryOperation("=", d, e)
Declaration(keyword, d) == Node("DECLARATION", keyword, <<d>>)
Parameter(keyword, d) == Node("PARAMETER", keyword, <<d>>)

(* Statements of a body, in one compound statement, and functions.           *)
ExpressionStatement(es) == Node("EXPRESSION_STATEMENT", ";", es)
ReturnStatement(es) == Node("RETURN_STATEMENT", "return", es)
FunctionDefinition(keyword, d, items) ==
  Node("FUNCTION_DEFINITION", keyword, <<d, Node("COMPOUND_STATEMENT", "{", items)>>)

(* All nodes of a tree.                                                      *)
RECURSIVE Nodes(_)
Nodes(node) == {node} \cup UNION {Nodes(Child(node, i)) : i \in DOMAIN node.children}

(* How far below its root a tree goes.                                       *)
RECURSIVE Height(_)
Height(node) ==
  IF node.children = <<>> THEN 0
  ELSE 1 + Max({Height(Child(node, i)) : i \in DOMAIN node.children})

(* The node a declarator names something with, and that name.                *)
RECURSIVE Named(_)
Named(d) == IF d.type = "DECLARATOR" THEN d.token ELSE Named(Child(d, 1))
===============================================================================
