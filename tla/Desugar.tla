------------------------------- MODULE Desugar -------------------------------
(***************************************************************************)
(* Desugaring (Parser/desugar.c) of expressions, and of the statements of  *)
(* bodies without branches and loops; those are in module HLIRFlow. A tree *)
(* is rewritten in place into one with fewer kinds of nodes. CRASH is what *)
(* there is instead of a tree when an assertion stops the compiler, or a   *)
(* child that is not there is looked at.                                   *)
(*                                                                         *)
(* The tokens of new nodes are forged (tok_forge): they are elements of an *)
(* array, and the tree points to them. Trees are values here, and forged   *)
(* tokens are counted; what becomes of the pointers when the array moves   *)
(* is said where the tree is read next (desugar_typed_AST, MiddleEnd).     *)
(***************************************************************************)
EXTENDS Syntax

CONSTANT CRASH

(* The sign of a literal is in its text.                                     *)
Negated(literal) == IntegerLiteral(ToString(-atoll(literal.token)))

(* Mutant: the other operator. *)
IncrementSwapped(op, e) ==
  Assign("=", e, BinaryOperation(IF op = "++" THEN "-" ELSE "+", node_clone(e), IntegerLiteral("1")))
Increment(op, e) ==
  Assign("=", e, BinaryOperation(IF op = "++" THEN "+" ELSE "-", node_clone(e), IntegerLiteral("1")))


(* A unary operation whose operand is desugared.                             *)
desugar_unary_operation(op, e) ==
  CASE op = "+" -> e
    [] op = "-" /\ e.type = "INTEGER_LITERAL" -> Negated(e)
    [] op = "-" /\ e.type # "INTEGER_LITERAL" -> BinaryOperation("*", e, IntegerLiteral("-1"))
    [] op \in {"++", "--"} -> Increment(op, e)
    [] OTHER -> UnaryOperation(op, e)

(* What is inside of calls, subscripts and member accesses stays.            *)
RECURSIVE desugar_expression(_)
desugar_expression(node) ==
  CASE node.type \in {"BINARY_OPERATION", "ASSIGNMENT", "POSTFIX_OPERATION"} ->
         [node EXCEPT !.children = [i \in DOMAIN @ |-> desugar_expression(@[i])]]
    [] node.type = "UNARY_OPERATION" ->
         desugar_unary_operation(node.token, desugar_expression(Child(node, 1)))
    [] OTHER -> node

(* The tokens forged for a unary operation whose operand is desugared, for an *)
(* expression, and for a statement of a body. A copy forges none.             *)
ForgedFor(op, e) ==
  CASE op \in {"++", "--"} -> 3
    [] op = "-" /\ e.type # "INTEGER_LITERAL" -> 1
    [] OTHER -> 0

RECURSIVE ForgedTokens(_)
ForgedTokens(node) ==
  LET OfChild(i) == ForgedTokens(Child(node, i)) IN
  CASE node.type \in {"BINARY_OPERATION", "ASSIGNMENT", "POSTFIX_OPERATION"} ->
         MapThenSumSet(OfChild, DOMAIN node.children)
    [] node.type = "UNARY_OPERATION" ->
         OfChild(1) + ForgedFor(node.token, desugar_expression(Child(node, 1)))
    [] OTHER -> 0

ForgedIn(item) ==
  IF item.type = "DECLARATION" \/ item.children = <<>> THEN 0 ELSE ForgedTokens(Child(item, 1))

(* The nodes the recursion comes to.                                         *)
RECURSIVE Desugared(_)
Desugared(node) ==
  {node} \cup IF node.type \in {"BINARY_OPERATION", "ASSIGNMENT", "POSTFIX_OPERATION", "UNARY_OPERATION"}
              THEN UNION {Desugared(Child(node, i)) : i \in DOMAIN node.children}
              ELSE {}

(* A declaration is left alone, and has no children any more.                *)
desugar_statement(item) ==
  IF item.type = "EXPRESSION_STATEMENT" /\ item.children = <<>> THEN CRASH
  ELSE IF item.type = "DECLARATION" \/ item.children = <<>> THEN item
  ELSE IF \E node \in Desugared(Child(item, 1)) : node.type = "CONDITIONAL_OPERATION" THEN CRASH
  ELSE [item EXCEPT !.children = <<desugar_expression(@[1])>>]
==============================================================================
