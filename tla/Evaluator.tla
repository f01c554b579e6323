------------------------------ MODULE Evaluator ------------------------------
(***************************************************************************)
(* Constant expressions (Sema/evaluator.c). A result says whether there is *)
(* one (is_valid), which (val), and whether the compiler was killed by a   *)
(* division by zero on the way (trap). What is computed with ^ is never    *)
(* written: unwritten is what the memory holds. The value of val is        *)
(* UNDEFINED after an overflow or a shift out of range. Nothing is         *)
(* computed after a trap.                                                  *)
(***************************************************************************)
EXTENDS Syntax, CArithmetic

Invalid == [is_valid |-> FALSE, val |-> 0, trap |-> FALSE]
Valid(n) == [is_valid |-> TRUE, val |-> n, trap |-> FALSE]
Trap == [Invalid EXCEPT !.trap = TRUE]

eval_unary(op, r) ==
  IF ~r.is_valid THEN r
  ELSE IF op \in {"&", "*"} THEN Invalid
  ELSE IF r.val = UNDEFINED THEN r
  ELSE CASE op = "++" -> Valid(r.val + 1)
         [] op = "--" -> Valid(r.val - 1)
         [] op = "+"  -> r
         [] op = "-"  -> Valid(-r.val)
         [] op = "~"  -> Valid(-r.val - 1)
         [] op = "!"  -> Valid(Truth(r.val = 0))

(* Both operands are evaluated, those of || and && too. The quotient of the   *)
(* least number by -1 kills the compiler like one by 0.                       *)
Traps(left, right) == right = 0 \/ (right = -1 /\ left = -(2 ^ (LongBits - 1)))

Logical(op, vals) ==
  LET decides == IF op = "||" THEN {n \in vals : n \notin {0, UNDEFINED}} ELSE vals \cap {0}
  IN  IF decides # {} THEN Truth(op = "||")
      ELSE IF UNDEFINED \in vals THEN UNDEFINED ELSE Truth(op = "&&")

eval_binary(op, left, right, unwritten) ==
  IF ~left.is_valid THEN left
  ELSE IF ~right.is_valid \/ op = "," THEN right
  ELSE IF op \in {"/", "%"} /\ Traps(left.val, right.val) THEN Trap
  ELSE IF op \in {"||", "&&"} THEN Valid(Logical(op, {left.val, right.val}))
  ELSE IF op = "^" THEN Valid(unwritten)
  ELSE IF UNDEFINED \in {left.val, right.val} THEN Valid(UNDEFINED)
  ELSE Valid(Computed(op, left.val, right.val, LongBits))

(* Mutant: the other branch. *)
BranchSwapped(condition) == IF condition.val # 0 THEN 3 ELSE 2
(* The branch that is evaluated. With an undefined condition either is, and  *)
(* what follows from it is taken for undefined.                              *)
Branch(condition) == IF condition.val # 0 THEN 2 ELSE 3

RECURSIVE eval_constant_expression(_, _), eval_conditional(_, _, _)
eval_conditional(condition, node, unwritten) ==
  IF ~condition.is_valid \/ condition.val = UNDEFINED THEN condition
  ELSE eval_constant_expression(Child(node, Branch(condition)), unwritten)

eval_constant_expression(node, unwritten) ==
  CASE node.type = "INTEGER_LITERAL" -> Valid(atoll(node.token))
    [] node.type = "UNARY_OPERATION" ->
         eval_unary(node.token, eval_constant_expression(Child(node, 1), unwritten))
    [] node.type = "BINARY_OPERATION" ->
         eval_binary(node.token, eval_constant_expression(Child(node, 1), unwritten),
                     eval_constant_expression(Child(node, 2), unwritten), unwritten)
    [] node.type = "CONDITIONAL_OPERATION" ->
         eval_conditional(eval_constant_expression(Child(node, 1), unwritten), node, unwritten)
    [] OTHER -> Invalid
==============================================================================
