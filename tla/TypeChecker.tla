----------------------------- MODULE TypeChecker -----------------------------
(***************************************************************************)
(* The type checker (Sema/typechecker.c): check_expression returns a type  *)
(* that the caller owns, or NULL. The operators here take the types they   *)
(* work on from the top of s.vals and leave the one they return there.     *)
(***************************************************************************)
EXTENDS Types

(* The rules for binary operators: the operators, the kinds on the left, the *)
(* kinds on the right, and the result: the left or the right type, or int.    *)
binary_rules ==
  { <<{"="}, {"INT"}, Ints, "LEFT">>,
    <<{"="}, {"POINTER"}, {"POINTER"}, "LEFT">>,
    <<{","}, Scalars, Scalars, "RIGHT">>,
    <<{"||", "&&"}, Scalars, Scalars, "INT">>,
    <<{"|", "^", "&", "<<", ">>", "+", "-", "*", "/", "%"}, Ints, Ints, "INT">>,
    <<{"==", "!=", "<", ">", "<=", ">="}, Ints, Ints, "INT">>,
    <<{"==", "!=", "<", ">", "<=", ">=", "-"}, {"POINTER"}, {"POINTER"}, "INT">>,
    <<{"+", "-"}, {"POINTER"}, Ints, "LEFT">>,
    <<{"+"}, Ints, {"POINTER"}, "RIGHT">> }

BinaryResults(op, left, right) ==
  {rule[4] : rule \in {r \in binary_rules : op \in r[1] /\ left \in r[2] /\ right \in r[3]}}

(* The rules for unary operators: the operand itself, a pointer to it, what  *)
(* it points to, or a new type.                                               *)
unary_rules ==
  { <<{"++", "--"}, Scalars, "COPY">>,
    <<{"&"}, Scalars \cup {"ARRAY", "FUNCTION"}, "POINTER">>,
    <<{"*"}, {"POINTER"}, "DEREFERENCE">>,
    <<{"+", "-"}, {"INT"}, "INT">>,
    <<{"+", "-"}, {"INTLIT"}, "INTLIT">>,
    <<{"~"}, Ints, "INT">>,
    <<{"!"}, Scalars, "INT">> }

postfix_rules == { <<{"++", "--"}, Scalars, "COPY">> }

UnaryResults(rules, op, kind) == {rule[3] : rule \in {r \in rules : op \in r[1] /\ kind \in r[2]}}

-----------------------------------------------------------------------------
(* Drop frees the type on top, if there is one, and forgets it.              *)
Drop(s) == Pop(FreeIfAny(s, Top(s)))

(* The end of a check that failed: n types are freed, NULL is returned.      *)
Fails(s, n) == IF n = 1 THEN Push(Drop(s), NULL)
               ELSE IF n = 2 THEN Push(Drop(Drop(s)), NULL)
               ELSE Push(Drop(Drop(Drop(s))), NULL)
TypeError(s, n) == Fails(PushError(s), n)

(* The type on top replaced by one over refs, or by one it owned.            *)
Over(s, kind, refs) == CreateType(Pop(s), kind, refs)

(* Mutant: free_type takes what the node refers to with it. *)
ReleasedWhole(s, type) == Push(Pop(FreeType(s, Top(s))), type)
Released(s, type) == Push(Pop(FreeNode(s, Top(s))), type)

check_identifier(s, name) ==
  IF ResolveSymbol(s, name) = NULL THEN Push(s, NULL)
  ELSE CloneType(s, ResolveSymbol(s, name).type)

CheckUnary(s, rules, op) ==
  IF Top(s) = NULL THEN s
  ELSE LET results == UnaryResults(rules, op, Top(s).kind)
       IN  CASE results = {"COPY"}        -> s
             [] results = {"POINTER"}     -> Over(s, "POINTER", <<Top(s)>>)
             [] results = {"DEREFERENCE"} -> Released(s, Top(s).refs[1])
             [] results \in {{"INT"}, {"INTLIT"}} ->
                  CreateType(Drop(s), CHOOSE kind \in results : TRUE, <<>>)
             [] results = {}              -> TypeError(s, 1)

(* The right operand is on top of the left one; NULL if it was not checked.  *)
CheckBinary(s, op) ==
  IF NULL \in {Under(s), Top(s)} THEN TypeError(s, 2)
  ELSE LET results == BinaryResults(op, Under(s).kind, Top(s).kind)
       IN  CASE results = {"LEFT"}  -> Drop(s)
             [] results = {"RIGHT"} -> Push(Drop(Pop(s)), Top(s))
             [] results = {"INT"}   -> CreateType(Drop(Drop(s)), "INT", <<>>)
             [] results = {}        -> TypeError(s, 2)

(* The condition and the two branches.                                        *)
CheckConditional(s) ==
  LET condition == s.vals[Len(s.vals) - 2]
  IN  IF NULL \in {condition, Under(s), Top(s)} THEN TypeError(s, 3)
      ELSE CASE Under(s).kind = "INTLIT" /\ Top(s).kind = "INT" ->
                  Push(Drop(Drop(Pop(s))), Top(s))
             [] \/ Under(s).kind = "INT" /\ Top(s).kind \in Ints
                \/ Under(s).kind = "INTLIT" /\ Top(s).kind = "INTLIT"
                \/ Under(s).kind = "POINTER" /\ CompareTypes(Under(s), Top(s)) ->
                  Push(Drop(Pop(Drop(s))), Under(s))
             [] OTHER -> TypeError(s, 3)

(* The index is on top of the array. The error path frees both, reports, and *)
(* goes on.                                                                    *)
CheckSubscript(s) ==
  IF Under(s) = NULL THEN Pop(s)
  ELSE IF Top(s) = NULL THEN Fails(s, 2)
  ELSE IF Under(s).kind = "ARRAY" /\ Top(s).kind \in Ints
       THEN Released(Drop(s), Under(s).refs[1])
       ELSE FreeType(PushError(FreeType(FreeType(s, Under(s)), Top(s))), Top(s))

-----------------------------------------------------------------------------
(* Calls. The callee is on top, or below the type of an argument.            *)
Arity(function) == Len(function.refs) - 1
ParameterType(function, k) == function.refs[k + 1]

(* Mutant: no diagnostic. *)
NotCallableSilent(s) == Fails(s, 1)
NotCallable(s) == TypeError(s, 1)
CallFails(s) == TypeError(s, 1)

(* Only the node of the callee is freed: its parameters are lost.            *)
CallSucceeds(s) == Released(s, Top(s).refs[1])

Accepts(s, k) == Top(s) # NULL /\ CompareTypes(ParameterType(Under(s), k), Top(s))

(* The last argument left, the one with no other before it: the left operand *)
(* of the comma or, as nothing tells them apart, of any binary operator.     *)
FirstArgument(s, k) ==
  IF Stopped(s) THEN s
  ELSE IF Top(s) # NULL /\ k = 0 THEN Dies(s, "range")
  ELSE IF Top(s) # NULL /\ Accepts(s, k) THEN CallSucceeds(Drop(s)) ELSE CallFails(Drop(s))

(* check_expression. Nothing is checked once the compiler has stopped.       *)
RECURSIVE check_expression(_, _), CheckArguments(_, _, _), LastArgument(_, _, _)
Unless(stop, s, e) == IF stop THEN Push(s, NULL) ELSE check_expression(s, e)

(* The arguments of a call from the last to the first, where i are behind.   *)
CheckArguments(s, arg, i) ==
  IF arg.type # "BINARY_OPERATION" THEN Dies(s, "assert")
  ELSE IF Arity(Top(s)) = i THEN CallFails(s)
  ELSE LastArgument(check_expression(s, Child(arg, 2)), arg, i)

LastArgument(s, arg, i) ==
  IF Stopped(s) THEN s
  ELSE IF ~Accepts(s, Arity(Under(s)) - i) THEN CallFails(Drop(s))
  ELSE IF Child(arg, 1).type = "BINARY_OPERATION" THEN CheckArguments(Drop(s), Child(arg, 1), i + 1)
  ELSE FirstArgument(check_expression(Drop(s), Child(arg, 1)), Arity(Under(s)) - (i + 1))

CheckCall(s, node) ==
  IF Top(s) = NULL \/ Stopped(s) THEN s
  ELSE IF Top(s).kind # "FUNCTION" THEN NotCallable(s)
  ELSE IF Len(node.children) = 1 THEN Dies(s, "range")
  ELSE CheckArguments(s, Child(node, 2), 0)

SecondOperand(s, node) == Unless(Top(s) = NULL, s, Child(node, 2))
FirstBranch(s, node) ==
  Unless(IF Top(s) = NULL THEN TRUE ELSE Top(s).kind \notin Scalars, s, Child(node, 2))
SecondBranch(s, node) == Unless(Top(s) = NULL, s, Child(node, 3))

check_expression(s, node) ==
  IF Stopped(s) THEN Push(s, NULL)
  ELSE CASE node.type = "IDENTIFIER" -> check_identifier(s, node.token)
         [] node.type = "INTEGER_LITERAL" -> CreateType(s, "INTLIT", <<>>)
         [] node.type = "UNARY_OPERATION" ->
              CheckUnary(check_expression(s, Child(node, 1)), unary_rules, node.token)
         [] node.type = "POSTFIX_OPERATION" ->
              CheckUnary(check_expression(s, Child(node, 1)), postfix_rules, node.token)
         [] node.type \in {"BINARY_OPERATION", "ASSIGNMENT"} ->
              CheckBinary(SecondOperand(check_expression(s, Child(node, 1)), node), node.token)
         [] node.type = "CONDITIONAL_OPERATION" ->
              CheckConditional(SecondBranch(
                FirstBranch(check_expression(s, Child(node, 1)), node), node))
         [] node.type = "ARRAY_SUBSCRIPT" ->
              CheckSubscript(SecondOperand(check_expression(s, Child(node, 1)), node))
         [] node.type = "FUNCTION_CALL" ->
              CheckCall(check_expression(s, Child(node, 1)), node)
         [] node.type = "MEMBER_ACCESS" -> Push(PushError(s), NULL)
==============================================================================
