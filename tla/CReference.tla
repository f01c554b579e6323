----------------------------- MODULE CReference -----------------------------
(***************************************************************************)
(* What the C standard says of the expressions of this language: their     *)
(* types, and the values of those over ints. It is what the compiler is    *)
(* compared with, and owes nothing to its code.                            *)
(*                                                                         *)
(* A type here is its kind and the types it refers to; a literal is an     *)
(* int. ILL is the type of what C has none for.                            *)
(***************************************************************************)
EXTENDS Syntax, CArithmetic

CONSTANT ILL

CType(kind, refs) == [kind |-> kind, refs |-> refs]
CInt == CType("INT", <<>>)
IsPointer(t) == IF t = ILL THEN FALSE ELSE t.kind = "POINTER"
IsScalar(t) == t = CInt \/ IsPointer(t)
Dest(t) == t.refs[1]
PointsToObject(t) == IsPointer(t) /\ Dest(t).kind \notin {"FUNCTION", "VOID"}

(* Arrays and functions as values.                                           *)
Decayed(t) ==
  IF t = ILL THEN ILL
  ELSE CASE t.kind = "ARRAY"    -> CType("POINTER", <<Dest(t)>>)
         [] t.kind = "FUNCTION" -> CType("POINTER", <<t>>)
         [] OTHER               -> t

IsZero(e) == e = IntegerLiteral("0")
IsLvalue(e) ==
  \/ e.type \in {"IDENTIFIER", "ARRAY_SUBSCRIPT"}
  \/ e.type = "UNARY_OPERATION" /\ e.token = "*"
Modifiable(e, t) == IsLvalue(e) /\ IsScalar(t)

(* May the value of e, of type t, become one of type to?                     *)
Converts(e, t, to) == IsScalar(to) /\ (t = to \/ (IsPointer(to) /\ IsZero(e)))

OfUnary(op, e, t) ==
  CASE op \in {"++", "--"} -> IF Modifiable(e, t) THEN t ELSE ILL
    [] op = "&" -> IF t # ILL /\ (IsLvalue(e) \/ t.kind = "FUNCTION") THEN CType("POINTER", <<t>>) ELSE ILL
    [] op = "*" -> IF IsPointer(Decayed(t)) THEN Dest(Decayed(t)) ELSE ILL
    [] op \in {"+", "-", "~"} -> IF t = CInt THEN CInt ELSE ILL
    [] op = "!" -> IF IsScalar(Decayed(t)) THEN CInt ELSE ILL

(* t and u are the types of e and f as values.                               *)
OfBinary(op, e, f, t, u) ==
  IF ILL \in {t, u} THEN ILL
  ELSE CASE op = "," -> u
    [] op \in {"||", "&&"} -> IF IsScalar(t) /\ IsScalar(u) THEN CInt ELSE ILL
    [] op \in {"==", "!="} ->
         IF IsScalar(t) /\ IsScalar(u) /\ (Converts(f, u, t) \/ Converts(e, t, u)) THEN CInt ELSE ILL
    [] op \in {"<", ">", "<=", ">="} -> IF IsScalar(t) /\ t = u THEN CInt ELSE ILL
    [] op = "+" /\ PointsToObject(t) /\ u = CInt -> t
    [] op = "+" /\ PointsToObject(u) /\ t = CInt -> u
    [] op = "-" /\ PointsToObject(t) /\ u = CInt -> t
    [] op = "-" /\ PointsToObject(t) /\ u = t -> CInt
    [] OTHER -> IF t = CInt /\ u = CInt THEN CInt ELSE ILL

(* lhs is the type of e itself, u that of f as a value.                      *)
OfAssignment(op, e, f, lhs, u) ==
  IF ILL \in {lhs, u} THEN ILL
  ELSE IF ~Modifiable(e, lhs) THEN ILL
  ELSE CASE op = "=" -> IF Converts(f, u, lhs) THEN lhs ELSE ILL
         [] op \in {"+=", "-="} -> IF u = CInt THEN lhs ELSE ILL
         [] OTHER -> IF lhs = CInt /\ u = CInt THEN CInt ELSE ILL

OfConditional(c, e, f, t, u) ==
  IF ~IsScalar(c) \/ ILL \in {t, u} THEN ILL
  ELSE IF t = u \/ (IsPointer(t) /\ IsZero(f)) THEN t
  ELSE IF IsPointer(u) /\ IsZero(e) THEN u
  ELSE ILL

(* The arguments of a call are one expression with commas.                   *)
RECURSIVE ListOf(_)
ListOf(e) ==
  IF e.type = "BINARY_OPERATION" /\ e.token = ","
  THEN Append(ListOf(Child(e, 1)), Child(e, 2)) ELSE <<e>>
ArgumentsOf(call) == IF Len(call.children) = 1 THEN <<>> ELSE ListOf(Child(call, 2))

OfCall(t, args, types) ==
  IF ~IsPointer(t) THEN ILL
  ELSE IF /\ Dest(t).kind = "FUNCTION" /\ Len(Dest(t).refs) = Len(args) + 1
          /\ \A i \in DOMAIN args : Converts(args[i], types[i], Dest(t).refs[i + 1])
       THEN Dest(t).refs[1] ELSE ILL

(* The type of an expression under the types env has for names.              *)
RECURSIVE TypeIn(_, _)
ValueType(e, env) == Decayed(TypeIn(e, env))
TypeIn(e, env) ==
  CASE e.type = "INTEGER_LITERAL" -> CInt
    [] e.type = "IDENTIFIER" -> IF e.token \in DOMAIN env THEN env[e.token] ELSE ILL
    [] e.type = "UNARY_OPERATION" -> OfUnary(e.token, Child(e, 1), TypeIn(Child(e, 1), env))
    [] e.type = "POSTFIX_OPERATION" -> OfUnary(e.token, Child(e, 1), TypeIn(Child(e, 1), env))
    [] e.type = "BINARY_OPERATION" ->
         OfBinary(e.token, Child(e, 1), Child(e, 2), ValueType(Child(e, 1), env), ValueType(Child(e, 2), env))
    [] e.type = "ASSIGNMENT" ->
         OfAssignment(e.token, Child(e, 1), Child(e, 2), TypeIn(Child(e, 1), env), ValueType(Child(e, 2), env))
    [] e.type = "CONDITIONAL_OPERATION" ->
         OfConditional(ValueType(Child(e, 1), env), Child(e, 2), Child(e, 3),
                       ValueType(Child(e, 2), env), ValueType(Child(e, 3), env))
    [] e.type = "ARRAY_SUBSCRIPT" ->
         LET sum == OfBinary("+", Child(e, 1), Child(e, 2),
                             ValueType(Child(e, 1), env), ValueType(Child(e, 2), env))
         IN  IF IsPointer(sum) THEN Dest(sum) ELSE ILL
    [] e.type = "FUNCTION_CALL" ->
         LET args == ArgumentsOf(e)
         IN  OfCall(ValueType(Child(e, 1), env), args, [i \in DOMAIN args |-> ValueType(args[i], env)])
    [] e.type = "MEMBER_ACCESS" -> ILL

-----------------------------------------------------------------------------
(* Constant expressions: no names, no side effects, no commas.               *)
IsConstant(e) ==
  \A n \in Nodes(e) :
    \/ n.type \in {"INTEGER_LITERAL", "CONDITIONAL_OPERATION"}
    \/ n.type = "UNARY_OPERATION" /\ n.token \in {"+", "-", "~", "!"}
    \/ n.type = "BINARY_OPERATION" /\ n.token # ","

OnInt(op, n) ==
  IF n = UNDEFINED THEN UNDEFINED
  ELSE CASE op = "+" -> n
         [] op = "-" -> IF Fits(-n, IntBits) THEN -n ELSE UNDEFINED
         [] op = "~" -> BitXor(n, -1, IntBits)
         [] op = "!" -> Truth(n = 0)

RECURSIVE ConstantValue(_)
ConstantValue(e) ==
  LET v(i) == ConstantValue(Child(e, i)) IN
  CASE e.type = "INTEGER_LITERAL" -> atoll(e.token)
    [] e.type = "UNARY_OPERATION" -> OnInt(e.token, v(1))
    [] e.type = "CONDITIONAL_OPERATION" ->
         IF v(1) = UNDEFINED THEN UNDEFINED ELSE IF v(1) = 0 THEN v(3) ELSE v(2)
    [] e.type = "BINARY_OPERATION" /\ e.token \in {"||", "&&"} ->
         IF v(1) = UNDEFINED THEN UNDEFINED
         ELSE IF (v(1) # 0) = (e.token = "||") THEN Truth(v(1) # 0)
         ELSE OnInt("!", OnInt("!", v(2)))
    [] OTHER -> Computed(e.token, v(1), v(2), IntBits)

-----------------------------------------------------------------------------
(* The value of an expression over ints in a function of a unit: its value,  *)
(* the values env of the variables after it, what it reads and writes        *)
(* without a sequence point in between, and whether C defines it.            *)
Outcome(n, env, reads, writes, ok) ==
  [val |-> n, env |-> env, reads |-> reads, writes |-> writes, ok |-> ok]

(* Operands are not sequenced: neither may write what the other touches.     *)
Joined(n, l, r) ==
  Outcome(n, r.env, l.reads \cup r.reads, l.writes \cup r.writes,
          /\ l.ok /\ r.ok
          /\ l.writes \cap (r.reads \cup r.writes) = {}
          /\ r.writes \cap l.reads = {})

(* The variable gets a value computed from r; n is the value of the whole.   *)
Written(name, value, n, r) ==
  Outcome(n, [r.env EXCEPT ![name] = value], r.reads, r.writes \cup {name}, r.ok /\ name \notin r.writes)

StepOf(op) == IF op = "++" THEN "+" ELSE "-"
Definition(unit, name) ==
  CHOOSE d \in {unit[i] : i \in DOMAIN unit} : d.type = "FUNCTION_DEFINITION" /\ Named(Child(d, 1)) = name
ParameterNames(d) ==
  LET f == Child(d, 1) IN [i \in 1 .. Len(f.children) - 1 |-> Named(Child(Child(f, i + 1), 1))]

RECURSIVE ValueIn(_, _, _), Result(_, _, _), CalledWith(_, _, _, _)
WithRight(unit, node, l) == <<l, ValueIn(unit, Child(node, 2), l.env)>>
OfOperands(op, pair) == Joined(Computed(op, pair[1].val, pair[2].val, IntBits), pair[1], pair[2])
OfVariable(name, env) == Outcome(env[name], env, {name}, {}, TRUE)
Stepped(node, name, r) ==
  LET next == Computed(StepOf(node.token), r.val, 1, IntBits)
  IN  Written(name, next, IF node.type = "POSTFIX_OPERATION" THEN r.val ELSE next, r)

(* All arguments, then the call.                                             *)
CalledWith(unit, name, args, r) ==
  LET n == Result(unit, name, args) IN [r EXCEPT !.val = n, !.ok = @ /\ n # UNDEFINED]
OfArguments(unit, name, pair) == CalledWith(unit, name, <<pair[1].val, pair[2].val>>, Joined(0, pair[1], pair[2]))

ValueIn(unit, e, env) ==
  CASE e.type = "INTEGER_LITERAL" -> Outcome(atoll(e.token), env, {}, {}, TRUE)
    [] e.type = "IDENTIFIER" -> OfVariable(e.token, env)
    [] e.type = "UNARY_OPERATION" /\ e.token \in {"+", "-"} ->
         LET r == ValueIn(unit, Child(e, 1), env) IN [r EXCEPT !.val = OnInt(e.token, @)]
    [] e.type = "POSTFIX_OPERATION" \/ (e.type = "UNARY_OPERATION" /\ e.token \in {"++", "--"}) ->
         Stepped(e, Child(e, 1).token, OfVariable(Child(e, 1).token, env))
    [] e.type = "BINARY_OPERATION" ->
         OfOperands(e.token, WithRight(unit, e, ValueIn(unit, Child(e, 1), env)))
    [] e.type = "ASSIGNMENT" ->
         LET r == ValueIn(unit, Child(e, 2), env) IN Written(Child(e, 1).token, r.val, r.val, r)
    [] e.type = "FUNCTION_CALL" ->
         OfArguments(unit, Child(e, 1).token,
                     WithRight(unit, Child(e, 2), ValueIn(unit, Child(Child(e, 2), 1), env)))

(* What the statements of a body return. A variable has no value before it   *)
(* is given one.                                                             *)
RECURSIVE Returned(_, _, _)
AfterStatement(unit, items, r) == IF r.ok THEN Returned(unit, Tail(items), r.env) ELSE UNDEFINED
Returned(unit, items, env) ==
  IF items = <<>> THEN UNDEFINED
  ELSE LET item == Head(items) IN
  CASE item.type = "DECLARATION" ->
         LET d == Child(item, 1)
         IN  Returned(unit, Tail(items),
               (Named(d) :> IF d.type = "BINARY_OPERATION" THEN ConstantValue(Child(d, 2)) ELSE UNDEFINED) @@ env)
    [] item.type = "EXPRESSION_STATEMENT" -> AfterStatement(unit, items, ValueIn(unit, Child(item, 1), env))
    [] item.type = "RETURN_STATEMENT" ->
         IF item.children = <<>> THEN UNDEFINED
         ELSE LET r == ValueIn(unit, Child(item, 1), env) IN IF r.ok THEN r.val ELSE UNDEFINED

Globals(unit) == {Named(Child(unit[i], 1)) : i \in {j \in DOMAIN unit : unit[j].type = "DECLARATION"}}
Result(unit, name, args) ==
  LET d     == Definition(unit, name)
      names == ParameterNames(d)
      env   == [x \in Globals(unit) |-> UNDEFINED]
  IN  Returned(unit, Child(d, 2).children,
               [x \in {names[i] : i \in DOMAIN names} |-> args[CHOOSE i \in DOMAIN names : names[i] = x]] @@ env)
=============================================================================
