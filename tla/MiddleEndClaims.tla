-------------------------- MODULE MiddleEndClaims --------------------------
(***************************************************************************)
(* What the phases behind the parser promise, against C (CReference) and   *)
(* against themselves.                                                     *)
(***************************************************************************)
EXTENDS MiddleEnd, CReference, IRExecution

CONSTANT
  Samples     (* the numbers functions are called with                       *)

UnitNodes(unit) == UNION {Nodes(unit[i]) : i \in DOMAIN unit}

(* The types of the names an expression was checked with, as C has them.      *)
RECURSIVE InC(_)
InC(type) == IF type = NULL THEN ILL ELSE
  CType(IF type.kind = "INTLIT" THEN "INT" ELSE type.kind, [i \in DOMAIN type.refs |-> InC(type.refs[i])])
TypesOf(symbols) ==
  [name \in {sym.name : sym \in symbols} |-> InC((CHOOSE sym \in symbols : sym.name = name).type)]

(* The checks that came to an end in the unit so far.                         *)
FinishedChecks == {c \in {sema.checked[i] : i \in DOMAIN sema.checked} : c.fate = "runs"}

-----------------------------------------------------------------------------
(* An expression without a type is reported, unless a name in it was never    *)
(* declared: check_identifier is the only check that returns NULL in silence  *)
(* (typechecker.c:666).                                                       *)
SilentOnlyUndeclared ==
  \A c \in FinishedChecks :
    c.silent => \E n \in Nodes(c.node) : n.type = "IDENTIFIER" /\ n.token \notin DOMAIN TypesOf(c.symbols)

-----------------------------------------------------------------------------
(* Where the checker is laxer than C: it does not ask for lvalues, any two    *)
(* pointers go together, and any binary operation is taken for two arguments. *)
Lax(n, env) ==
  \/ /\ n.type \in {"ASSIGNMENT", "POSTFIX_OPERATION", "UNARY_OPERATION"}
     /\ n.token \in {"=", "++", "--", "&"}
     /\ ~IsLvalue(Child(n, 1))
  \/ /\ n.type \in {"ASSIGNMENT", "BINARY_OPERATION"}
     /\ IsPointer(ValueType(Child(n, 1), env)) /\ IsPointer(ValueType(Child(n, 2), env))
     /\ ValueType(Child(n, 1), env) # ValueType(Child(n, 2), env)
  \/ n.type = "FUNCTION_CALL" /\ \E arg \in Range(ArgumentsOf(n)) : arg.type = "BINARY_OPERATION"

(* Where it is stricter: no operator with assignment, no value of an array or *)
(* a function, no null pointer, no subscript of a pointer, and a call has two *)
(* arguments or more, of which the first is no binary operation.              *)
Strict(n, env) ==
  \/ n.type = "ASSIGNMENT" /\ n.token # "="
  \/ /\ n.type \in {"UNARY_OPERATION", "BINARY_OPERATION", "ASSIGNMENT", "CONDITIONAL_OPERATION"}
     /\ \/ \E e \in Range(n.children) :
             TypeIn(e, env) # ILL /\ ValueType(e, env) # TypeIn(e, env)
        \/ \E e, f \in Range(n.children) : IsZero(e) /\ IsPointer(ValueType(f, env))
  \/ n.type = "ARRAY_SUBSCRIPT" /\ IsPointer(TypeIn(Child(n, 1), env))
  \/ /\ n.type = "FUNCTION_CALL"
     /\ Len(ArgumentsOf(n)) < 2 \/ Head(ArgumentsOf(n)).type = "BINARY_OPERATION"


-----------------------------------------------------------------------------
(* The initializer of a global variable that C takes for a constant         *)
(* expression is accepted, with the value it has in C, however deep the      *)
(* evaluator has to go. The code has no value for ^, and it also computes    *)
(* what C does not evaluate: a quotient there can kill the compiler.         *)
Initializer(d) == Child(Child(d, 1), 2)
IsConstantInt(e) ==
  /\ IsConstant(e) /\ TypeIn(e, <<>>) = CInt /\ ConstantValue(e) # UNDEFINED
  /\ \A n \in Nodes(e) : n.token # "^"

(* The first declaration of an int of that name, with such an initializer.    *)
InitializesInt(d) ==
  /\ d.type = "DECLARATION" /\ d.token = "int"
  /\ Child(d, 1).type = "BINARY_OPERATION" /\ Child(Child(d, 1), 1).type = "DECLARATOR"
  /\ IsConstantInt(Initializer(d))
  /\ \A i \in 1 .. position - 2 : Named(Child(Unit[i], 1)) # Named(Child(d, 1))

ConstantsTrue ==
  phase = "sema" /\ position > 1 =>
    LET d == Unit[position - 1] IN
    InitializesInt(d) =>
      /\ sema.fate = "trap" =>
           \E n \in Nodes(Initializer(d)) : n.token \in {"/", "%"} /\ ConstantValue(Child(n, 2)) = 0
      /\ sema.fate = "runs" =>
           \E sym \in Symbols(sema) :
             sym.name = Named(Child(d, 1)) /\ sym.value = ConstantValue(Initializer(d))

-----------------------------------------------------------------------------
(* What the generator gives another meaning than C: it types a computation    *)
(* like its left operand, which is one bit for a comparison (hlir.c:150), and *)
(* it has no memory for parameters, so an assignment to one is not seen.      *)
RECURSIVE OneBit(_)
OneBit(e) ==
  \/ e.type = "BINARY_OPERATION" /\ e.token \in DOMAIN comparison
  \/ e.type = "BINARY_OPERATION" /\ e.token \in DOMAIN arithmetic /\ OneBit(Child(e, 1))
  \/ e.type = "UNARY_OPERATION" /\ e.token \in {"+", "-"} /\ OneBit(Child(e, 1))
  \/ e.type = "ASSIGNMENT" /\ OneBit(Child(e, 2))

Narrowed(n) ==
  \/ n.type = "BINARY_OPERATION" /\ n.token \in DOMAIN arithmetic /\ OneBit(Child(n, 1))
  \/ n.type = "UNARY_OPERATION" /\ n.token = "-" /\ OneBit(Child(n, 1))

Writes(n) == n.type \in {"ASSIGNMENT", "POSTFIX_OPERATION"} \/ n.token \in {"++", "--"}
WritesParameter(d) ==
  \E n \in Nodes(Child(d, 2)) : Writes(n) /\ Child(n, 1).token \in Range(ParameterNames(d))

FunctionsOf(unit) == LET IsFunction(d) == d.type = "FUNCTION_DEFINITION" IN SelectSeq(unit, IsFunction)
ValueFaithful(unit) ==
  \A d \in Range(FunctionsOf(unit)) :
    /\ ~WritesParameter(d)
    /\ \A n \in Nodes(Child(d, 2)) : ~Narrowed(n)

(* The instructions of a function compute what C says it returns, wherever C  *)
(* says it: the order of loads and stores, the operands of each instruction,  *)
(* the rewriting of ++, -- and the signs, and the arguments of calls.         *)
ValuesPreserved ==
  phase = "print" /\ ir.fate = "runs" /\ ValueFaithful(Unit) =>
    \A f \in DOMAIN ir.functions :
      LET d == FunctionsOf(Unit)[f] IN
      d.token = "int" =>
        \A args \in [1 .. Len(ir.functions[f].parameters) -> Samples] :
          LET n == Result(Unit, Named(Child(d, 1)), args)
          IN  n # UNDEFINED => Executed(ir.functions, f, args) = n

-----------------------------------------------------------------------------
(* The language the compiler is finished for. names are those of variables    *)
(* that can be read; functions are the definitions before this one: nothing   *)
(* calls itself. A computation does not begin with what is a literal in the   *)
(* end, calls have no more arguments than parameters, and arguments have no   *)
(* prefix operators.                                                          *)
RECURSIVE IsSigned(_), LiteralTyped(_), Supported(_, _, _)
IsSigned(e) ==
  \/ e.type = "INTEGER_LITERAL"
  \/ e.type = "UNARY_OPERATION" /\ e.token \in {"+", "-"} /\ IsSigned(Child(e, 1))
LiteralTyped(e) ==
  \/ IsSigned(e)
  \/ e.type \in {"UNARY_OPERATION", "ASSIGNMENT"} /\ LiteralTyped(Child(e, Len(e.children)))

IsVariable(e, names) == e.type = "IDENTIFIER" /\ e.token \in names
SupportedCall(e, functions) ==
  LET args == ArgumentsOf(e) IN
  /\ \E f \in Range(functions) : /\ Child(e, 1) = Identifier(Named(Child(f, 1)))
                                 /\ Len(args) <= Len(ParameterNames(f))
  /\ Len(args) > 1 /\ Head(args).type # "BINARY_OPERATION"
  /\ \A arg \in Range(args) : \A n \in Nodes(arg) : n.type # "UNARY_OPERATION"

Supported(e, names, functions) ==
  LET Parts == \A i \in DOMAIN e.children : Supported(Child(e, i), names, functions) IN
  CASE e.type = "INTEGER_LITERAL" -> TRUE
    [] e.type = "IDENTIFIER" -> e.token \in names
    [] e.type = "UNARY_OPERATION" ->
         /\ Parts
         /\ \/ e.token = "+"
            \/ e.token = "-" /\ (LiteralTyped(Child(e, 1)) => IsSigned(Child(e, 1)))
            \/ e.token \in {"++", "--"} /\ IsVariable(Child(e, 1), names)
    [] e.type = "POSTFIX_OPERATION" -> IsVariable(Child(e, 1), names)
    [] e.type = "BINARY_OPERATION" ->
         /\ Parts
         /\ \/ e.token \in DOMAIN comparison
            \/ e.token \in DOMAIN arithmetic /\ ~LiteralTyped(Child(e, 1))
    [] e.type = "ASSIGNMENT" -> e.token = "=" /\ IsVariable(Child(e, 1), names) /\ Parts
    [] e.type = "FUNCTION_CALL" ->
         /\ SupportedCall(e, functions)
         /\ \A arg \in Range(ArgumentsOf(e)) : Supported(arg, names, functions)
    [] OTHER -> FALSE

(* An int or a pointer, initialized by a literal or not at all.               *)
RECURSIVE SupportedDeclarator(_)
SupportedDeclarator(d) ==
  \/ d.type = "DECLARATOR"
  \/ d.type = "POINTER_TYPE" /\ SupportedDeclarator(Child(d, 1))
  \/ d.type = "BINARY_OPERATION" /\ SupportedDeclarator(Child(d, 1))
       /\ \A n \in Nodes(Child(d, 2)) : n.type = "BINARY_OPERATION" => n.token \notin {"/", "%"}
SupportedVariable(d) == d.token = "int" /\ SupportedDeclarator(Child(d, 1))

(* The declarations of a unit and the statements of a body, in which what is  *)
(* named is declared before it is used.                                       *)
NamesOf(ds) == {Named(Child(d, 1)) : d \in Range(ds)}
Before(seq, i, type) == LET IsOf(d) == d.type = type IN SelectSeq(SubSeq(seq, 1, i - 1), IsOf)

SupportedItem(item, names, functions) ==
  CASE item.type = "DECLARATION" -> SupportedVariable(item)
    [] item.type = "EXPRESSION_STATEMENT" ->
         item.children # <<>> /\ Supported(Child(item, 1), names, functions)
    [] item.type = "RETURN_STATEMENT" ->
         item.children # <<>> => Supported(Child(item, 1), names, functions)

SupportedFunction(d, globals, functions) ==
  LET items  == Child(d, 2).children
      params == Tail(Child(d, 1).children)
  IN  /\ d.token = "int" /\ Child(d, 1).type = "FUNCTION_TYPE"
      /\ \A param \in Range(params) : SupportedVariable(param)
      /\ \A i \in DOMAIN items :
           SupportedItem(items[i], globals \cup NamesOf(params \o Before(items, i, "DECLARATION")), functions)

SupportedDefinitions(unit) ==
  \A i \in DOMAIN unit :
    LET variables == Before(unit, i, "DECLARATION")
        IsPointerTo(d) == Child(d, 1).type = "POINTER_TYPE"
    IN  IF unit[i].type = "DECLARATION" THEN SupportedVariable(unit[i])
        ELSE /\ Named(Child(unit[i], 1)) \notin NamesOf(variables)
             /\ SupportedFunction(unit[i], NamesOf(SelectSeq(variables, IsPointerTo)),
                                  Before(unit, i, "FUNCTION_DEFINITION"))

(* No array outgrows its first room: that of the forged tokens, those of the  *)
(* symbols of a scope, and the one a tree is printed with.                    *)
FileNames(unit) == [i \in DOMAIN unit |-> Named(Child(unit[i], 1))]
InnerNames(d) ==
  LET IsDeclaration(item) == item.type = "DECLARATION"
  IN  ParameterNames(d) \o FileNames(SelectSeq(Child(d, 2).children, IsDeclaration))

FitsArrays(unit) ==
  LET items(d)  == Child(d, 2).children
      forged(d) == MapThenSumSet(LAMBDA i : ForgedIn(items(d)[i]), DOMAIN items(d))
      functions == FunctionsOf(unit)
      rewritten(d) == DesugaredTree([i \in DOMAIN items(d) |-> desugar_statement(items(d)[i])])
  IN  /\ MapThenSumSet(LAMBDA k : forged(functions[k]), DOMAIN functions) <= Capacity
      /\ Len(unit) <= Capacity
      /\ \A d \in Range(functions) : Len(InnerNames(d)) <= Capacity
      /\ \A tree \in Range(unit) \cup {rewritten(d) : d \in Range(functions)} : 1 + Height(tree) <= PrintDepth

SupportedUnit(unit) == SupportedDefinitions(unit) /\ FitsArrays(unit)


-----------------------------------------------------------------------------
(* What becomes of a unit does not depend on those compiled before it: their  *)
(* symbols, diagnostics, bindings and functions are gone, only the numbers go *)
(* on. Code is compared with its numbers counted from its first one.          *)
From(code) ==
  LET first    == code[1].value.id
      value(v) == IF v = UNSET THEN v ELSE [v EXCEPT !.id = @ - first]
  IN  [f \in DOMAIN code |->
        [value |-> value(code[f].value),
         parameters |-> [i \in DOMAIN code[f].parameters |-> value(code[f].parameters[i])],
         code |-> [i \in DOMAIN code[f].code |->
           LET inst == code[f].code[i] IN
           [opcode |-> inst.opcode, value |-> value(inst.value),
            operands |-> [k \in DOMAIN inst.operands |-> value(inst.operands[k])]]]]]

UnitsIndependent ==
  \A v, w \in Range(verdicts) :
    v.unit = w.unit => v.errors = w.errors /\ From(v.code) = From(w.code)

-----------------------------------------------------------------------------
(* Every type is freed once: none twice, but by the error path of a subscript *)
(* (typechecker.c:401), and none is left when all files are finished, but for *)
(* redeclarations, arrays without a size, and the parameters of functions     *)
(* that were called (typechecker.c:460).                                      *)
HasSubscript(unit) == \E n \in UnitNodes(unit) : n.type = "ARRAY_SUBSCRIPT"

Redeclares(unit) ==
  \/ ~IsInjective(FileNames(unit))
  \/ \E d \in Range(FunctionsOf(unit)) :
       ~IsInjective(InnerNames(d)) \/ Range(InnerNames(d)) \cap Range(FileNames(unit)) # {}

LosesTypes(unit) ==
  \/ Redeclares(unit)
  \/ \E n \in UnitNodes(unit) :
       \/ n.type = "FUNCTION_CALL"
       \/ n.type = "ARRAY_TYPE" /\ ~eval_constant_expression(Child(n, 2), 0).is_valid

TypesFreedOnce ==
  /\ sema.fate = "freed" => HasSubscript(Unit)
  /\ (phase = "done" /\ \A v \in Range(verdicts) : ~LosesTypes(v.unit)) => sema.live = {}
=============================================================================
