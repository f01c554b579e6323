-------------------------------- MODULE IRGen --------------------------------
(***************************************************************************)
(* The instructions of expressions (IR/hlir.c), in one block: the blocks   *)
(* of branches and loops are in module HLIR. Operators go from a state g   *)
(* of the generator to the state they leave:                               *)
(*   next      the next identity of a value, of the whole compilation;     *)
(*   code      the instructions of the block;                              *)
(*   vals      the values the callers hold, the last one returned on top;  *)
(*   locals, globals   the bindings of the function and of the module:     *)
(*             functions from the identities of symbols to values;         *)
(*   fate      as in module Types.                                         *)
(* A value is its kind, its identity, its type, and the number it has if   *)
(* it is a constant. UNSET is an argument slot nothing was stored in.      *)
(*                                                                         *)
(* The symbol of an identifier is the one check_identifier left in its     *)
(* node: syms maps the names of what was declared then. All other names    *)
(* have a node whose symbol was never written, or was moved elsewhere.     *)
(***************************************************************************)
EXTENDS Types

CONSTANT UNSET

IrType(kind, bits, refs) == [kind |-> kind, bits |-> bits, refs |-> refs]
IntType(bits) == IrType("INTEGER", bits, <<>>)
IrPointer(type) == IrType("POINTER", 0, <<type>>)

Value(kind, id, type, n) == [kind |-> kind, id |-> id, type |-> type, const |-> n]

(* An INTLIT has no counterpart and stops the compiler, void has one that    *)
(* does.                                                                      *)
RECURSIVE Convertible(_), type_to_ir_type(_)
Convertible(type) ==
  type.kind \notin {"VOID", "INTLIT"} /\ \A i \in DOMAIN type.refs : Convertible(type.refs[i])
type_to_ir_type(type) ==
  IF type.kind = "INT" THEN IntType(32)
  ELSE IrType(type.kind, 0, [i \in DOMAIN type.refs |-> type_to_ir_type(type.refs[i])])

Instruction(opcode, value, operands) == [opcode |-> opcode, value |-> value, operands |-> operands]
Emitted(g, opcode, value, operands) ==
  [g EXCEPT !.code = Append(@, Instruction(opcode, value, operands))]

(* An instruction of its own identity, whose value is left on top, and a      *)
(* store, which has one too but no value.                                     *)
Computed1(g, id, opcode, type, operands) ==
  Push(Emitted(g, opcode, Value("INSTRUCTION", id, type, 0), operands), Value("INSTRUCTION", id, type, 0))
Computes(g, opcode, type, operands) ==
  Computed1([g EXCEPT !.next = @ + 1], g.next, opcode, type, operands)
Store(g, address, value) ==
  Emitted([g EXCEPT !.next = @ + 1], "STORE", Value("INSTRUCTION", g.next, address.type, 0), <<address, value>>)

Constant(id, n) == Value("CONSTANT", id, IrType("INTLIT", 0, <<>>), n)
make_integer_constant(g, n) == Push([g EXCEPT !.next = @ + 1], Constant(g.next, n))

SymbolOf(node, syms) ==
  IF node.type = "IDENTIFIER" /\ node.token \in DOMAIN syms THEN syms[node.token] ELSE NULL

Bound(g, sym) ==
  IF sym.id \in DOMAIN g.locals THEN g.locals[sym.id]
  ELSE IF sym.id \in DOMAIN g.globals THEN g.globals[sym.id] ELSE NULL

(* The opcodes there are. The type of an arithmetic value is what the left   *)
(* operand has, that of a comparison one bit.                                 *)
arithmetic ==
  ("+" :> "ADD") @@ ("-" :> "SUB") @@ ("*" :> "MUL") @@ ("/" :> "DIV") @@ ("%" :> "REM")
comparison ==
  ("==" :> "CMP_EQ") @@ ("!=" :> "CMP_NE") @@ ("<" :> "CMP_LT") @@ ("<=" :> "CMP_LE")
    @@ (">" :> "CMP_GT") @@ (">=" :> "CMP_GE")

(* Mutant: the operands as they come from the stack. *)
BinaryReversed(g, op) ==
  IF Stopped(g) THEN g
  ELSE IF op \in DOMAIN arithmetic
  THEN Computes(Pop(Pop(g)), arithmetic[op], Under(g).type, <<Top(g), Under(g)>>)
  ELSE Computes(Pop(Pop(g)), comparison[op], IntType(1), <<Top(g), Under(g)>>)
Binary(g, op) ==
  IF Stopped(g) THEN g
  ELSE IF op \in DOMAIN arithmetic
  THEN Computes(Pop(Pop(g)), arithmetic[op], Under(g).type, <<Under(g), Top(g)>>)
  ELSE Computes(Pop(Pop(g)), comparison[op], IntType(1), <<Under(g), Top(g)>>)

Read(g, value) ==
  IF value = NULL THEN Dies(g, "assert")
  ELSE IF value.kind = "PARAMETER" THEN Push(g, value)
  ELSE IF value.type.kind # "POINTER" THEN Dies(g, "assert")
  ELSE Computes(g, "LOAD", value.type.refs[1], <<value>>)

(* The operand, on top, is the value that is returned.                        *)
Postfix(g, op, node, syms) ==
  IF Stopped(g) THEN g
  ELSE IF node.type # "IDENTIFIER" THEN Dies(g, "assert")
  ELSE LET sum == Value("INSTRUCTION", g.next, Top(g).type, 0)
       IN  Store(Emitted([g EXCEPT !.next = @ + 2], IF op = "++" THEN "ADD" ELSE "SUB", sum,
                         <<Top(g), Constant(g.next + 1, 1)>>),
                 Bound(g, SymbolOf(node, syms)), sum)

(* The right side is on top; the variable was looked up before it.            *)
Assignment(g, address) ==
  IF Stopped(g) THEN g
  ELSE IF address = NULL THEN Dies(g, "unset") ELSE Store(g, address, Top(g))

(* The slots of the arguments are below the argument; slot k takes it.        *)
Fill(g, k) ==
  IF Stopped(g) THEN g
  ELSE IF k = 0 THEN Dies(g, "range")
  ELSE [Pop(g) EXCEPT !.vals[Len(g.vals) - 1] = [@ EXCEPT ![k] = Top(g)]]

Call(g, id, function) ==
  IF Stopped(g) THEN g
  ELSE Computed1(Pop(g), id, "CALL", function.type.refs[1], <<function>> \o Top(g))

(* Functions are looked up in the module only.                                *)
Callee(g, sym) == IF sym.id \in DOMAIN g.globals THEN g.globals[sym.id] ELSE NULL
Slots(function) == [i \in 1 .. Len(function.type.refs) - 1 |-> UNSET]

(* The arguments from the last one, which slot k takes, to the first.         *)
RECURSIVE generate_expression(_, _, _), Arguments(_, _, _, _)
Arguments(g, arg, k, syms) ==
  IF Stopped(g) \/ k = 0 THEN g
  ELSE IF arg.type # "BINARY_OPERATION" THEN Dies(g, "assert")
  ELSE IF Child(arg, 1).type = "BINARY_OPERATION"
  THEN Arguments(Fill(generate_expression(g, Child(arg, 2), syms), k), Child(arg, 1), k - 1, syms)
  ELSE Fill(generate_expression(Fill(generate_expression(g, Child(arg, 2), syms), k),
                                Child(arg, 1), syms), k - 1)

generate_function_call(g, arg, function, syms) ==
  IF function = NULL THEN Dies(g, "unset")
  ELSE Call(Arguments(Push([g EXCEPT !.next = @ + 1], Slots(function)), arg, Len(Slots(function)), syms),
            g.next, function)

generate_expression(g, node, syms) ==
  IF Stopped(g) THEN g
  ELSE CASE node.type = "INTEGER_LITERAL" -> make_integer_constant(g, atoll(node.token))
         [] node.type = "IDENTIFIER" ->
              IF SymbolOf(node, syms) = NULL THEN Dies(g, "unset")
              ELSE Read(g, Bound(g, SymbolOf(node, syms)))
         [] node.type = "BINARY_OPERATION" /\ node.token \in DOMAIN arithmetic \cup DOMAIN comparison ->
              Binary(generate_expression(generate_expression(g, Child(node, 1), syms),
                                         Child(node, 2), syms), node.token)
         [] node.type = "POSTFIX_OPERATION" ->
              Postfix(generate_expression(g, Child(node, 1), syms), node.token, Child(node, 1), syms)
         [] node.type = "ASSIGNMENT" /\ node.token = "=" ->
              IF SymbolOf(Child(node, 1), syms) = NULL THEN Dies(g, "unset")
              ELSE Assignment(generate_expression(g, Child(node, 2), syms),
                              Bound(g, SymbolOf(Child(node, 1), syms)))
         [] node.type = "FUNCTION_CALL" ->
              IF SymbolOf(Child(node, 1), syms) = NULL THEN Dies(g, "unset")
              ELSE generate_function_call(g, Child(node, 2), Callee(g, SymbolOf(Child(node, 1), syms)), syms)
         [] OTHER -> Dies(g, "assert")

-----------------------------------------------------------------------------
(* A local variable; its initial value is stored if it is an int.             *)
generate_variable(g, sym) ==
  LET type    == type_to_ir_type(sym.type)
      address == Value("INSTRUCTION", g.next, IrPointer(type), 0)
      alloca  == [Emitted(g, "ALLOCA", address, <<>>)
                    EXCEPT !.next = @ + 1, !.locals = (sym.id :> address) @@ @]
  IN  IF ~Convertible(sym.type) THEN Dies(g, "assert")
      ELSE IF type.kind # "INTEGER" THEN alloca
      ELSE [Emitted(alloca, "STORE", address, <<address, Constant(g.next + 1, sym.value)>>)
              EXCEPT !.next = @ + 1]

(* An item is a statement with the symbols its names were resolved to.        *)
Return(g) == IF Stopped(g) THEN g ELSE Emitted(Pop(g), "RET", Top(g), <<Top(g)>>)
Dropped(g) == IF Stopped(g) THEN g ELSE Pop(g)
generate_statement(g, item) ==
  CASE item.node.type = "DECLARATION" ->
         LET name == Named(Child(item.node, 1)) IN
         IF name \in DOMAIN item.syms THEN generate_variable(g, item.syms[name]) ELSE Dies(g, "unset")
    [] item.node.type = "EXPRESSION_STATEMENT" ->
         Dropped(generate_expression(g, Child(item.node, 1), item.syms))
    [] item.node.type = "RETURN_STATEMENT" ->
         IF item.node.children = <<>> THEN Emitted(g, "RET", UNSET, <<>>)
         ELSE Return(generate_expression(g, Child(item.node, 1), item.syms))

(* The statements up to the first return, or one behind the last.             *)
RECURSIVE generate_compound_statement(_, _)
generate_compound_statement(g, items) ==
  IF Stopped(g) THEN g
  ELSE IF items = <<>> THEN Emitted(g, "RET", UNSET, <<>>)
  ELSE IF Head(items).node.type = "RETURN_STATEMENT" THEN generate_statement(g, Head(items))
  ELSE generate_compound_statement(generate_statement(g, Head(items)), Tail(items))

(* A function is its symbol, the symbols of its scope and its items. It is    *)
(* bound in the module when it is finished.                                   *)
ParametersOf(function) ==
  LET IsParameter(sym) == sym.kind = "PARAMETER" IN SelectSeq(function.symbols, IsParameter)

BindFunction(g, id, value, params) ==
  IF Stopped(g) THEN g
  ELSE [g EXCEPT !.globals = (id :> value) @@ @,
                 !.functions = Append(@, [value |-> value, parameters |-> params, code |-> g.code])]

generate_function(g, function) ==
  LET params == ParametersOf(function)
      values == [i \in DOMAIN params |->
                   Value("PARAMETER", g.next + 1 + i, type_to_ir_type(params[i].type), 0)]
      self   == Value("FUNCTION", g.next, type_to_ir_type(function.symbol.type), 0)
      locals == [id \in {params[i].id : i \in DOMAIN params} |->
                   values[CHOOSE i \in DOMAIN params : params[i].id = id]]
  IN  IF \/ ~Convertible(function.symbol.type)
         \/ \E i \in DOMAIN function.symbols : function.symbols[i].kind = "FUNCTION"
      THEN Dies(g, "assert")
      ELSE BindFunction(generate_compound_statement(
                          [g EXCEPT !.next = @ + 2 + Len(params), !.locals = locals, !.code = <<>>],
                          function.items),
                        function.symbol.id, self, values)

(* The global variables, before all functions.                                *)
generate_global(g, sym) ==
  LET value == Value("GLOBAL", g.next, type_to_ir_type(sym.type), sym.value)
  IN  IF ~Convertible(sym.type) THEN Dies(g, "assert")
      ELSE [g EXCEPT !.next = @ + 1, !.globals = (sym.id :> value) @@ @,
                     !.variables = Append(@, value)]

-----------------------------------------------------------------------------
(* The printer (Diagnostics/printer.c) knows integers and pointers only; a    *)
(* constant is printed without its type.                                      *)
RECURSIVE Printable(_)
Printable(type) ==
  type.kind = "INTEGER" \/ (type.kind = "POINTER" /\ Printable(type.refs[1]))
PrintableValue(value) == value.kind = "CONSTANT" \/ Printable(value.type)

(* What print_hlir_instruction prints of it: the name only of a callee.       *)
Shown(inst) ==
  CASE inst.opcode \in {"STORE", "RET"} -> {inst.operands[i] : i \in DOMAIN inst.operands}
    [] inst.opcode = "CALL" ->
         {inst.value} \cup {inst.operands[i] : i \in 2 .. Len(inst.operands)}
    [] OTHER -> {inst.value} \cup {inst.operands[i] : i \in DOMAIN inst.operands}

ShownOf(function) ==
  {function.parameters[i] : i \in DOMAIN function.parameters}
    \cup UNION {Shown(function.code[i]) : i \in DOMAIN function.code}

print_hlir(g) ==
  LET values == UNION {ShownOf(g.functions[i]) : i \in DOMAIN g.functions}
                  \cup {g.variables[i] : i \in DOMAIN g.variables}
  IN  IF UNSET \in values THEN Dies(g, "unset")
      ELSE IF /\ \A value \in values : PrintableValue(value)
              /\ \A i \in DOMAIN g.functions : Printable(g.functions[i].value.type.refs[1])
           THEN g ELSE Dies(g, "assert")
==============================================================================
