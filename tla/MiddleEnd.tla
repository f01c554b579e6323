------------------------------ MODULE MiddleEnd ------------------------------
(***************************************************************************)
(* What compile_unit (Driver/main.c) does with the tree of each file, one  *)
(* file after the other: its printing, the semantic analysis of its        *)
(* declarations (Sema/sema.c, with the checker and the evaluator), the     *)
(* desugaring, after which the tree is printed again, the generation of    *)
(* instructions and their printing. The tree of a file is                  *)
(* the sequence of its external declarations. Bodies have no branches,     *)
(* loops or blocks; the scopes of those are in module Scopes, their code   *)
(* in modules HLIR and HLIRFlow.                                           *)
(*                                                                         *)
(* What is not reset from file to file is kept in sema and ir: the numbers *)
(* of symbols, of types, and of the values of the instructions.            *)
(*                                                                         *)
(* Two kinds of arrays hold what others point into: the forged tokens of a *)
(* file and the symbols of a scope. One that is full is given twice the    *)
(* room (array_push of array.h), where it is or elsewhere, and in the      *)
(* latter case what was pointed to is gone. The tables of bindings are     *)
(* functions here (IRGen); the one of the code is extended at the 22nd     *)
(* binding, for which a scope must have more symbols than Capacity.        *)
(***************************************************************************)
EXTENDS TypeChecker, Evaluator, Desugar, IRGen

CONSTANTS
  Compilations,  (* the sequences of files that are compiled; a function is  *)
                 (* defined by a name with parameters, behind stars or not   *)
  Unwritten,     (* what memory that was never written may hold              *)
  Capacity,      (* ARRAY_INITIAL_CAPACITY: 20                               *)
  PrintDepth     (* the room for ancestors when a tree is printed: 256       *)

ASSUME MiddleEndAssumption == Capacity \in 1 .. 21 /\ PrintDepth \in Nat

VARIABLES
  files,     (* the files that are not finished; the first is compiled       *)
  phase,     (* "tree", "sema", "desugar", "globals", "functions", "print"   *)
             (* or "done"                                                    *)
  position,  (* the declaration or function the phase has come to            *)
  sema,      (* the state of the semantic analysis                           *)
  ir,        (* the state of the generator                                   *)
  verdicts   (* history: what became of the finished files                   *)

vars == <<files, phase, position, sema, ir, verdicts>>

Unit == Head(files)

-----------------------------------------------------------------------------
(* Declarations (Sema/sema.c).                                                *)
process_simple_type(s, keyword) == CreateType(s, IF keyword = "int" THEN "INT" ELSE "VOID", <<>>)

(* The type of a declarator, around the one on top; the walk ends at a name   *)
(* or at a function, whose result the type is then.                           *)
RECURSIVE DeclaratorType(_, _), Inner(_)

(* An array around the type on top; of one without a size the node is lost.   *)
SizedArray(s, size, d) ==
  IF size.trap THEN Dies(s, "trap")
  ELSE IF size.is_valid THEN DeclaratorType(Over(s, "ARRAY", <<Top(s)>>), d)
  ELSE Push(Pop(PushError(FreeType(Over(s, "ARRAY", <<Top(s)>>), Top(s)))), NULL)
DeclaratorType(s, d) ==
  CASE d.type = "POINTER_TYPE" -> DeclaratorType(Over(s, "POINTER", <<Top(s)>>), Child(d, 1))
    [] d.type = "ARRAY_TYPE" ->
         IF Len(d.children) = 1 THEN Dies(s, "range")
         ELSE SizedArray(s, eval_constant_expression(Child(d, 2), s.unwritten), Child(d, 1))
    [] d.type = "BINARY_OPERATION" -> DeclaratorType(s, Child(d, 1))
    [] OTHER -> s
process_type(s, node) == DeclaratorType(process_simple_type(s, node.token), Child(node, 1))

Inner(d) == IF d.type \in {"POINTER_TYPE", "ARRAY_TYPE", "BINARY_OPERATION"} THEN Inner(Child(d, 1)) ELSE d

(* Types of the parameters of a prototype, on top of each other.              *)
RECURSIVE ParameterTypes(_, _)
ParameterTypes(s, params) ==
  IF params = <<>> \/ Stopped(s) THEN s
  ELSE ParameterTypes(process_type(s, Head(params)), Tail(params))

(* The n types on top of a result become a function type.                     *)
FunctionType(s, n) ==
  LET refs == SubSeq(s.vals, Len(s.vals) - n, Len(s.vals))
  IN  CreateType([s EXCEPT !.vals = SubSeq(@, 1, Len(@) - n - 1)], "FUNCTION", refs)

generate_symbol_id(s) == [s EXCEPT !.symbolId = @ + 1]

Symbol(name, kind, type, value, id) ==
  [name |-> name, kind |-> kind, type |-> type, value |-> value, id |-> id]

(* A symbol is inserted with its type, which was on top. The value of its     *)
(* initializer is kept for integers and pointers.                             *)
Declared(s, d, kind, initial) ==
  IF Stopped(s) THEN s
  ELSE IF ~initial.is_valid THEN Pop(TypeError(s, 1))
  ELSE IF kind = "FUNCTION" /\ Child(Inner(d), 1).type # "DECLARATOR" THEN Dies(s, "assert")
  ELSE SymbolInsert(Pop(s), Symbol(Named(d), kind, Top(s),
         IF kind = "VARIABLE" /\ Top(s).kind \in {"INT", "POINTER"} THEN initial.val ELSE 0,
         s.symbolId - 1))

(* The initializer is evaluated, and nothing else is looked at in it.         *)
InitialValue(s, d) ==
  IF d.type = "BINARY_OPERATION" THEN eval_constant_expression(Child(d, 2), s.unwritten) ELSE Valid(0)

DeclareTyped(s, d, initial) ==
  LET inner == Inner(d) IN
  IF Stopped(s) THEN s
  ELSE IF initial.trap THEN Dies(s, "trap")
  ELSE IF Top(s) = NULL THEN Pop(s)
  ELSE IF inner.type # "FUNCTION_TYPE" THEN Declared(s, d, "VARIABLE", initial)
  ELSE Declared(FunctionType(ParameterTypes(s, Tail(inner.children)), Len(inner.children) - 1),
                d, "FUNCTION", initial)

process_declaration(s, node) ==
  DeclareTyped(process_type(generate_symbol_id(s), node), Child(node, 1), InitialValue(s, Child(node, 1)))

(* A parameter without a type has no declarator either.                       *)
DeclareParameter(s, d) ==
  IF Stopped(s) THEN s
  ELSE IF Top(s) = NULL THEN Dies(s, "unset")
  ELSE IF Inner(d).type # "DECLARATOR" THEN Dies(s, "assert")
  ELSE SymbolInsert(Pop(s), Symbol(Named(d), "PARAMETER", Top(s), 0, s.symbolId - 1))
process_parameter(s, node) ==
  IF Stopped(s) THEN s
  ELSE DeclareParameter(process_type(generate_symbol_id(s), node), Child(node, 1))

(* What was inserted under this number gets one more parameter. A function    *)
(* that was not inserted is lost, with its parameters.                        *)
WithParameter(s, id) ==
  IF Stopped(s) THEN s
  ELSE [Pop(s) EXCEPT !.scopes[1] =
     [i \in DOMAIN @ |-> IF @[i].id = id THEN [@[i] EXCEPT !.type.refs = Append(@, Top(s))] ELSE @[i]]]

(* Every parameter has its type processed twice: for the function, and for    *)
(* its own symbol.                                                            *)
RECURSIVE ProcessParameters(_, _, _)
ProcessParameters(s, params, id) ==
  IF params = <<>> \/ Stopped(s) THEN s
  ELSE ProcessParameters(process_parameter(WithParameter(process_type(s, Head(params)), id), Head(params)),
                         Tail(params), id)

-----------------------------------------------------------------------------
(* Statements. Every expression that is checked goes into the history, with   *)
(* the symbols there are and the type that came out, or NULL.                 *)
Checked(s, node) ==
  LET after == check_expression(s, node)
  IN  [after EXCEPT !.checked =
         Append(@, [node |-> node, symbols |-> Symbols(s), type |-> Top(after),
                    silent |-> Top(after) = NULL /\ after.errors = s.errors, fate |-> after.fate])]

(* The types are compared before the expression's is freed.                   *)
CheckReturn(s, function) ==
  IF Stopped(s) THEN s
  ELSE IF Top(s) = NULL THEN Pop(s)
  ELSE IF function.kind # "FUNCTION" THEN Dies(s, "assert")
  ELSE IF CompareTypes(Top(s), function.type.refs[1]) THEN Drop(s) ELSE Drop(PushError(s))

process_return(s, node, function) ==
  IF node.children # <<>> THEN CheckReturn(Checked(s, Child(node, 1)), function)
  ELSE IF function.kind # "FUNCTION" THEN Dies(s, "assert")
  ELSE IF function.type.refs[1].kind = "VOID" THEN s ELSE PushError(s)

DropUnlessStopped(s) == IF Stopped(s) THEN s ELSE Drop(s)

(* name is that of the function the item is in.                               *)
process_AST_node(s, node, name) ==
  CASE node.type = "DECLARATION" -> process_declaration(s, node)
    [] node.type = "EXPRESSION_STATEMENT" ->
         IF node.children = <<>> THEN s ELSE DropUnlessStopped(Checked(s, Child(node, 1)))
    [] node.type = "RETURN_STATEMENT" -> process_return(s, node, ResolveSymbol(s, name))

(* An item with the symbols its names have, and how many there were in each   *)
(* scope: for a declaration those after it.                                   *)
Resolved(before, after, node) ==
  LET s       == IF node.type = "DECLARATION" THEN after ELSE before
      symbols == Symbols(s)
  IN  [node |-> node, sizes |-> [k \in DOMAIN s.scopes |-> Len(s.scopes[k])],
       syms |-> [name \in {sym.name : sym \in symbols} |-> CHOOSE sym \in symbols : sym.name = name]]

RECURSIVE ProcessItems(_, _, _)
ProcessItem(s, node, name) ==
  LET after == process_AST_node(s, node, name)
  IN  [after EXCEPT !.items = Append(@, Resolved(s, after, node))]
ProcessItems(s, items, name) ==
  IF items = <<>> \/ Stopped(s) THEN s
  ELSE ProcessItems(ProcessItem(s, Head(items), name), Tail(items), name)

(* The scope of a function stays, under the number of its symbol.             *)
EndFunction(s, id) ==
  IF Stopped(s) THEN s
  ELSE [s EXCEPT !.scopes = SubSeq(@, 1, 1), !.items = <<>>,
                 !.functions = Append(@, [id |-> id, symbols |-> s.scopes[2], items |-> s.items])]

(* What is defined is a name with parameters, or the compiler looks for it in *)
(* what is not there.                                                         *)
InsertFunction(s, d, id) ==
  IF d.type # "FUNCTION_TYPE" THEN Dies(s, "unset")
  ELSE [SymbolInsert(Pop(s), Symbol(Named(d), "FUNCTION", Top(s), 0, id)) EXCEPT !.scopes = Append(@, <<>>)]

process_function_definition(s, node) ==
  LET d      == Child(node, 1)
      typed  == FunctionType(process_simple_type(generate_symbol_id(s), node.token), 0)
      inside == ProcessParameters(InsertFunction(typed, d, s.symbolId), Tail(d.children), s.symbolId)
  IN  EndFunction(ProcessItems(inside, Child(node, 2).children, Named(d)), s.symbolId)

(* free_scopes, at the end of a unit.                                         *)
RECURSIVE FreeSymbols(_, _)
FreeSymbols(s, symbols) ==
  IF symbols = <<>> THEN s ELSE FreeSymbols(FreeType(s, Head(symbols).type), Tail(symbols))

RECURSIVE FreeFunctions(_, _)
FreeFunctions(s, functions) ==
  IF functions = <<>> THEN s ELSE FreeFunctions(FreeSymbols(s, Head(functions).symbols), Tail(functions))

free_scopes(s) ==
  [FreeSymbols(FreeFunctions(s, s.functions), s.scopes[1]) EXCEPT !.scopes = <<>>, !.functions = <<>>]

-----------------------------------------------------------------------------
(* Where the evaluator may come to a ^. Nothing else reads what is unwritten. *)
EvaluatesXor(unit) ==
  \E d \in UNION {Nodes(unit[i]) : i \in DOMAIN unit} :
    d.type \in {"DECLARATION", "PARAMETER"} /\ \E n \in Nodes(d) : n.token = "^"

Init ==
  /\ files \in Compilations
  /\ phase = "tree"
  /\ position = 1
  /\ \E n \in IF \E i \in DOMAIN files : EvaluatesXor(files[i]) THEN Unwritten ELSE {0} :
     sema = [unwritten |-> n, next |-> 0, live |-> {}, vals |-> <<>>, errors |-> 0, fate |-> "runs",
             scopes |-> << <<>> >>, functions |-> <<>>, items |-> <<>>, symbolId |-> 0, checked |-> <<>>]
  /\ ir = [next |-> 0, code |-> <<>>, vals |-> <<>>, locals |-> <<>>, globals |-> <<>>,
           functions |-> <<>>, variables |-> <<>>, fate |-> "runs"]
  /\ verdicts = <<>>

Runs == ~Stopped(sema) /\ ~Stopped(ir)

(* The room of an array that had room for n elements first, and holds m.      *)
RECURSIVE Room(_, _)
Room(n, m) == IF m <= n THEN n ELSE Room(2 * n, m)

(* The deeper a node, the further it writes into an array of the caller; the  *)
(* root of the trees of a file has no parent.                                 *)
Printed(s, trees) ==
  IF \A i \in DOMAIN trees : 1 + Height(trees[i]) <= PrintDepth THEN {s} ELSE {s, Dies(s, "range")}

(* The tree as it was parsed. It is printed once more after the analysis,     *)
(* when declarations have lost their children.                                *)
print_AST ==
  /\ Runs /\ phase = "tree"
  /\ sema' \in Printed(sema, Unit)
  /\ phase' = "sema"
  /\ UNCHANGED <<files, position, ir, verdicts>>

CreateScopes ==
  /\ Runs /\ phase = "sema" /\ position <= Len(Unit)
  /\ sema' = IF Unit[position].type = "DECLARATION"
             THEN process_declaration(sema, Unit[position])
             ELSE process_function_definition(sema, Unit[position])
  /\ position' = position + 1
  /\ UNCHANGED <<files, phase, ir, verdicts>>

(* The buffer of diagnostics begins a file empty.                             *)
(* Mutant: what was reported of other files is still in it. *)
init_errors_once(s) == s
init_errors(s) == [s EXCEPT !.errors = 0]

(* The next file, with the numbers where they are. What is said of a file:    *)
(* its diagnostics and its code.                                              *)
NextUnit(s, code) ==
  /\ sema' = IF Stopped(s) \/ Len(files) = 1 THEN s
             ELSE [init_errors(s) EXCEPT !.scopes = Append(@, <<>>), !.checked = <<>>]
  /\ IF Stopped(s)
     THEN UNCHANGED <<files, phase, position, ir, verdicts>>
     ELSE /\ verdicts' = Append(verdicts, [unit |-> Unit, errors |-> s.errors, code |-> code])
          /\ files' = Tail(files)
          /\ phase' = IF Len(files) = 1 THEN "done" ELSE "tree"
          /\ position' = 1
          /\ ir' = [ir EXCEPT !.code = <<>>, !.functions = <<>>, !.variables = <<>>,
                              !.locals = <<>>, !.globals = <<>>]

EndSema ==
  /\ Runs /\ phase = "sema" /\ position > Len(Unit)
  /\ IF sema.errors > 0
     THEN NextUnit(free_scopes(sema), <<>>)
     ELSE phase' = "desugar" /\ UNCHANGED <<files, position, sema, ir, verdicts>>

(* The tokens that are forged for all bodies of a file.                       *)
ForgedForAll(functions) ==
  LET OfItems(items) == MapThenSumSet(LAMBDA i : ForgedIn(items[i].node), DOMAIN items)
  IN  MapThenSumSet(LAMBDA f : OfItems(functions[f].items), DOMAIN functions)

(* A definition as it is printed then: declarations have no children.         *)
DesugaredTree(items) ==
  LET Bare(node) == IF node.type = "DECLARATION" THEN [node EXCEPT !.children = <<>>] ELSE node
  IN  Node("FUNCTION_DEFINITION", "",
           <<Node("COMPOUND_STATEMENT", "{", [i \in DOMAIN items |-> Bare(items[i])])>>)

(* The print reads all tokens: those forged before their array was moved are  *)
(* not there any more.                                                        *)
PrintedDesugared(s, forged) ==
  LET items(f) == [i \in DOMAIN f.items |-> f.items[i].node]
  IN  Printed(s, [k \in DOMAIN s.functions |-> DesugaredTree(items(s.functions[k]))])
        \cup IF forged > Capacity THEN {Dies(s, "unset")} ELSE {}

(* desugar_typed_AST: all bodies. A declaration has given up its children;    *)
(* here its tree is still used to find its symbol.                            *)
desugar_typed_AST ==
  /\ Runs /\ phase = "desugar"
  /\ LET desugared(item) == [item EXCEPT !.node = desugar_statement(@)]
         functions == [f \in DOMAIN sema.functions |->
           [sema.functions[f] EXCEPT !.items = [i \in DOMAIN @ |-> desugared(@[i])]]]
         crashes == \E f \in DOMAIN functions : \E i \in DOMAIN functions[f].items :
                      functions[f].items[i].node = CRASH
     IN  IF crashes THEN sema' = Dies(sema, "assert")
         ELSE sema' \in PrintedDesugared([sema EXCEPT !.functions = functions], ForgedForAll(sema.functions))
  /\ phase' = "globals" /\ position' = 1
  /\ UNCHANGED <<files, ir, verdicts>>

(* generate_high_level_ir: the variables of the global scope, then its        *)
(* functions, each with the scope of its definition.                          *)
RECURSIVE GenerateGlobals(_, _)
GenerateGlobals(g, symbols) ==
  IF symbols = <<>> \/ Stopped(g) THEN g
  ELSE GenerateGlobals(IF Head(symbols).kind = "VARIABLE" THEN generate_global(g, Head(symbols)) ELSE g,
                       Tail(symbols))

GenerateVariables ==
  /\ Runs /\ phase = "globals"
  /\ ir' = GenerateGlobals(ir, sema.scopes[1])
  /\ phase' = "functions"
  /\ UNCHANGED <<files, position, sema, verdicts>>

(* An item with the symbols that are still where they were when its names     *)
(* were resolved: those of scopes that have not moved, or not since then.     *)
Still(item, scopes, moved) ==
  LET good == {k \in DOMAIN scopes : k \in moved => Len(scopes[k]) <= Room(Capacity, item.sizes[k])}
      ids  == UNION {{sym.id : sym \in Range(scopes[k])} : k \in good}
  IN  [item EXCEPT !.syms = Restrict(@, {name \in DOMAIN @ : @[name].id \in ids})]

(* A function f, from the scopes of the file and of its own, of which those   *)
(* that have outgrown their first room may have moved.                        *)
Generated(sym, f) ==
  LET scopes == <<sema.scopes[1], f.symbols>>
      grown  == {k \in DOMAIN scopes : Len(scopes[k]) > Capacity}
  IN  {generate_function(ir, [symbol |-> sym, symbols |-> f.symbols,
                              items |-> [i \in DOMAIN f.items |-> Still(f.items[i], scopes, moved)]])
         : moved \in SUBSET grown}

GenerateFunction ==
  /\ Runs /\ phase = "functions" /\ position <= Len(sema.scopes[1])
  /\ LET sym   == sema.scopes[1][position]
         scope == {f \in DOMAIN sema.functions : sema.functions[f].id = sym.id}
     IN  ir' \in IF sym.kind # "FUNCTION" THEN {ir}
                 ELSE IF scope = {} THEN {Dies(ir, "assert")}
                 ELSE Generated(sym, sema.functions[CHOOSE i \in scope : TRUE])
  /\ position' = position + 1
  /\ UNCHANGED <<files, phase, sema, verdicts>>

EndFunctions ==
  /\ Runs /\ phase = "functions" /\ position > Len(sema.scopes[1])
  /\ ir' = print_hlir(ir)
  /\ phase' = "print"
  /\ UNCHANGED <<files, position, sema, verdicts>>

EndUnit ==
  /\ Runs /\ phase = "print"
  /\ NextUnit(free_scopes(sema), ir.functions)

Next ==
  \/ print_AST \/ CreateScopes \/ EndSema \/ desugar_typed_AST
  \/ GenerateVariables \/ GenerateFunction \/ EndFunctions \/ EndUnit

Spec == Init /\ [][Next]_vars
==============================================================================
