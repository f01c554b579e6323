-------------------------------- MODULE Scopes --------------------------------
(***************************************************************************)
(* Symbol tables (Sema/scope.c) and the walk over the syntax tree that     *)
(* builds them (Sema/sema.c). The tree is not a variable: the walk meets   *)
(* any tree the parser can build, so what comes next is a choice. The      *)
(* recursion of process_AST_node is the stack walk. A declaration is named *)
(* by the id its symbol is given.                                          *)
(*                                                                         *)
(* The symbols of a scope are values in a growable array (array.h), and    *)
(* resolve_symbol returns pointers into it: a pointer is the scope, the    *)
(* index, and how often the array had been moved by realloc.               *)
(*                                                                         *)
(* Bounds for TLC: MaxSymbols declarations in all files together, MaxScopes *)
(* scopes in a file.                                                       *)
(***************************************************************************)
EXTENDS Naturals, Sequences

CONSTANTS
  Names,       (* the identifiers of a program                              *)
  NONE,        (* NULL                                                      *)
  Capacity,    (* ARRAY_INITIAL_CAPACITY                                    *)
  MaxSymbols,
  MaxScopes

ASSUME ScopesAssumption ==
  /\ LET Pointers == [scope : Nat, moves : Nat, index : Nat]
     IN  NONE \notin Names \cup Nat \cup Pointers \cup [symbol : Pointers, id : Nat]
  /\ Capacity \in Nat \ {0}
  /\ {MaxSymbols, MaxScopes} \subseteq Nat

VARIABLES
  scopes,               (* every scope created for this file                *)
  global_scope,         (* a scope, or NONE                                 *)
  current_scope,
  g_current_symbol_id,
  walk,                 (* the active calls that opened a scope, innermost last *)
  symbol,               (* node->symbol of the declarations processed so far *)
  identifier,           (* node->symbol of the identifier checked last, and *)
                        (* the declaration it stood for, or NONE            *)
  errors,               (* has_errors()                                     *)
  phase                 (* "start", "walk", "walked" or "aborted"           *)

table == <<scopes, global_scope, current_scope>>
nodes == <<symbol, identifier>>
vars == <<table, g_current_symbol_id, walk, nodes, errors, phase>>

-----------------------------------------------------------------------------
(* array_push: a full array is doubled, and realloc may move it. *)
Pushed(s, sym) ==
  LET larger == [s EXCEPT !.symbols = Append(@, sym)]
  IN  IF Len(s.symbols) < s.capacity THEN {larger}
      ELSE {[larger EXCEPT !.capacity = 2 * @, !.moves = @ + m] : m \in {0, 1}}

(* The scopes of t from s outwards, innermost first. *)
Path(t, s) ==
  LET path[r \in DOMAIN t \cup {NONE}] ==
        IF r = NONE THEN <<>> ELSE <<r>> \o path[t[r].parent]
  IN  path[s]

Declared(s) == {scopes[s].symbols[k].name : k \in DOMAIN scopes[s].symbols}

(* resolve_symbol, in the scopes t: the pointer it returns, or NONE.         *)
Resolve(name, from, t) ==
  LET path     == Path(t, from)
      hits(s)  == {k \in DOMAIN t[s].symbols : t[s].symbols[k].name = name}
      holders  == {d \in DOMAIN path : hits(path[d]) # {}}
      nearest  == CHOOSE d \in holders : \A e \in holders : d <= e
      s        == path[nearest]
  IN  IF holders = {} THEN NONE
      ELSE [scope |-> s, moves |-> t[s].moves,
            index |-> CHOOSE k \in hits(s) : \A l \in hits(s) : k <= l]

At(p) == scopes[p.scope].symbols[p.index]

(* Mutants: only the current scope is searched; a redeclaration is dropped   *)
(* without a diagnostic.                                                     *)
SymbolInsertLocal(name, kind) ==
  IF name \in Declared(current_scope)
  THEN UNCHANGED scopes /\ errors' = TRUE
  ELSE /\ \E s \in Pushed(scopes[current_scope],
                          [name |-> name, kind |-> kind, id |-> g_current_symbol_id]) :
            scopes' = [scopes EXCEPT ![current_scope] = s]
       /\ UNCHANGED errors

SymbolInsertSilent(name, kind) ==
  IF Resolve(name, current_scope, scopes) # NONE
  THEN UNCHANGED <<scopes, errors>>
  ELSE /\ \E s \in Pushed(scopes[current_scope],
                          [name |-> name, kind |-> kind, id |-> g_current_symbol_id]) :
            scopes' = [scopes EXCEPT ![current_scope] = s]
       /\ UNCHANGED errors

(* symbol_insert in the current scope; a name that can be resolved is a      *)
(* redeclaration.                                                            *)
SymbolInsert(name, kind) ==
  IF Resolve(name, current_scope, scopes) # NONE
  THEN UNCHANGED scopes /\ errors' = TRUE
  ELSE /\ \E s \in Pushed(scopes[current_scope],
                          [name |-> name, kind |-> kind, id |-> g_current_symbol_id]) :
            scopes' = [scopes EXCEPT ![current_scope] = s]
       /\ UNCHANGED errors

(* The tree node a scope is made for. *)
Node(type, id) == [type |-> type, id |-> id]

NewScope(parent, declaration) ==
  [parent |-> parent, declaration |-> declaration, symbols |-> <<>>,
   capacity |-> Capacity, moves |-> 0]

(* begin_scope, on top of the scopes t. *)
BeginScope(t, declaration) ==
  /\ Len(scopes) < MaxScopes
  /\ scopes' = Append(t, NewScope(current_scope, declaration))
  /\ current_scope' = Len(scopes) + 1
  /\ global_scope' = IF global_scope = NONE THEN Len(scopes) + 1 ELSE global_scope

(* end_scope: the global scope is never left. *)
EndScope ==
  /\ current_scope' = IF scopes[current_scope].parent = NONE
                      THEN global_scope
                      ELSE scopes[current_scope].parent
  /\ UNCHANGED <<scopes, global_scope>>

(* generate_symbol_id *)
NewId ==
  /\ g_current_symbol_id < MaxSymbols
  /\ g_current_symbol_id' = g_current_symbol_id + 1

(* node->symbol = resolve_symbol(name), for the declaration just processed.  *)
Bind(id, name, from) ==
  symbol' = [d \in DOMAIN symbol \cup {id} |->
               IF d = id THEN Resolve(name, from, scopes') ELSE symbol[d]]

Walking == phase = "walk" /\ walk # <<>>
Innermost == walk[Len(walk)]
Leave == walk' = SubSeq(walk, 1, Len(walk) - 1)
InStatements == Walking /\ Innermost.what # "parameters"

-----------------------------------------------------------------------------
Init ==
  /\ scopes = <<>>
  /\ global_scope = NONE
  /\ current_scope = NONE
  /\ g_current_symbol_id = 0
  /\ walk = <<>>
  /\ symbol = <<>>
  /\ identifier = NONE
  /\ errors = FALSE
  /\ phase = "start"

CreateScopes ==
  /\ phase = "start"
  /\ phase' = "walk"
  /\ BeginScope(scopes, Node("unit", NONE))
  /\ walk' = <<[what |-> "unit", id |-> NONE, name |-> NONE]>>
  /\ UNCHANGED <<g_current_symbol_id, nodes, errors>>

(* A variable or a prototype, in any scope. When its initializer or the size *)
(* of its array is not a constant there is no symbol, and node->symbol stays *)
(* what it was.                                                              *)
ProcessDeclaration(name, kind, constant) ==
  /\ InStatements
  /\ constant \/ kind = "variable"
  /\ NewId
  /\ IF constant
     THEN SymbolInsert(name, kind) /\ Bind(g_current_symbol_id, name, current_scope)
     ELSE errors' = TRUE /\ UNCHANGED <<scopes, symbol>>
  /\ UNCHANGED <<global_scope, current_scope, walk, identifier, phase>>

(* process_function_definition up to the parameters: the symbol, the scope.  *)
BeginFunction(name) ==
  LET known == Resolve(name, current_scope, scopes) # NONE
      sym   == [name |-> name, kind |-> "function", id |-> g_current_symbol_id]
      node  == Node("function", g_current_symbol_id)
  IN  /\ Walking /\ Innermost.what = "unit"
      /\ NewId
      /\ errors' = (errors \/ known)
      /\ IF known THEN BeginScope(scopes, node)
         ELSE \E s \in Pushed(scopes[current_scope], sym) :
                BeginScope([scopes EXCEPT ![current_scope] = s], node)
      /\ walk' = Append(walk, [what |-> "parameters", id |-> g_current_symbol_id, name |-> name])
      /\ UNCHANGED <<nodes, phase>>

ProcessParameter(name) ==
  /\ Walking /\ Innermost.what = "parameters"
  /\ NewId
  /\ SymbolInsert(name, "parameter")
  /\ Bind(g_current_symbol_id, name, current_scope)
  /\ UNCHANGED <<global_scope, current_scope, walk, identifier, phase>>

(* The body of a function shares the scope of its parameters. *)
BeginBody ==
  /\ Walking /\ Innermost.what = "parameters"
  /\ walk' = [walk EXCEPT ![Len(walk)].what = "function"]
  /\ UNCHANGED <<table, g_current_symbol_id, nodes, errors, phase>>

EndFunction ==
  /\ Walking /\ Innermost.what = "function"
  /\ EndScope
  /\ Leave
  /\ Bind(Innermost.id, Innermost.name, current_scope')
  /\ UNCHANGED <<g_current_symbol_id, identifier, errors, phase>>

(* A compound statement in a list of statements or under an if or a while,   *)
(* or a for statement.                                                       *)
BeginBlock ==
  /\ InStatements /\ Innermost.what # "unit"
  /\ BeginScope(scopes, Node("statement", NONE))
  /\ walk' = Append(walk, [what |-> "statement", id |-> NONE, name |-> NONE])
  /\ UNCHANGED <<g_current_symbol_id, nodes, errors, phase>>

(* Mutant: the end_scope is missing. *)
EndBlockStays ==
  /\ Walking /\ Innermost.what = "statement"
  /\ Leave
  /\ UNCHANGED <<table, g_current_symbol_id, nodes, errors, phase>>

EndBlock ==
  /\ Walking /\ Innermost.what = "statement"
  /\ EndScope
  /\ Leave
  /\ UNCHANGED <<g_current_symbol_id, nodes, errors, phase>>

(* An identifier in an expression. One that cannot be resolved is passed     *)
(* over without a diagnostic.                                                *)
CheckIdentifier(name) ==
  LET p == Resolve(name, current_scope, scopes)
  IN  /\ InStatements /\ Innermost.what # "unit"
      /\ identifier' = IF p = NONE THEN NONE ELSE [symbol |-> p, id |-> At(p).id]
      /\ UNCHANGED <<table, g_current_symbol_id, walk, symbol, errors, phase>>

(* The loop that looks for the function tests the innermost scope on every   *)
(* round. An expression without a type ends the check.                       *)
ReturnStatement(value) ==
  LET func == Resolve(Innermost.name, current_scope, scopes)
  IN  /\ InStatements /\ Innermost.what # "unit"
      /\ IF scopes[current_scope].declaration.type # "function"
         THEN phase' = "aborted" /\ UNCHANGED errors
         ELSE IF value = "untyped" THEN UNCHANGED <<phase, errors>>
         ELSE IF At(func).kind # "function"
         THEN phase' = "aborted" /\ UNCHANGED errors
         ELSE errors' = (errors \/ value = "mismatch") /\ UNCHANGED phase
      /\ UNCHANGED <<table, g_current_symbol_id, walk, nodes>>

(* The end of create_scopes. *)
FinishUnit ==
  /\ Walking /\ Innermost.what = "unit"
  /\ EndScope
  /\ Leave
  /\ phase' = "walked"
  /\ UNCHANGED <<g_current_symbol_id, nodes, errors>>

(* compile_unit: free_scopes, and init_errors for the next file.             *)
NextFile ==
  /\ phase = "walked"
  /\ scopes' = <<>>
  /\ global_scope' = NONE
  /\ current_scope' = NONE
  /\ symbol' = <<>>
  /\ identifier' = NONE
  /\ errors' = FALSE
  /\ phase' = "start"
  /\ UNCHANGED <<g_current_symbol_id, walk>>

Next ==
  \/ CreateScopes
  \/ \E name \in Names :
       \/ \E kind \in {"variable", "function"}, constant \in BOOLEAN :
            ProcessDeclaration(name, kind, constant)
       \/ BeginFunction(name)
       \/ ProcessParameter(name)
       \/ CheckIdentifier(name)
  \/ BeginBody
  \/ EndFunction
  \/ BeginBlock
  \/ EndBlock
  \/ \E value \in {"fine", "mismatch", "untyped"} : ReturnStatement(value)
  \/ FinishUnit
  \/ NextFile

Spec == Init /\ [][Next]_vars

-----------------------------------------------------------------------------
(* No name is declared twice among the scopes that are open at one time, so  *)
(* what resolve_symbol finds does not depend on the order it searches in.    *)
NoShadowing ==
  LET path == Path(scopes, current_scope)
      open == {path[d] : d \in DOMAIN path}
  IN  \A r, s \in open :
        \A k \in DOMAIN scopes[r].symbols, l \in DOMAIN scopes[s].symbols :
          scopes[r].symbols[k].name = scopes[s].symbols[l].name => r = s /\ k = l

InPlace(p) == p.moves = scopes[p.scope].moves

(* A program without errors: the symbol a declaration node ends up with is   *)
(* its own, although it is looked up by name, for a function after its       *)
(* parameters and its body have been declared.                               *)
OwnSymbols ==
  ~errors =>
    \A d \in DOMAIN symbol :
      symbol[d] # NONE /\ (InPlace(symbol[d]) => At(symbol[d]).id = d)

(* "this is necessary because the array own the copies the symbol"           *)
(* (sema.c:254): node->symbol points to the copy of the symbol that the      *)
(* scope owns.                                                               *)
PointersStay ==
  ~errors => \A d \in DOMAIN symbol : InPlace(symbol[d])

(* ASSERT(0) where no function encloses a return statement (sema.c:368-372): *)
(* the parser has put every return statement into a function, and a program  *)
(* without errors is analysed to its end.                                    *)
ReturnsHaveFunction == phase = "aborted" => errors

(* The scopes implement block structure without shadowing.                   *)
Blocks ==
  IF phase \notin {"walk", "aborted"} THEN <<>>
  ELSE [k \in DOMAIN walk |->
          LET syms == scopes[Path(scopes, current_scope)[Len(walk) + 1 - k]].symbols
          IN  [n \in {syms[l].name : l \in DOMAIN syms} |->
                 syms[CHOOSE l \in DOMAIN syms : syms[l].name = n].id]]

Structure ==
  INSTANCE Environment WITH
    blocks <- Blocks,
    fresh <- g_current_symbol_id,
    found <- IF identifier = NONE THEN NONE ELSE identifier.id

ImplementsEnvironment == Structure!Spec
=============================================================================
