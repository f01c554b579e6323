-------------------------------- MODULE Types --------------------------------
(***************************************************************************)
(* The types of the semantic analysis (type_t of scope.h, scope.c): trees  *)
(* of separately allocated nodes, passed from hand to hand and freed by    *)
(* hand. A type is the identity of its memory, its kind and the types it   *)
(* refers to: what a pointer points to, the element of an array, the       *)
(* result and the parameters of a function, in that order. The length of   *)
(* an array does not matter to any check.                                  *)
(*                                                                         *)
(* Operators go from a state s of the analysis to the state they leave:    *)
(*   next, live   the identities taken, and those of memory in use;        *)
(*   vals         the types local variables of the callers hold, and what  *)
(*                the last function returned, a type or NULL, on top;      *)
(*   errors       the number of diagnostics;                               *)
(*   fate         "runs", or what became of the compiler: "assert" when an *)
(*                assertion stopped it, "freed", "range" and "unset" when  *)
(*                memory was used that is free, beyond an array, or holds  *)
(*                nothing (it was never written, or what it held was moved *)
(*                elsewhere), "trap" for a division by zero. What a state  *)
(*                says after that is not looked at.                        *)
(* An identity is a sequence: a copy's begins with a number of its own and *)
(* goes on with the identity it is copied from.                            *)
(***************************************************************************)
EXTENDS Syntax, FiniteSets

Type(id, kind, refs) == [id |-> id, kind |-> kind, refs |-> refs]

Dies(s, fate) == IF s.fate = "runs" THEN [s EXCEPT !.fate = fate] ELSE s

(* Nothing is done once the compiler has stopped; most operators would go on *)
(* with values that are not there.                                           *)
Stopped(s) == s.fate # "runs"

PushError(s) == [s EXCEPT !.errors = @ + 1]

Top(s) == s.vals[Len(s.vals)]
Under(s) == s.vals[Len(s.vals) - 1]
Push(s, type) == [s EXCEPT !.vals = Append(@, type)]
Pop(s) == [s EXCEPT !.vals = SubSeq(@, 1, Len(@) - 1)]

RECURSIVE Owned(_)
Owned(type) ==
  {type.id} \cup UNION {IF type.refs[i] = NULL THEN {} ELSE Owned(type.refs[i]) : i \in DOMAIN type.refs}

(* A new node over refs, on top.                                             *)
CreateType(s, kind, refs) ==
  [s EXCEPT !.next = @ + 1, !.live = @ \cup {<<s.next>>},
            !.vals = Append(@, Type(<<s.next>>, kind, refs))]

FreeIds(s, ids) ==
  IF ids \subseteq s.live THEN [s EXCEPT !.live = @ \ ids] ELSE Dies(s, "freed")

RECURSIVE HasNull(_)
HasNull(type) ==
  \E i \in DOMAIN type.refs : IF type.refs[i] = NULL THEN TRUE ELSE HasNull(type.refs[i])

(* free of one node, free_type of a tree, and of one that may be NULL.       *)
FreeNode(s, type) == FreeIds(s, {type.id})
FreeType(s, type) == IF HasNull(type) THEN Dies(s, "assert") ELSE FreeIds(s, Owned(type))
FreeIfAny(s, type) == IF type = NULL THEN s ELSE FreeType(s, type)

RECURSIVE Relabelled(_, _)
Relabelled(type, n) ==
  Type(<<n>> \o type.id, type.kind, [i \in DOMAIN type.refs |-> Relabelled(type.refs[i], n)])

(* A copy of the type, on top. A parameter without a type is not expected.   *)
CloneType(s, type) ==
  IF HasNull(type) THEN Push(Dies(s, "unset"), NULL)
  ELSE [s EXCEPT !.next = @ + 1, !.live = @ \cup Owned(Relabelled(type, s.next)),
                 !.vals = Append(@, Relabelled(type, s.next))]

(* An integer literal has a type of its own, which goes with int.            *)
Ints == {"INT", "INTLIT"}
Scalars == Ints \cup {"POINTER"}

RECURSIVE CompareTypes(_, _)
CompareTypes(left, right) ==
  \/ {left.kind, right.kind} = Ints
  \/ /\ left.kind = right.kind
     /\ Len(left.refs) = Len(right.refs)
     /\ \A i \in DOMAIN left.refs : CompareTypes(left.refs[i], right.refs[i])

-----------------------------------------------------------------------------
(* Symbols: scopes is the global scope and, inside of a function, its own,   *)
(* each a sequence of symbols.                                               *)
Symbols(s) == UNION {{s.scopes[i][j] : j \in DOMAIN s.scopes[i]} : i \in DOMAIN s.scopes}

(* No two visible symbols have the same name (NoShadowing of module Scopes). *)
ResolveSymbol(s, name) ==
  IF \E sym \in Symbols(s) : sym.name = name
  THEN CHOOSE sym \in Symbols(s) : sym.name = name
  ELSE NULL

SymbolInsert(s, sym) ==
  IF ResolveSymbol(s, sym.name) # NULL
  THEN PushError(s)
  ELSE [s EXCEPT !.scopes[Len(s.scopes)] = Append(@, sym)]
==============================================================================
