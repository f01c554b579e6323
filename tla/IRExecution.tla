---------------------------- MODULE IRExecution ----------------------------
(***************************************************************************)
(* What the instructions of module IRGen mean: each computes a number of   *)
(* the width of its type from its operands, or moves one to or from        *)
(* memory. The compiler goes no further than to print them; this is how a  *)
(* reader of the print, or a back end, would take them.                    *)
(***************************************************************************)
EXTENDS IRGen, CArithmetic, SequencesExt

Opcodes ==
  [i \in {arithmetic[op] : op \in DOMAIN arithmetic} \cup {comparison[op] : op \in DOMAIN comparison} |->
     CHOOSE op \in DOMAIN arithmetic \cup DOMAIN comparison : i = (arithmetic @@ comparison)[op]]

Width(type) == IF type.bits = 32 THEN IntBits ELSE type.bits

(* n in the width of the type. One bit is 0 or 1.                             *)
InWidth(n, type) ==
  IF n = UNDEFINED \/ type.kind # "INTEGER" THEN UNDEFINED
  ELSE IF type.bits = 1 THEN n % 2 ELSE Wrapped(n, Width(type))

(* A function runs in values, the numbers of its values by identity, and     *)
(* memory, the numbers behind its addresses; returned is a sequence of at    *)
(* most one.                                                                  *)
Operand(m, v) ==
  IF v.kind = "CONSTANT" THEN v.const
  ELSE IF v.id \in DOMAIN m.values THEN m.values[v.id] ELSE UNDEFINED

Loaded(m, address) == IF address.id \in DOMAIN m.memory THEN m.memory[address.id] ELSE UNDEFINED

Exact(op, a, b) ==
  IF UNDEFINED \in {a, b} THEN UNDEFINED ELSE Arithmetic(op, a, b, IntBits)

RECURSIVE Executed(_, _, _)
Step(functions, m, inst) ==
  LET v(i)    == Operand(m, inst.operands[i])
      sets(n) == [m EXCEPT !.values = (inst.value.id :> InWidth(n, inst.value.type)) @@ @]
      callee  == CHOOSE i \in DOMAIN functions : functions[i].value.id = inst.operands[1].id
  IN  CASE inst.opcode = "ALLOCA" -> m
        [] inst.opcode = "LOAD"   -> sets(Loaded(m, inst.operands[1]))
        [] inst.opcode = "STORE"  -> [m EXCEPT !.memory = (inst.operands[1].id :> v(2)) @@ @]
        [] inst.opcode = "RET"    ->
             [m EXCEPT !.returned = Append(@, IF inst.operands = <<>> THEN UNDEFINED ELSE v(1))]
        [] inst.opcode = "CALL"   ->
             sets(Executed(functions, callee, [i \in 1 .. Len(inst.operands) - 1 |-> v(i + 1)]))
        [] OTHER -> sets(Exact(Opcodes[inst.opcode], v(1), v(2)))

(* The number a function returns for arguments.                               *)
Executed(functions, f, args) ==
  LET params == functions[f].parameters
      start  == [values |-> [id \in {params[i].id : i \in DOMAIN params} |->
                               args[CHOOSE i \in DOMAIN params : params[i].id = id]],
                 memory |-> <<>>, returned |-> <<>>]
      step(m, inst) == Step(functions, m, inst)
  IN  Head(FoldLeft(step, start, functions[f].code).returned)
=============================================================================
