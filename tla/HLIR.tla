-------------------------------- MODULE HLIR --------------------------------
(***************************************************************************)
(* How the IR generator (IR/hlir.c) lays out the basic blocks of one       *)
(* function: generate_function calls generate_compound_statement, which    *)
(* calls generate_statement, and so on down the desugared syntax tree. The *)
(* C call stack is the variable stack, its frames are the local variables  *)
(* of the active calls, and an action runs from one call to the next.      *)
(*                                                                         *)
(* A statement is [kind, kids]; its label is its path from the body of the *)
(* function. The instructions of an expression, a condition or a variable  *)
(* are one instruction, labelled with the statement they come from.        *)
(***************************************************************************)
EXTENDS Integers, Sequences

CONSTANT
  NONE     (* a NULL block or terminator, or no body                        *)

ASSUME HLIRAssumption ==
  NONE \notin Nat \cup [op : {"br", "cond_br", "ret"}, to : Seq(Nat)]

VARIABLES
  body,    (* the function body being translated                            *)
  stack,   (* the active calls, innermost last                              *)
  blocks,  (* function->blocks: instructions and terminator of each         *)
  ret,     (* the block the last finished call returned, or NONE            *)
  done     (* generate_function has returned                                *)

vars == <<body, stack, blocks, ret, done>>

BlockIds == 1 .. Len(blocks)

NewBlock == [instrs |-> <<>>, term |-> NONE]

Br(b) == [op |-> "br", to |-> <<b>>]
CondBr(yes, no) == [op |-> "cond_br", to |-> <<yes, no>>]
Ret == [op |-> "ret", to |-> <<>>]

(* A call on a statement with label path, to be put into block.             *)
Call(proc, node, path, block) ==
  [proc |-> proc, at |-> "start", node |-> node, path |-> path, block |-> block,
   i |-> 1, first |-> NONE, second |-> NONE]

Top == stack[Len(stack)]
Callers == SubSeq(stack, 1, Len(stack) - 1)

Running(proc, at) == stack # <<>> /\ Top.proc = proc /\ Top.at = at

Return(block) == stack' = Callers /\ ret' = block

(* The running call, changed to frame, calls generate_statement on its k-th  *)
(* child, to be put into block.                                              *)
CallChild(frame, k, block) ==
  /\ stack' = Callers \o <<frame,
       Call(frame.node.kids[k].kind, frame.node.kids[k], Append(frame.path, k), block)>>
  /\ UNCHANGED ret

Emitted(b, label) == [blocks EXCEPT ![b].instrs = Append(@, label)]

-----------------------------------------------------------------------------
Init ==
  /\ body = NONE
  /\ stack = <<>>
  /\ blocks = <<>>
  /\ ret = NONE
  /\ done = FALSE

(* generate_function on the body b: the entry block, and the call. *)
GenerateFunction(b) ==
  /\ body = NONE
  /\ body' = b
  /\ stack' = <<Call("block", b, <<>>, 1)>>
  /\ blocks' = <<NewBlock>>
  /\ UNCHANGED <<ret, done>>

GenerateExpressionStatement ==
  /\ Running("expr", "start")
  /\ blocks' = Emitted(Top.block, Top.path)
  /\ Return(Top.block)
  /\ UNCHANGED <<body, done>>

(* The rest of the list is dropped: generate_compound_statement stops. *)
GenerateReturnStatement ==
  /\ Running("return", "start")
  /\ blocks' = [Emitted(Top.block, Top.path) EXCEPT ![Top.block].term = Ret]
  /\ Return(NONE)
  /\ UNCHANGED <<body, done>>

(* One child of a compound statement: declarations are handled in place. *)
GenerateCompoundStatement ==
  /\ Running("block", "start")
  /\ UNCHANGED <<body, done>>
  /\ IF Top.block = NONE \/ Top.i > Len(Top.node.kids)
     THEN Return(Top.block) /\ UNCHANGED blocks
     ELSE IF Top.node.kids[Top.i].kind = "decl"
     THEN /\ blocks' = Emitted(Top.block, Append(Top.path, Top.i))
          /\ stack' = Append(Callers, [Top EXCEPT !.i = @ + 1])
          /\ UNCHANGED ret
     ELSE CallChild([Top EXCEPT !.at = "called"], Top.i, Top.block) /\ UNCHANGED blocks

ContinueCompoundStatement ==
  /\ Running("block", "called")
  /\ stack' = Append(Callers, [Top EXCEPT !.at = "start", !.i = @ + 1, !.block = ret])
  /\ UNCHANGED <<body, blocks, ret, done>>

(* The condition, the true block and the call for what goes into it. What    *)
(* that call returns is ignored.                                             *)
GenerateIfStatement ==
  LET true_block == Len(blocks) + 1
  IN  /\ Running("if", "start")
      /\ blocks' = Append(Emitted(Top.block, Top.path), NewBlock)
      /\ CallChild([Top EXCEPT !.at = "then", !.first = true_block], 1, true_block)
      /\ UNCHANGED <<body, done>>

GenerateElse ==
  LET false_block == Len(blocks) + 1
  IN  /\ Running("if", "then")
      /\ Len(Top.node.kids) = 2
      /\ blocks' = Append(blocks, NewBlock)
      /\ CallChild([Top EXCEPT !.at = "else", !.second = false_block], 2, false_block)
      /\ UNCHANGED <<body, done>>

(* Mutants: only the true block is joined; a return is replaced by the jump. *)
JoinToFirst(exit, branches) ==
  [b \in BlockIds |->
     IF b = Top.first /\ blocks[b].term = NONE
     THEN [blocks[b] EXCEPT !.term = Br(exit)]
     ELSE blocks[b]]

JoinToOverwriting(exit, branches) ==
  [b \in BlockIds |->
     IF b \in branches THEN [blocks[b] EXCEPT !.term = Br(exit)] ELSE blocks[b]]

(* The blocks after the branches of an if that have no terminator got a jump *)
(* to exit.                                                                  *)
JoinTo(exit, branches) ==
  [b \in BlockIds |->
     IF b \in branches /\ blocks[b].term = NONE
     THEN [blocks[b] EXCEPT !.term = Br(exit)]
     ELSE blocks[b]]

FinishIfStatement ==
  LET exit_block  == Len(blocks) + 1
      no_else     == Len(Top.node.kids) = 1
      false_block == IF no_else THEN exit_block ELSE Top.second
      joined      == JoinTo(exit_block, {Top.first, Top.second})
  IN  /\ Running("if", IF no_else THEN "then" ELSE "else")
      /\ blocks' = Append([joined EXCEPT ![Top.block].term = CondBr(Top.first, false_block)],
                          NewBlock)
      /\ Return(exit_block)
      /\ UNCHANGED <<body, done>>

GenerateWhileStatement ==
  LET loop_block == Len(blocks) + 1
      exit_block == Len(blocks) + 2
  IN  /\ Running("while", "start")
      /\ blocks' = [Emitted(Top.block, Top.path) EXCEPT
                      ![Top.block].term = CondBr(loop_block, exit_block)]
                   \o <<NewBlock, NewBlock>>
      /\ CallChild([Top EXCEPT !.at = "body", !.first = loop_block, !.second = exit_block],
                   1, loop_block)
      /\ UNCHANGED <<body, done>>

(* The condition again, at the end of loop_block, whatever the body did with *)
(* it.                                                                       *)
FinishWhileStatement ==
  /\ Running("while", "body")
  /\ blocks' = [Emitted(Top.first, Top.path) EXCEPT
                  ![Top.first].term = CondBr(Top.first, Top.second)]
  /\ Return(Top.second)
  /\ UNCHANGED <<body, done>>

(* A function whose end can be reached returns there. *)
FinishFunction ==
  /\ stack = <<>>
  /\ body # NONE
  /\ ~done
  /\ blocks' = IF ret # NONE /\ blocks[ret].term = NONE
               THEN [blocks EXCEPT ![ret].term = Ret]
               ELSE blocks
  /\ done' = TRUE
  /\ UNCHANGED <<body, stack, ret>>

GenerateBody ==
  \/ GenerateExpressionStatement
  \/ GenerateReturnStatement
  \/ GenerateCompoundStatement
  \/ ContinueCompoundStatement
  \/ GenerateIfStatement
  \/ GenerateElse
  \/ FinishIfStatement
  \/ GenerateWhileStatement
  \/ FinishWhileStatement
  \/ FinishFunction

-----------------------------------------------------------------------------
(* print_hlir_block expects every block to end in a terminator               *)
(* (printer.c:460-468 warns "block without terminator").                     *)
BlocksTerminated == done => \A b \in BlockIds : blocks[b].term # NONE

(* A block that has been closed is final: no instruction is put behind its   *)
(* terminator, and the terminator is not replaced.                           *)
ClosedBlocksFinal ==
  [][\A b \in BlockIds : blocks[b].term # NONE => blocks'[b] = blocks[b]]_vars
=============================================================================
