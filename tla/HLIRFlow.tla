------------------------------ MODULE HLIRFlow ------------------------------
(***************************************************************************)
(* A function body on its way through the statements of the desugaring     *)
(* (Parser/desugar.c), where for statements become while statements, and   *)
(* through the IR generator; then the control flow of the body as C        *)
(* defines it, and that of the blocks generated for it, both as a relation *)
(* between the labels of statements that may be executed one after the     *)
(* other. The label of a statement is its path in the desugared body.      *)
(*                                                                         *)
(* The children of "for" are what initializes, the condition, what is done *)
(* at the end of a round, if anything, and the body; each of them is an    *)
(* expression statement, or "empty", which is one without an expression.   *)
(***************************************************************************)
EXTENDS HLIR

CONSTANT Bodies   (* function bodies: compound statements *)

VARIABLE source   (* the body before the desugaring *)

flow_vars == <<source, vars>>

Block(kids) == [kind |-> "block", kids |-> kids]
While(kid) == [kind |-> "while", kids |-> <<kid>>]

HasStep(n) == Len(n.kids) > 3

(* Mutant: the step comes before the body. *)
for_step_first(n, kids) ==
  Block(<<kids[1], While(IF HasStep(n) THEN Block(<<kids[3], kids[4]>>) ELSE kids[3])>>)

(* A for statement whose children are desugared. *)
desugar_for_statement(n, kids) ==
  Block(<<kids[1], While(IF HasStep(n) THEN Block(<<kids[4], kids[3]>>) ELSE kids[3])>>)

RECURSIVE desugar_statement(_)
desugar_statement(n) ==
  LET kids == [i \in DOMAIN n.kids |-> desugar_statement(n.kids[i])]
  IN  IF n.kind = "for" THEN desugar_for_statement(n, kids) ELSE [n EXCEPT !.kids = kids]

(* The child of an expression statement that has none is not there.          *)
RECURSIVE Stops(_)
Stops(n) == n.kind = "empty" \/ \E i \in DOMAIN n.kids : Stops(n.kids[i])

FlowInit == source \in Bodies /\ Init

DesugarFunction ==
  /\ ~Stops(source)
  /\ GenerateFunction(desugar_statement(source))
  /\ UNCHANGED source

Next == DesugarFunction \/ (GenerateBody /\ UNCHANGED source)

Spec == FlowInit /\ [][Next]_flow_vars

-----------------------------------------------------------------------------

END == <<0>>        (* the return from the function                            *)
NOWHERE == <<-1>>   (* past the end of a block that has no terminator          *)

(* The label executed first in statement n at path p, where k comes after n, *)
(* and in the children of a compound statement from the i-th on.             *)
RECURSIVE Entry(_, _, _)
RECURSIVE EntryFrom(_, _, _, _)
Entry(n, p, k) ==
  IF n.kind = "block" THEN EntryFrom(n, p, 1, k)
  ELSE IF n.kind = "for" THEN Append(p, 1)
  ELSE p
EntryFrom(n, p, i, k) ==
  IF i > Len(n.kids) THEN k
  ELSE Entry(n.kids[i], Append(p, i), EntryFrom(n, p, i + 1, k))

(* Which label may follow which, in statement n at path p with k after it:   *)
(* <<l, way, m>> where way is 2 for a false condition and 1 otherwise.       *)
RECURSIVE Follows(_, _, _)
Follows(n, p, k) ==
  LET kid(i)   == n.kids[i]
      path(i)  == Append(p, i)
  IN  CASE n.kind \in {"expr", "decl"} -> {<<p, 1, k>>}
        [] n.kind = "return" -> {<<p, 1, END>>}
        [] n.kind = "if" ->
             {<<p, i, Entry(kid(i), path(i), k)>> : i \in DOMAIN n.kids}
               \cup (IF Len(n.kids) = 1 THEN {<<p, 2, k>>} ELSE {})
               \cup UNION {Follows(kid(i), path(i), k) : i \in DOMAIN n.kids}
        [] n.kind = "while" ->
             {<<p, 1, Entry(kid(1), path(1), p)>>, <<p, 2, k>>}
               \cup Follows(kid(1), path(1), p)
        [] n.kind = "for" ->
             LET test    == Append(p, 2)
                 inner   == p \o (IF HasStep(n) THEN <<2, 1, 1>> ELSE <<2, 1>>)
                 step    == p \o <<2, 1, 2>>
                 next    == IF HasStep(n) THEN step ELSE test
                 looping == kid(Len(n.kids))
             IN  {<<path(1), 1, test>>, <<test, 1, Entry(looping, inner, next)>>, <<test, 2, k>>}
                   \cup (IF HasStep(n) THEN {<<step, 1, test>>} ELSE {})
                   \cup Follows(looping, inner, next)
        [] n.kind = "block" ->
             UNION {Follows(kid(i), path(i), EntryFrom(n, p, i + 1, k)) : i \in DOMAIN n.kids}

-----------------------------------------------------------------------------
(* The label executed first from the beginning of block b on. Only an exit   *)
(* block, created after the block that branches to it, can be empty.         *)
RECURSIVE BlockEntry(_)
BlockEntry(b) ==
  IF blocks[b].instrs # <<>> THEN blocks[b].instrs[1]
  ELSE IF blocks[b].term = NONE THEN NOWHERE
  ELSE IF blocks[b].term.op = "ret" THEN END
  ELSE BlockEntry(blocks[b].term.to[1])

BlockFollows(b) ==
  LET instrs == blocks[b].instrs
      final  == instrs[Len(instrs)]
      term   == blocks[b].term
  IN  IF instrs = <<>> THEN {}
      ELSE {<<instrs[i], 1, instrs[i + 1]>> : i \in 1 .. Len(instrs) - 1}
             \cup (IF term = NONE THEN {<<final, 1, NOWHERE>>}
                   ELSE IF term.op = "ret" THEN {<<final, 1, END>>}
                   ELSE {<<final, i, BlockEntry(term.to[i])>> : i \in DOMAIN term.to})

(* The part of relation R that can be reached from label l. *)
Reached(R, l) ==
  LET step(S) == S \cup {e[3] : e \in {d \in R : d[1] \in S}}
      RECURSIVE closure(_)
      closure(S) == IF step(S) = S THEN S ELSE closure(step(S))
      live == closure({l})
  IN  {e \in R : e[1] \in live}

SourceFlow == Reached(Follows(source, <<>>, END), Entry(source, <<>>, END))

BlockFlow ==
  Reached(UNION {BlockFollows(b) : b \in BlockIds}, BlockEntry(1))

(* What C says the function does is what its blocks do: from every statement *)
(* that can be executed the same ones may be executed next, so nothing is    *)
(* dropped, repeated or reordered.                                           *)
FlowPreserved ==
  done => BlockEntry(1) = Entry(source, <<>>, END) /\ BlockFlow = SourceFlow
=============================================================================
