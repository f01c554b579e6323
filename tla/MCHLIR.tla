------------------------------- MODULE MCHLIR -------------------------------
(* Function bodies of bounded shape.                                         *)
EXTENDS HLIRFlow

Node(kind, kids) == [kind |-> kind, kids |-> kids]
Expr == Node("expr", <<>>)
Decl == Node("decl", <<>>)
Empty == Node("empty", <<>>)
ReturnStmt == Node("return", <<>>)

ListsOf(S, min, max) == UNION {[1 .. n -> S] : n \in min .. max}
BlocksOf(S, min, max) == {Node("block", kids) : kids \in ListsOf(S, min, max)}
IfsOf(S) == {Node("if", kids) : kids \in ListsOf(S, 1, 2)}
WhilesOf(S) == {Node("while", <<s>>) : s \in S}
ForsOf(S) ==
  {Node("for", <<first, test>> \o step \o <<s>>) :
     first \in {Decl, Expr, Empty}, test \in {Expr, Empty}, step \in {<<>>, <<Expr>>}, s \in S}

LoopsOf(S) == WhilesOf(S) \cup ForsOf(S)

(* A return statement in a nested compound statement does not get past the   *)
(* semantic analysis (sema.c:370), so the bodies have none.                  *)

(* Straight statements: what they generate stays in the block they start in. *)
Straight == {Expr, Node("block", <<>>), Node("block", <<Decl, Expr>>)}
StraightOrReturn == Straight \cup {ReturnStmt}

(* Bodies whose branches and loops contain no branch and no loop, and whose  *)
(* loops do not return.                                                      *)
FlatStatements == IfsOf(StraightOrReturn) \cup LoopsOf(Straight) \cup StraightOrReturn
FlatBodies ==
  BlocksOf(FlatStatements \cup {Decl}, 0, 2)
    \cup {Node("block", <<Expr, s, Expr>>) :
            s \in BlocksOf(IfsOf(Straight) \cup LoopsOf(Straight), 1, 2)}

(* A branch in a branch. *)
BranchInBranchBodies ==
  {Node("block", <<s, Expr>>) : s \in IfsOf(IfsOf({Expr}))}

(* What the flat bodies are made of is as the theorems of HLIRProofs ask for.  *)
RECURSIVE Has(_, _)
Has(n, kinds) == n.kind \in kinds \/ \E i \in DOMAIN n.kids : Has(n.kids[i], kinds)

RECURSIVE Parts(_)
Parts(n) ==
  {m \in {n} : n.kind # "decl"} \cup UNION {Parts(n.kids[i]) : i \in DOMAIN n.kids}
FlatParts ==
  UNION {Parts(desugar_statement(b)) : b \in {b \in FlatBodies : ~Stops(b)}}

Proved == INSTANCE HLIRProofs WITH
  Straight <- {n \in FlatParts : ~Has(n, {"if", "while", "return"})},
  Branches <- {n \in FlatParts : ~Has(n, {"if", "while"})},
  Statements <- FlatParts,
  Nodes <- FlatParts \cup UNION {Parts(b) : b \in BranchInBranchBodies}

ASSUME Proved!FlatShapes /\ Proved!TreeShapes
=============================================================================
