-------------------------------- MODULE Parser --------------------------------
(***************************************************************************)
(* The parser (Parser/parser.c): a recursive descent over the token        *)
(* stream, as far as TokCursor describes it. A text is a sequence of token *)
(* types. Each function of the parser is an operator from the state        *)
(* [text, head, errors, nodes, crashed] to the state it leaves, with the   *)
(* node it returns, NULL after an error, on top of nodes; the nodes below  *)
(* are held by local variables of the callers. What NULL is dereferenced   *)
(* for crashes the compiler; what a state says after that is not looked    *)
(* at.                                                                     *)
(*                                                                         *)
(* A node is its type, the tokens and the children it holds, and the span  *)
(* from its start to its end, all as indices into the text. The spelling   *)
(* of identifiers and literals is left out. An error is the index of the   *)
(* token it is reported at; beyond the text, and before it for a missing   *)
(* first token, there is none, and it is reported at the first character.  *)
(***************************************************************************)
EXTENDS Grammar, Integers, FiniteSets

CONSTANTS
  Texts,
  NULL

VARIABLES
  text,    (* the unit that is compiled                                     *)
  result   (* what parse has made of it, NULL before                        *)

vars == <<text, result>>

-----------------------------------------------------------------------------
(* The token stream: tok_peek, tok_next, tok_expect, and a restore, which    *)
(* forgets the node that was speculated on too.                              *)
Peek(s) == IF s.head <= Len(s.text) THEN s.text[s.head] ELSE "EOF"

Next1(s) == [s EXCEPT !.head = @ + 1]

PushError(s, i) == [s EXCEPT !.errors = Append(@, i)]

(* Mutant: the missing token is not reported. *)
ExpectSilent(s, types) == Next1(s)
Expect(s, types) ==
  IF Peek(s) \in types THEN Next1(s) ELSE PushError(Next1(s), s.head - 1)

Restore(s, checkpoint) == [s EXCEPT !.head = checkpoint.head, !.nodes = checkpoint.nodes]

Depth(s) == Len(s.nodes)
Top(s) == s.nodes[Depth(s)]
Push(s, node) == [s EXCEPT !.nodes = Append(@, node)]

(* The top node is used without a test for NULL. *)
Uses(s) == [s EXCEPT !.crashed = @ \/ Top(s) = NULL]

Leaf(type, i) == [type |-> type, tokens |-> <<i>>, children |-> <<>>, first |-> i, last |-> i]

(* A node for the nodes above depth; node_push_child leaves out NULL.        *)
Wrap(s, depth, type, tokens, first, last) ==
  LET IsNode(n) == n # NULL
      children  == SelectSeq(SubSeq(s.nodes, depth + 1, Depth(s)), IsNode)
  IN  [s EXCEPT !.nodes = Append(SubSeq(@, 1, depth),
         [type |-> type, tokens |-> tokens, children |-> children, first |-> first, last |-> last])]

First(node) == IF node = NULL THEN 0 ELSE node.first
Last(node) == IF node = NULL THEN 0 ELSE node.last

(* Where the span of a new node comes from: its children (node_span), its    *)
(* first child and the token just read, the state s0 its function began in   *)
(* and that token, or s0 and the last child.                                 *)
Spanning(s, depth, type, tokens) ==
  Wrap(s, depth, type, tokens, First(s.nodes[depth + 1]), Last(Top(s)))
Closed(s, depth, type, tokens) ==
  Wrap(s, depth, type, tokens, First(s.nodes[depth + 1]), s.head - 1)
From(s, s0, type) == Wrap(s, Depth(s0), type, <<>>, s0.head, s.head - 1)
UpTo(s, s0, type) == Wrap(s, Depth(s0), type, <<>>, s0.head, Last(Top(s)))

(* Parentheses are not in the tree but in the span. *)
Parenthesized(s, first) ==
  [s EXCEPT !.nodes[Depth(s)] =
     IF @ = NULL THEN NULL ELSE [@ EXCEPT !.first = first, !.last = s.head - 1]]

(* The two nodes on top, joined by the operator at i. *)
Joined(s, type, i) == Spanning(s, Depth(s) - 2, type, <<i>>)

-----------------------------------------------------------------------------
RECURSIVE Assignment(_), Conditional(_), BinaryExpression(_, _), Unary(_), Postfix(_),
          CommaList(_), MoreOperands(_, _)

(* The loops of expression and of argument_expression_list_opt. *)
CommaList(s) ==
  IF Peek(s) = "," THEN CommaList(Joined(Assignment(Next1(s)), "binary", s.head)) ELSE s

Expression(s) == CommaList(Assignment(s))

Arguments(s) == IF Peek(s) = ")" THEN s ELSE CommaList(Assignment(s))

Primary(s) ==
  CASE Peek(s) \in {"identifier", "literal"} -> Push(Next1(s), Leaf(Peek(s), s.head))
    [] Peek(s) = "(" -> Parenthesized(Expect(Uses(Expression(Next1(s))), {")"}), s.head)
    [] OTHER -> Push(Next1(PushError(s, s.head)), NULL)

(* The loop of postfix_expression. *)
PostfixOf(s, depth) ==
  CASE Peek(s) = "[" -> Closed(Expect(Expression(Next1(s)), {"]"}), depth, "subscript", <<>>)
    [] Peek(s) = "(" -> Closed(Expect(Arguments(Next1(s)), {")"}), depth, "call", <<>>)
    [] Peek(s) \in {".", "->"} ->
         Closed(Expect(Next1(s), {"identifier"}), depth, "member", <<s.head + 1>>)
    [] Peek(s) \in {"++", "--"} -> Closed(Next1(s), depth, "postfix", <<s.head>>)

Postfix(s) ==
  IF Peek(s) \in {"[", "(", ".", "->", "++", "--"}
  THEN Postfix(PostfixOf(Uses(s), Depth(s) - 1))
  ELSE s

PrefixOf(s, i) == Wrap(s, Depth(s) - 1, "unary", <<i>>, i, Last(Top(s)))

Unary(s) ==
  IF Peek(s) \in UnaryOps THEN PrefixOf(Uses(Unary(Next1(s))), s.head) ELSE Postfix(Primary(s))

(* Mutant: operators associate to the right. *)
MoreOperandsRight(s, level) ==
  IF Peek(s) \in BinaryOps[level]
  THEN Joined(BinaryExpression(Next1(s), level), "binary", s.head)
  ELSE s

MoreOperands(s, level) ==
  IF Peek(s) \in BinaryOps[level]
  THEN MoreOperands(Joined(BinaryExpression(Next1(s), level + 1), "binary", s.head), level)
  ELSE s

(* logical_or_expression to multiplicative_expression. *)
BinaryExpression(s, level) ==
  IF level \in Levels THEN MoreOperands(BinaryExpression(s, level + 1), level) ELSE Unary(s)

ConditionalOf(s) ==
  IF Peek(s) # "?" THEN s
  ELSE Spanning(Uses(Conditional(Expect(Expression(Next1(Uses(s))), {":"}))),
                Depth(s) - 1, "conditional", <<s.head>>)

Conditional(s) == ConditionalOf(BinaryExpression(s, 1))

(* A speculation: the left side is parsed, and parsed again unless an        *)
(* assignment operator follows. What it reports stays reported.              *)
(* Mutant: the head is not restored.                                         *)
AssignmentOfUnrestored(left, s) ==
  IF Peek(left) \in AssignmentOps
  THEN Joined(Assignment(Next1(left)), "assignment", left.head)
  ELSE Conditional([left EXCEPT !.nodes = s.nodes])

AssignmentOf(left, s) ==
  IF Peek(left) \in AssignmentOps
  THEN Joined(Assignment(Next1(left)), "assignment", left.head)
  ELSE Conditional(Restore(left, s))

Assignment(s) == AssignmentOf(Unary(s), s)

-----------------------------------------------------------------------------
RECURSIVE Declarator(_), AfterStars(_), Suffixes(_), MoreParameters(_), MoreInits(_)

TypeSpecifier(s) == Push(Expect(s, {"int", "void"}), Leaf("builtin_type", s.head))

ParameterDeclaration(s) ==
  Spanning(Declarator(TypeSpecifier(s)), Depth(s), "parameter", <<>>)

MoreParameters(s) ==
  IF Peek(s) = "," THEN MoreParameters(ParameterDeclaration(Next1(s))) ELSE s

Parameters(s) == IF Peek(s) = ")" THEN s ELSE MoreParameters(ParameterDeclaration(s))

ArraySize(s) == IF Peek(s) = "]" THEN s ELSE Conditional(s)

(* The loop of direct_declarator. *)
Suffixes(s) ==
  CASE Peek(s) = "[" ->
         Suffixes(Closed(Expect(ArraySize(Next1(s)), {"]"}), Depth(s) - 1, "array_type", <<>>))
    [] Peek(s) = "(" ->
         Suffixes(Closed(Expect(Parameters(Next1(s)), {")"}), Depth(s) - 1, "function_type", <<>>))
    [] OTHER -> s

DirectDeclarator(s) ==
  CASE Peek(s) = "identifier" -> Suffixes(Push(Next1(s), Leaf("declarator", s.head)))
    [] Peek(s) = "(" ->
         Suffixes(Parenthesized(Expect(Uses(Declarator(Next1(s))), {")"}), s.head))
    [] OTHER -> Push(Next1(PushError(s, s.head)), NULL)

AfterStars(s) == IF Peek(s) = "*" THEN AfterStars(Next1(s)) ELSE s

(* The pointer nodes of the stars from first to last, around the declarator  *)
(* on top, which is the end of the outermost. The spans of the others end    *)
(* with the stars.                                                           *)
PointersTo(s, first, last) ==
  LET Around(i, inner) ==
        [Leaf("pointer_type", i) EXCEPT !.children = IF inner = NULL THEN <<>> ELSE <<inner>>,
                                        !.last = last]
      pointer[i \in first .. last + 1] ==
        IF i > last THEN Top(s) ELSE Around(i, pointer[i + 1])
  IN  [s EXCEPT !.nodes[Depth(s)] =
         [pointer[first] EXCEPT !.last = IF Top(s) = NULL THEN @ ELSE Top(s).last]]

Declarator(s) ==
  IF Peek(s) = "*"
  THEN PointersTo(DirectDeclarator(AfterStars(s)), s.head, AfterStars(s).head - 1)
  ELSE DirectDeclarator(s)

InitOf(s) == IF Peek(s) = "=" THEN Joined(Assignment(Next1(s)), "init", s.head) ELSE s

InitDeclarator(s) == InitOf(Declarator(s))

MoreInits(s) == IF Peek(s) = "," THEN MoreInits(InitDeclarator(Next1(s))) ELSE s

Declaration(s) ==
  From(Expect(MoreInits(InitDeclarator(TypeSpecifier(s))), {";"}), s, "declaration")

-----------------------------------------------------------------------------
RECURSIVE Statement(_), BlockItems(_)

BlockItem(s) == IF Peek(s) \in {"int", "void"} THEN Declaration(s) ELSE Statement(s)

(* Up to the closing brace, or the end of the text. *)
BlockItems(s) ==
  CASE Peek(s) = "}" -> Next1(s)
    [] Peek(s) = "EOF" -> PushError(s, s.head)
    [] OTHER -> BlockItems(BlockItem(s))

CompoundStatement(s) == From(BlockItems(Expect(s, {"{"})), s, "compound_statement")

(* An expression, unless there is none before the token end. *)
Optional(s, end) == IF Peek(s) = end THEN s ELSE Expression(s)

ExpressionStatement(s) == From(Expect(Optional(s, ";"), {";"}), s, "expression_statement")

(* An expression in parentheses. *)
Condition(s) == Expect(Expression(Expect(s, {"("})), {")"})

Else(s) == IF Peek(s) = "else" THEN Statement(Next1(s)) ELSE s

SelectionStatement(s) == UpTo(Else(Statement(Condition(Next1(s)))), s, "if_statement")

WhileStatement(s) == UpTo(Statement(Condition(Next1(s))), s, "while_statement")

ForInit(s) == IF Peek(s) \in {"int", "void"} THEN Declaration(s) ELSE ExpressionStatement(s)

ForHead(s) == Expect(Optional(ExpressionStatement(ForInit(Expect(s, {"("}))), ")"), {")"})

ForStatement(s) == UpTo(Statement(ForHead(Next1(s))), s, "for_statement")

JumpStatement(s) == From(Expect(Optional(Next1(s), ";"), {";"}), s, "return_statement")

Statement(s) ==
  CASE Peek(s) = "{" -> CompoundStatement(s)
    [] Peek(s) = "if" -> SelectionStatement(s)
    [] Peek(s) = "while" -> WhileStatement(s)
    [] Peek(s) = "for" -> ForStatement(s)
    [] Peek(s) = "return" -> JumpStatement(s)
    [] OTHER -> ExpressionStatement(s)

FunctionDefinition(s) ==
  Spanning(CompoundStatement(Declarator(TypeSpecifier(s))), Depth(s), "function_definition", <<>>)

(* A speculation that looks for what follows the first declarator. *)
ExternalOf(decl, s) ==
  IF Peek(decl) \in {"=", ";"}
  THEN Declaration(Restore(decl, s))
  ELSE FunctionDefinition(Restore(decl, s))

ExternalDeclaration(s) == ExternalOf(Declarator(TypeSpecifier(s)), s)

RECURSIVE TranslationUnit(_)
TranslationUnit(s) ==
  IF Peek(s) = "EOF" THEN s ELSE TranslationUnit(ExternalDeclaration(s))

-----------------------------------------------------------------------------
Init ==
  /\ text \in Texts
  /\ result = NULL

(* parse: with errors there is no tree. *)
Result(s) ==
  [crashed |-> s.crashed, errors |-> s.errors, nodes |-> IF s.errors = <<>> THEN s.nodes ELSE <<>>]

Parse ==
  /\ result = NULL
  /\ result' = Result(TranslationUnit([text |-> text, head |-> 1, errors |-> <<>>,
                                       nodes |-> <<>>, crashed |-> FALSE]))
  /\ UNCHANGED text

Spec == Init /\ [][Parse]_vars

-----------------------------------------------------------------------------
Accepted == result # NULL /\ ~result.crashed /\ result.errors = <<>>

(* What the parser accepts without a diagnostic is in the language of        *)
(* grammar.txt: no misplaced or missing token slips through the speculations *)
(* and the loops.                                                            *)
OnlyGrammarAccepted == Accepted => Derivable(text)

Nesting(i) ==
  Cardinality({k \in 1 .. i : text[k] \in {"(", "[", "{"}})
    - Cardinality({k \in 1 .. i : text[k] \in {")", "]", "}"}})

(* What grammar.txt derives is accepted, and crashes nothing, but for a list *)
(* of declarators outside of functions (external_declaration).               *)
OnlyListsRejected ==
  result # NULL /\ ~Accepted /\ Derivable(text) =>
    \E i \in DOMAIN text : text[i] = "," /\ Nesting(i) = 0

RECURSIVE NodesOf(_)
NodesOf(node) ==
  {node} \cup UNION {NodesOf(node.children[k]) : k \in DOMAIN node.children}

(* How tightly an expression holds together, in the order of grammar.txt: a  *)
(* comma, an assignment, a conditional, the binary levels, unary, the rest.  *)
(* Parentheses are all that is between a node's start and what it holds.     *)
Tightness(node) ==
  LET op == text[node.tokens[1]]
      starts == {node.tokens[k] : k \in DOMAIN node.tokens}
                  \cup {node.children[k].first : k \in DOMAIN node.children}
      tightest == Len(BinaryOps) + 4
  IN  CASE \A i \in starts : node.first < i -> tightest
        [] node.type = "binary" /\ op = "," -> 0
        [] node.type = "assignment" -> 1
        [] node.type = "conditional" -> 2
        [] node.type = "binary" /\ op # "," ->
             2 + CHOOSE level \in Levels : op \in BinaryOps[level]
        [] node.type = "unary" -> tightest - 1
        [] OTHER -> tightest

(* What each child of an expression must at least be to stand there without  *)
(* parentheses.                                                              *)
Required(node) ==
  LET tightest == Len(BinaryOps) + 4
      level == CHOOSE l \in Levels : text[node.tokens[1]] \in BinaryOps[l]
  IN  CASE node.type = "binary" ->
             IF text[node.tokens[1]] = "," THEN <<0, 1>> ELSE <<2 + level, 3 + level>>
        [] node.type = "assignment" -> <<tightest - 1, 1>>
        [] node.type = "conditional" -> <<3, 0, 2>>
        [] node.type = "unary" -> <<tightest - 1>>
        [] node.type \in {"postfix", "member"} -> <<tightest>>
        [] node.type \in {"subscript", "call"} -> <<tightest, 0>>
        [] node.type = "init" -> <<0, 1>>
        [] OTHER -> <<>>

Punctuation ==
  {"(", ")", "[", "]", "{", "}", ";", ",", ":", ".", "->", "if", "else", "while", "for", "return"}

(* The tree of an accepted text is its derivation: precedence and            *)
(* associativity are those of the grammar, every token that is no            *)
(* punctuation is held by one node, and the spans, which diagnostics of      *)
(* later phases point at, nest and follow each other as the nodes do (but    *)
(* for those of pointer types, which end before what they point to).         *)
TreeIsDerivation ==
  Accepted =>
    LET nodes == UNION {NodesOf(result.nodes[k]) : k \in DOMAIN result.nodes}
    IN  /\ \A i \in DOMAIN text :
             text[i] \notin Punctuation =>
               Cardinality({n \in nodes : \E k \in DOMAIN n.tokens : n.tokens[k] = i}) = 1
        /\ \A n \in nodes :
             /\ \A k \in DOMAIN n.children :
                  /\ k <= Len(Required(n)) => Tightness(n.children[k]) >= Required(n)[k]
                  /\ n.first <= n.children[k].first
                  /\ n.type # "pointer_type" => n.children[k].last <= n.last
                  /\ k > 1 => n.children[k - 1].last < n.children[k].first
=============================================================================
