---------------------------- MODULE MCMiddleEnd ----------------------------
(***************************************************************************)
(* Instances of MiddleEnd: functions over every operator, applied to       *)
(* representatives of every type and of every way to fail.                 *)
(***************************************************************************)
EXTENDS MiddleEndClaims

MCLiterals == -12 .. 12
MCSamples == {0, 1, 5}

Id(name) == Identifier(name)
Lit(n) == IntegerLiteral(ToString(n))
Op(op, e, f) == BinaryOperation(op, e, f)

(* int *p; int a[2]; int f(int m, int n) { return m; } in front, the array    *)
(* only if it is used: it cannot be printed.                                  *)
Params == <<Parameter("int", Declarator("x")), Parameter("int", Declarator("y"))>>
Prelude(e) ==
  <<Declaration("int", PointerTo(Declarator("p")))>>
  \o (IF Id("a") \in Nodes(e) THEN <<Declaration("int", ArrayOf(Declarator("a"), Lit(2)))>> ELSE <<>>)
  \o <<FunctionDefinition("int", FunctionOf(Declarator("f"),
         <<Parameter("int", Declarator("m")), Parameter("int", Declarator("n"))>>),
         <<ReturnStatement(<<Id("m")>>)>>)>>

BinaryOps ==
  {",", "||", "&&", "|", "^", "&", "==", "!=", "<", ">", "<=", ">=", "<<", ">>", "+", "-", "*", "/", "%"}
UnaryOps == {"++", "--", "&", "*", "+", "-", "~", "!"}

(* The operands: of every type, with and without a fault inside.             *)
Operands ==
  { Id("x"), Lit(0), Lit(1), Id("p"), Id("a"), Id("f"), Id("undeclared"),
    Op("+", Id("x"), Lit(1)), UnaryOperation("&", Id("p")), UnaryOperation("*", Id("p")),
    Assign("=", Id("x"), Lit(1)), Op("*", Id("p"), Id("x")),
    FunctionCall(Id("f"), <<Op(",", Id("x"), Lit(1))>>), ArraySubscript(Id("a"), Id("x")) }

Few == {Id("x"), Lit(0), Id("p"), Id("a"), Id("undeclared")}

Expressions ==
  Operands
    \cup {UnaryOperation(op, e) : op \in UnaryOps, e \in Operands}
    \cup {PostfixOperation(op, e) : op \in {"++", "--"}, e \in Operands}
    \cup {BinaryOperation(op, e, f) : op \in BinaryOps, e \in Operands, f \in Operands}
    \cup {Assign(op, e, f) : op \in {"=", "+=", "&="}, e \in Operands, f \in Operands}
    \cup {ArraySubscript(e, f) : e \in Operands, f \in Operands}
    \cup {ConditionalOperation(c, e, f) : c \in Operands, e \in Few, f \in Few}
    \cup {MemberAccess(Id("x"))}
    \cup {FunctionCall(e, <<>>) : e \in {Id("x"), Id("f"), Id("undeclared")}}
    \cup {FunctionCall(e, <<arg>>) : e \in {Id("x"), Id("f"), Id("undeclared")}, arg \in Operands}
    \cup {FunctionCall(Id("f"), <<Op(",", e, f)>>) : e \in Operands, f \in Operands}
    \cup {FunctionCall(Id("f"), <<Op(",", Op(",", e, f), Lit(1))>>) : e \in Few, f \in Few}
    \cup {FunctionCall(Id("f"), <<Op(",", Op(",", Op(",", Lit(1), e), f), Lit(1))>>) : e \in Few, f \in Few}

Tested(e) ==
  Append(Prelude(e), FunctionDefinition("int", FunctionOf(Declarator("h"), Params),
                    <<ExpressionStatement(<<e>>), ReturnStatement(<<Id("y")>>)>>))

-----------------------------------------------------------------------------
(* int c = K; for constants K.                                               *)
ConstantOperands ==
  { Lit(0), Lit(1), Lit(3), Lit(7), UnaryOperation("-", Lit(3)), UnaryOperation("~", Lit(1)),
    Op("/", Lit(1), Lit(0)), Op("^", Lit(1), Lit(3)), Op("<<", Lit(1), Lit(7)), Id("x") }
Small == {Lit(0), Lit(3), Op("/", Lit(1), Lit(0))}
Constants ==
  {BinaryOperation(op, e, f) : op \in BinaryOps, e \in ConstantOperands, f \in ConstantOperands}
    \cup {UnaryOperation(op, e) : op \in UnaryOps, e \in ConstantOperands}
    \cup {UnaryOperation(op, Op(op2, e, Lit(3))) : op \in {"-", "!", "~"}, op2 \in {"-", "<", "|"}, e \in ConstantOperands}
    \cup {ConditionalOperation(c, e, f) : c \in ConstantOperands, e \in Small, f \in Small}
    \cup {ConditionalOperation(Op(op, c, Lit(1)), Op("-", d, Lit(1)), ConditionalOperation(d, e, Lit(12))) :
             op \in {"<", "&&"}, c \in Small, d \in Small, e \in Small}

-----------------------------------------------------------------------------
(* Functions that compute a value from their parameters, by way of variables. *)
ValueLeaves == {Id("x"), Id("m"), Id("z"), Lit(3)}
Steps ==
  {UnaryOperation(op, Id("x")) : op \in {"++", "--", "+", "-"}} \cup {PostfixOperation(op, Id("x")) : op \in {"++", "--"}}
    \cup {Assign("=", Id("x"), Op("-", Id("z"), Id("n"))), Op("<", Id("x"), Id("n")), Op("*", Id("x"), Id("n")),
          FunctionCall(Id("f"), <<Op(",", Id("x"), Op("+", Id("z"), Lit(1)))>>),
          FunctionCall(Id("f"), <<Op(",", Lit(3), Id("m"))>>), UnaryOperation("-", Lit(3))}
Computations ==
  Steps \cup {Op(op, e, f) : op \in {"+", "-", "*", "/", "%", "<", "=="}, e \in ValueLeaves \cup Steps, f \in ValueLeaves \cup Steps}
    \cup {Assign("=", Id(v), Assign("=", Id("x"), e)) : v \in {"z", "m"}, e \in Steps}

Numbers == <<Parameter("int", Declarator("m")), Parameter("int", Declarator("n"))>>
Function(name, items) == FunctionDefinition("int", FunctionOf(Declarator(name), Numbers), items)
Computing(e) ==
  LET start == <<Declaration("int", Declarator("x")),
                 Declaration("int", Initialized(Declarator("z"), Op("-", Lit(3), Lit(1)))),
                 ExpressionStatement(<<Assign("=", Id("x"), Id("m"))>>)>>
  IN  <<Function("f", <<ReturnStatement(<<Op("-", Id("m"), Id("n"))>>)>>),
        Function("g", start \o <<ReturnStatement(<<e>>)>>),
        Function("h", start \o <<ExpressionStatement(<<e>>), ReturnStatement(<<Op("-", Id("x"), Id("z"))>>)>>)>>

-----------------------------------------------------------------------------
(* Declarations of every form, of two names.                                  *)
Body == <<ReturnStatement(<<Id("m")>>)>>
M == Parameter("int", Declarator("m"))
DeclarationsOf(name) ==
  LET d == Declarator(name) IN
  {Declaration("int", e) : e \in
     { d, Initialized(d, Lit(3)), Initialized(d, Id("c")), PointerTo(d), Initialized(PointerTo(d), Lit(0)),
       PointerTo(PointerTo(d)), ArrayOf(d, Lit(2)), Node("ARRAY_TYPE", "[", <<d>>), ArrayOf(d, Id("c")),
       ArrayOf(d, Op("/", Lit(1), Lit(0))), PointerTo(ArrayOf(d, Lit(2))), ArrayOf(PointerTo(d), Lit(2)),
       FunctionOf(d, <<>>), FunctionOf(d, <<M>>), PointerTo(FunctionOf(d, <<M>>)), FunctionOf(PointerTo(d), <<M>>),
       FunctionOf(d, <<Parameter("int", ArrayOf(Declarator("m"), Id("c")))>>),
       Initialized(FunctionOf(d, <<M>>), Id("c")), Initialized(FunctionOf(d, <<M>>), Lit(3)) }}
  \cup {Declaration("void", d), Declaration("void", PointerTo(d))}
  \cup {FunctionDefinition("int", FunctionOf(d, params), Body) : params \in
        { <<M>>, <<M, Parameter("int", PointerTo(Declarator("n")))>>, <<M, M>>, <<>>,
          <<Parameter("int", PointerTo(Declarator("m")))>>, <<Parameter("int", ArrayOf(Declarator("m"), Lit(2)))>>,
          <<Parameter("int", ArrayOf(Declarator("m"), Id("c")))>>, <<Parameter("int", FunctionOf(Declarator("m"), <<>>))>>,
          <<Parameter("void", Declarator("m"))>>, <<Parameter("int", Declarator(name)), M>> }}
  \cup {FunctionDefinition(type, FunctionOf(d, <<M>>), items) : type \in {"int", "void"}, items \in
        { <<>>, <<ReturnStatement(<<>>)>>, <<ReturnStatement(<<Lit(1)>>)>>, <<ReturnStatement(<<Id("c")>>)>>,
          <<ExpressionStatement(<<>>)>>, <<ReturnStatement(<<FunctionCall(Id(name), <<Op(",", Id("m"), Lit(1))>>)>>)>>,
          <<ReturnStatement(<<FunctionCall(Id("c"), <<Op(",", Id("m"), UnaryOperation("-", Lit(1)))>>)>>)>>,
          <<ReturnStatement(<<Id("m")>>), ExpressionStatement(<<Lit(1)>>)>> }}
  \cup {FunctionDefinition("int", FunctionOf(d, <<M>>), <<Declaration("int", e)>> \o Body) : e \in
        { Declarator("m"), Declarator("c"), Initialized(Declarator("y"), Id("m")), PointerTo(Declarator("y")),
          ArrayOf(Declarator("y"), Lit(2)), ArrayOf(Declarator("y"), Id("m")), FunctionOf(Declarator("y"), <<M>>) }}
  \cup {FunctionDefinition("int", PointerTo(FunctionOf(d, <<M>>)), Body)}

Declarations ==
  {<<d>> : d \in DeclarationsOf("c")}
    \cup {<<d, e>> : d \in DeclarationsOf("c"), e \in DeclarationsOf("c") \cup DeclarationsOf("d")}

(* Files after each other, the same one again at the end.                     *)
Files ==
  {Tested(e) : e \in {Op("*", Id("p"), Id("x")), Assign("=", Id("x"), Op("+", Id("y"), Lit(1))),
                      FunctionCall(Id("f"), <<Op(",", Id("x"), Lit(1))>>)}}
    \cup { <<Declaration("int", Initialized(Declarator("c"), Lit(3))), Declaration("int", Declarator("c"))>>,
           <<Declaration("int", Declarator("f")), Declaration("int", Declarator("h"))>>,
           Computing(Op("-", Id("x"), Id("z"))) }

-----------------------------------------------------------------------------
(* Units around the room of arrays, 6 for the 20 of the code: functions that  *)
(* forge so many tokens, together or one alone, before and behind a return;   *)
(* so many global variables and functions, where what is used comes first or  *)
(* last; so many local variables; trees that reach the height of 12 as they   *)
(* are parsed, or when they are desugared.                                    *)
Variables(names) == [i \in DOMAIN names |-> Declaration("int", Declarator(names[i]))]
Pointers(names) == [i \in DOMAIN names |-> Declaration("int", PointerTo(Declarator(names[i])))]
First(n) == SubSeq(<<"a", "b", "c", "d", "e", "k", "l">>, 1, n)
Do(e) == <<ExpressionStatement(<<e>>)>>
Give(e) == <<ReturnStatement(<<e>>)>>
Increments(n) == [i \in 1 .. n |-> ExpressionStatement(<<UnaryOperation("++", Id("x"))>>)]
Calling == FunctionCall(Id("f"), <<Op(",", Id("m"), Id("n"))>>)

RECURSIVE Chain(_, _)
Chain(e, n) == IF n = 0 THEN e ELSE Op("-", Chain(e, n - 1), Id("n"))

Large ==
  {<<Function("f", Variables(<<"x">>) \o Increments(n) \o Give(e))>> : n \in 0 .. 4, e \in {Id("m"), UnaryOperation("-", Id("x"))}}
    \cup {<<Function("f", Variables(<<"x">>) \o Increments(n) \o Give(Id("m"))),
            Function("g", Variables(<<"x">>) \o Give(Id("x")) \o Increments(1))>> : n \in 0 .. 3}
    \cup {Pointers(First(n)) \o <<Function("f", Give(Id("m"))), Function("g", Give(e))>> :
            n \in 3 .. 6, e \in {Id("n"), Id("a"), Calling}}
    \cup {<<Function("f", Give(Id("m"))), Function("g", Give(Calling))>> \o Pointers(First(n)) : n \in 3 .. 6}
    \cup {<<Function("f", Variables(First(n)) \o Do(Assign("=", Id("a"), Id("m"))) \o Give(Id("a")))>> : n \in 3 .. 7}
    \cup {<<Function("f", Do(Op("<", Id("m"), Id("n"))) \o Variables(First(n)) \o Give(Id("n")))>> : n \in 3 .. 7}
    \cup {<<Function("f", Variables(<<"x">>) \o Give(Chain(e, n)))>> : n \in 5 .. 9, e \in {Id("m"), UnaryOperation("++", Id("x"))}}

MCCompilations ==
  {<<Tested(e)>> : e \in Expressions}
    \cup {<<Computing(e)>> : e \in Computations}
    \cup {<< <<Declaration("int", Initialized(Declarator("c"), e))>> >> : e \in Constants}
    \cup {<<d>> : d \in Declarations}
    \cup {<<u>> : u \in Large}
    \cup {<<u, v, u>> : u \in Files, v \in Files}
=============================================================================
