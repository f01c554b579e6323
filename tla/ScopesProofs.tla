----------------------------- MODULE ScopesProofs -----------------------------
(***************************************************************************)
(* Proofs about the symbol tables, for every program: any number of names, *)
(* scopes and declarations, nested to any depth.                           *)
(*                                                                         *)
(* PathFromScope shows that the way outwards from a scope is well defined, *)
(* because a parent is older than its children. InsertFinds,               *)
(* NewScopeInnermost and EndScopeLeaves say what symbol_insert,            *)
(* begin_scope and end_scope do to it, and ResolveUnique that without      *)
(* shadowing resolve_symbol finds the visible symbol. ScopesInv joins the  *)
(* tables to the walk: the open scopes are as many as the active calls,    *)
(* and the symbol of the function that is being walked is in the global    *)
(* scope, so that it is found again behind its body. The last part maps    *)
(* the open scopes to the blocks of Environment.                           *)
(***************************************************************************)
EXTENDS Scopes, NaturalNumbers, SequenceTheorems, TLAPS

(* The scopes of t form a tree: each but the first, the global one, has an   *)
(* older scope for its parent.                                               *)
Tree(t) ==
  /\ Len(t) \in Nat
  /\ DOMAIN t = 1 .. Len(t)
  /\ \A s \in DOMAIN t : t[s].parent \in (1 .. s - 1) \cup {NONE}

-----------------------------------------------------------------------------
(* p gives, for NONE and the first n scopes of t, the way outwards. *)
Upto(n) == (1 .. n) \cup {NONE}

Ways(t, n, p) ==
  /\ p \in [Upto(n) -> Seq(DOMAIN t)]
  /\ p[NONE] = <<>>
  /\ \A s \in 1 .. n : p[s] = <<s>> \o p[t[s].parent]

(* NULL is no scope. *)
LEMMA NoneIsNoNumber == NONE \notin Nat
BY ScopesAssumption

(* A sequence with one more element. *)
LEMMA Longer ==
  ASSUME NEW S, NEW s \in S, NEW seq \in Seq(S)
  PROVE  <<s>> \o seq \in Seq(S)
OBVIOUS

(* One scope more has its way outwards too. *)
LEMMA WaysGrow ==
  ASSUME NEW t, Tree(t), NEW n \in Nat, n + 1 <= Len(t), NEW p, Ways(t, n, p)
  PROVE  \E q : Ways(t, n + 1, q)
<1> DEFINE m == n + 1
           way == <<m>> \o p[t[m].parent]
           q == [s \in Upto(m) |-> IF s = m THEN way ELSE p[s]]
<1>1. m \in 1 .. Len(t) /\ m \in DOMAIN t /\ m \in Nat /\ m # NONE
  BY NoneIsNoNumber DEF Tree
<1>2. \A s \in 1 .. m : t[s].parent \in (1 .. s - 1) \cup {NONE}
  BY <1>1 DEF Tree
<1>3. \A s \in 1 .. m : t[s].parent \in Upto(n) /\ t[s].parent \in Upto(m) /\ t[s].parent # m
  BY <1>1, <1>2 DEF Upto
<1>4. Upto(m) = Upto(n) \cup {m} /\ \A s \in Upto(n) : s # m
  BY <1>1 DEF Upto
<1>5. way \in Seq(DOMAIN t)
  <2>1. t[m].parent \in Upto(n)
    BY <1>1, <1>3
  <2>2. p[t[m].parent] \in Seq(DOMAIN t)
    BY <2>1 DEF Ways
  <2> HIDE DEF m
  <2>3. QED
    BY <1>1, <2>2, Longer
<1>6. \A s \in Upto(n) : q[s] = p[s] /\ p[s] \in Seq(DOMAIN t)
  BY <1>4 DEF Ways
<1>7. q[m] = way
  BY <1>4
<1> HIDE DEF m, way
<1>8. q \in [Upto(m) -> Seq(DOMAIN t)]
  BY <1>4, <1>5, <1>6
<1> HIDE DEF q
<1>9. q[NONE] = <<>>
  BY <1>6 DEF Ways, Upto
<1>10. \A s \in 1 .. m : q[s] = <<s>> \o q[t[s].parent]
  <2>1. TAKE s \in 1 .. m
  <2>2. q[t[s].parent] = p[t[s].parent]
    BY <1>3, <1>6
  <2>3. CASE s = m
    BY <1>7, <2>2, <2>3 DEF way
  <2>4. CASE s # m
    <3>1. s \in 1 .. n /\ s \in Upto(n)
      BY <2>4 DEF m, Upto
    <3>2. p[s] = <<s>> \o p[t[s].parent]
      BY <3>1 DEF Ways
    <3>3. QED
      BY <1>6, <2>2, <3>1, <3>2
  <2>5. QED
    BY <2>3, <2>4
<1>11. QED
  BY <1>8, <1>9, <1>10 DEF Ways, m

(* The ways outwards exist. *)
LEMMA WaysExist ==
  ASSUME NEW t, Tree(t)
  PROVE  \E p : Ways(t, Len(t), p)
<1> DEFINE Good == {n \in Nat : n <= Len(t) => \E p : Ways(t, n, p)}
<1>1. 0 \in Good
  <2> DEFINE p == [x \in {NONE} |-> <<>>]
  <2>1. Upto(0) = {NONE}
    BY DEF Upto
  <2>2. p \in [{NONE} -> Seq(DOMAIN t)] /\ p[NONE] = <<>>
    BY EmptySeq
  <2>3. Ways(t, 0, p)
    BY <2>1, <2>2 DEF Ways
  <2>4. QED
    BY <2>3
<1>2. \A n \in Nat : n \in Good => n + 1 \in Good
  BY WaysGrow DEF Tree
<1>3. Nat \subseteq Good
  <2> HIDE DEF Good
  <2>1. QED
    BY <1>1, <1>2, Induction
<1>4. QED
  BY <1>3 DEF Tree

(* The way outwards from a scope is well defined: it starts with the scope   *)
(* and goes on as that of its parent does.                                   *)
LEMMA PathFromScope ==
  ASSUME NEW t, Tree(t)
  PROVE  /\ Path(t, NONE) = <<>>
         /\ \A s \in DOMAIN t :
              /\ t[s].parent \in DOMAIN t \cup {NONE}
              /\ Path(t, s) = <<s>> \o Path(t, t[s].parent)
         /\ \A s \in DOMAIN t \cup {NONE} : Path(t, s) \in Seq(DOMAIN t)
<1> DEFINE D == DOMAIN t \cup {NONE}
           path == CHOOSE p : p = [r \in D |-> IF r = NONE THEN <<>>
                                               ELSE <<r>> \o p[t[r].parent]]
<1>1. \A s : Path(t, s) = path[s]
  BY DEF Path
<1>2. PICK p : Ways(t, Len(t), p)
  BY WaysExist
<1>3. D = Upto(Len(t)) /\ DOMAIN t = 1 .. Len(t) /\ NONE \notin DOMAIN t
  BY NoneIsNoNumber DEF Tree, Upto
<1>4. \A s \in DOMAIN t : t[s].parent \in (1 .. s - 1) \cup {NONE} /\ t[s].parent \in D
  BY <1>3 DEF Tree
<1> HIDE DEF D
<1>5. p = [r \in D |-> IF r = NONE THEN <<>> ELSE <<r>> \o p[t[r].parent]]
  BY <1>2, <1>3 DEF Ways, D
<1>6. path = [r \in D |-> IF r = NONE THEN <<>> ELSE <<r>> \o path[t[r].parent]]
  BY <1>5
<1> HIDE DEF path
<1>7. path[NONE] = <<>>
  BY <1>6 DEF D
<1>8. \A s \in DOMAIN t : path[s] = <<s>> \o path[t[s].parent]
  BY <1>3, <1>6 DEF D
<1>9. ASSUME NEW s \in DOMAIN t, path[s] \notin Seq(DOMAIN t) PROVE FALSE
  <2> DEFINE Bad == {r \in DOMAIN t : path[r] \notin Seq(DOMAIN t)}
  <2>1. Bad # {} /\ Bad \subseteq Nat /\ Bad \subseteq DOMAIN t
    BY <1>3, <1>9
  <2>2. PICK r \in Bad : \A l \in Bad : r <= l
    <3> HIDE DEF Bad
    <3>1. QED
      BY <2>1, LeastNumber
  <2>3. r \in DOMAIN t /\ r \in Nat /\ path[r] \notin Seq(DOMAIN t)
    BY <2>1
  <2>4. CASE t[r].parent = NONE
    <3>1. path[t[r].parent] \in Seq(DOMAIN t)
      BY <1>7, <2>4, EmptySeq
    <3>2. QED
      BY <1>8, <2>3, <3>1, Longer
  <2>5. CASE t[r].parent # NONE
    <3>1. t[r].parent \in DOMAIN t /\ t[r].parent \in Nat /\ t[r].parent < r
      BY <1>3, <1>4, <2>3, <2>5
    <3>2. t[r].parent \notin Bad
      BY <2>2, <3>1, <2>3
    <3>3. path[t[r].parent] \in Seq(DOMAIN t)
      BY <3>1, <3>2
    <3>4. QED
      BY <1>8, <2>3, <3>3, Longer
  <2>6. QED
    BY <2>4, <2>5
<1>10. \A s \in D : path[s] \in Seq(DOMAIN t)
  BY <1>7, <1>9, EmptySeq DEF D
<1>11. QED
  BY <1>1, <1>4, <1>7, <1>8, <1>10 DEF D

(* The scopes on the way outwards from s, s among them. *)
OnPath(t, s) == {Path(t, s)[d] : d \in DOMAIN Path(t, s)}

(* The way outwards by its entries. *)
LEMMA PathEntries ==
  ASSUME NEW t, Tree(t), NEW s \in DOMAIN t
  PROVE  LET up == Path(t, t[s].parent)
         IN  /\ Len(up) \in Nat /\ DOMAIN up = 1 .. Len(up)
             /\ Len(Path(t, s)) = Len(up) + 1
             /\ DOMAIN Path(t, s) = 1 .. Len(up) + 1
             /\ Path(t, s)[1] = s
             /\ \A d \in 1 .. Len(up) : Path(t, s)[d + 1] = up[d]
<1> DEFINE up == Path(t, t[s].parent)
<1>1. up \in Seq(DOMAIN t) /\ Path(t, s) = <<s>> \o up
  BY PathFromScope
<1> HIDE DEF up
<1>2. /\ Len(up) \in Nat /\ DOMAIN up = 1 .. Len(up)
      /\ Len(Path(t, s)) = Len(up) + 1
      /\ DOMAIN Path(t, s) = 1 .. Len(up) + 1
  BY <1>1
<1>3. Path(t, s)[1] = s
  BY <1>1
<1>4. \A d \in 1 .. Len(up) : Path(t, s)[d + 1] = up[d]
  BY <1>1, <1>2
<1>5. QED
  BY <1>2, <1>3, <1>4 DEF up

(* The scopes on the way outwards of a scope. *)
LEMMA OnPathOfScope ==
  ASSUME NEW t, Tree(t)
  PROVE  /\ OnPath(t, NONE) = {}
         /\ \A s \in DOMAIN t : OnPath(t, s) = {s} \cup OnPath(t, t[s].parent)
         /\ \A s \in DOMAIN t \cup {NONE} : OnPath(t, s) \subseteq DOMAIN t
<1>1. OnPath(t, NONE) = {}
  BY PathFromScope DEF OnPath
<1>2. ASSUME NEW s \in DOMAIN t
      PROVE  OnPath(t, s) = {s} \cup OnPath(t, t[s].parent)
  <2> DEFINE up == Path(t, t[s].parent)
             p == Path(t, s)
  <2>1. /\ Len(up) \in Nat /\ DOMAIN up = 1 .. Len(up)
        /\ DOMAIN p = 1 .. Len(up) + 1 /\ p[1] = s
        /\ \A d \in 1 .. Len(up) : p[d + 1] = up[d]
    BY PathEntries
  <2>2. OnPath(t, s) = {p[d] : d \in DOMAIN p}
        /\ OnPath(t, t[s].parent) = {up[d] : d \in DOMAIN up}
    BY DEF OnPath
  <2> HIDE DEF up, p
  <2>3. ASSUME NEW d \in DOMAIN p PROVE p[d] = s \/ \E e \in DOMAIN up : p[d] = up[e]
    <3>1. CASE d = 1
      BY <2>1, <3>1
    <3>2. CASE d # 1
      <4>1. d - 1 \in DOMAIN up /\ (d - 1) + 1 = d
        BY <2>1, <3>2
      <4>2. QED
        BY <2>1, <4>1
    <3>3. QED
      BY <3>1, <3>2
  <2>4. ASSUME NEW e \in DOMAIN up PROVE e + 1 \in DOMAIN p /\ p[e + 1] = up[e]
    BY <2>1
  <2>5. 1 \in DOMAIN p
    BY <2>1
  <2>6. QED
    BY <2>1, <2>2, <2>3, <2>4, <2>5
<1>3. ASSUME NEW s \in DOMAIN t \cup {NONE} PROVE OnPath(t, s) \subseteq DOMAIN t
  <2>1. Path(t, s) \in Seq(DOMAIN t)
    BY PathFromScope
  <2>2. QED
    BY <2>1 DEF OnPath
<1>4. QED
  BY <1>1, <1>2, <1>3

(* Later scopes do not change the way outwards from an earlier one. *)
LEMMA PathStays ==
  ASSUME NEW t, Tree(t), NEW u, Tree(u), DOMAIN t \subseteq DOMAIN u,
         \A s \in DOMAIN t : u[s].parent = t[s].parent,
         NEW s \in DOMAIN t \cup {NONE}
  PROVE  Path(u, s) = Path(t, s) /\ OnPath(u, s) = OnPath(t, s)
<1> DEFINE Bad == {r \in DOMAIN t : Path(u, r) # Path(t, r)}
<1>1. Path(u, NONE) = Path(t, NONE)
  BY PathFromScope
<1>2. Bad \subseteq Nat /\ \A r \in DOMAIN t : r \in Nat /\ r # NONE
  BY NoneIsNoNumber DEF Tree
<1>3. CASE Bad # {}
  <2>1. PICK r \in Bad : \A l \in Bad : r <= l
    <3> HIDE DEF Bad
    <3>1. QED
      BY <1>2, <1>3, LeastNumber
  <2>2. /\ Path(u, r) = <<r>> \o Path(u, t[r].parent)
        /\ Path(t, r) = <<r>> \o Path(t, t[r].parent)
        /\ t[r].parent \in DOMAIN t \cup {NONE}
    BY PathFromScope
  <2>3. t[r].parent \in (1 .. r - 1) \cup {NONE}
    BY DEF Tree
  <2>4. t[r].parent \notin Bad
    BY <1>2, <2>1, <2>3, NoneIsNoNumber
  <2>5. Path(u, t[r].parent) = Path(t, t[r].parent)
    BY <1>1, <2>2, <2>4
  <2>6. QED
    BY <2>1, <2>2, <2>5
<1>4. CASE Bad = {}
  <2>1. \A r \in DOMAIN t : Path(u, r) = Path(t, r)
    BY <1>4
  <2>2. Path(u, s) = Path(t, s)
    BY <1>1, <2>1
  <2>3. QED
    BY <2>2 DEF OnPath
<1>5. QED
  BY <1>3, <1>4

-----------------------------------------------------------------------------
(* What the tables are made of. *)
Symbol == [name : Names, kind : {"variable", "function", "parameter"}, id : Nat]

TreeNode == [type : {"unit", "function", "statement"}, id : Nat \cup {NONE}]

Scope ==
  [parent : Nat \cup {NONE},
   declaration : TreeNode,
   symbols : Seq(Symbol), capacity : Nat, moves : Nat]

Holds(t, s, name) == \E k \in DOMAIN t[s].symbols : t[s].symbols[k].name = name

(* resolve_symbol returns NULL when no scope on the way outwards holds the   *)
(* name, and otherwise a pointer to a symbol of that name in one of them.    *)
LEMMA ResolveFinds ==
  ASSUME NEW t \in Seq(Scope), Tree(t), NEW from \in DOMAIN t, NEW name
  PROVE  LET p == Resolve(name, from, t)
         IN  IF \E s \in OnPath(t, from) : Holds(t, s, name)
             THEN /\ p \in [scope : OnPath(t, from), moves : Nat, index : Nat]
                  /\ p # NONE
                  /\ p.moves = t[p.scope].moves
                  /\ p.index \in DOMAIN t[p.scope].symbols
                  /\ t[p.scope].symbols[p.index].name = name
             ELSE p = NONE
<1> DEFINE path == Path(t, from)
           hits(s) == {k \in DOMAIN t[s].symbols : t[s].symbols[k].name = name}
           holders == {d \in DOMAIN path : hits(path[d]) # {}}
           nearest == CHOOSE d \in holders : \A e \in holders : d <= e
           first(s) == CHOOSE k \in hits(s) : \A l \in hits(s) : k <= l
<1>1. /\ path \in Seq(DOMAIN t) /\ DOMAIN path \subseteq Nat
      /\ OnPath(t, from) = {path[d] : d \in DOMAIN path}
  <2>1. path \in Seq(DOMAIN t)
    BY PathFromScope
  <2>2. QED
    BY <2>1 DEF OnPath
<1>2. Resolve(name, from, t) =
        IF holders = {} THEN NONE
        ELSE [scope |-> path[nearest], moves |-> t[path[nearest]].moves,
              index |-> first(path[nearest])]
  BY DEF Resolve
<1>3. (\E s \in OnPath(t, from) : Holds(t, s, name)) <=> holders # {}
  BY <1>1 DEF Holds
<1>4. CASE holders = {}
  BY <1>2, <1>3, <1>4
<1>5. CASE holders # {}
  <2>1. nearest \in holders
    <3>1. holders \subseteq Nat
      BY <1>1
    <3> HIDE DEF holders
    <3>2. \E d \in holders : \A e \in holders : d <= e
      BY <1>5, <3>1, LeastNumber
    <3>3. QED
      BY <3>2
  <2> DEFINE s == path[nearest]
  <2>2. s \in OnPath(t, from) /\ s \in DOMAIN t /\ hits(s) # {}
    <3>1. nearest \in DOMAIN path /\ hits(path[nearest]) # {}
      BY <2>1
    <3> HIDE DEF nearest, hits, path
    <3>2. path[nearest] \in OnPath(t, from) /\ path[nearest] \in DOMAIN t
      BY <1>1, <3>1
    <3>3. QED
      BY <3>1, <3>2
  <2> HIDE DEF s
  <2>3. t[s] \in Scope /\ t[s].moves \in Nat /\ t[s].symbols \in Seq(Symbol)
    <3>1. t[s] \in Scope
      BY <2>2
    <3>2. QED
      BY <3>1 DEF Scope
  <2>4. hits(s) \subseteq Nat
    BY <2>3
  <2>5. first(s) \in hits(s)
    <3> HIDE DEF hits
    <3>1. \E k \in hits(s) : \A l \in hits(s) : k <= l
      BY <2>2, <2>4, LeastNumber
    <3>2. QED
      BY <3>1
  <2>6. /\ first(s) \in Nat /\ first(s) \in DOMAIN t[s].symbols
        /\ t[s].symbols[first(s)].name = name
    BY <2>4, <2>5
  <2>7. Resolve(name, from, t) = [scope |-> s, moves |-> t[s].moves, index |-> first(s)]
    BY <1>2, <1>5 DEF s
  <2> HIDE DEF first, hits
  <2>8. s \in Nat
    BY <2>2 DEF Tree
  <2>9. Resolve(name, from, t) \in [scope : Nat, moves : Nat, index : Nat]
    BY <2>3, <2>6, <2>7, <2>8
  <2>10. Resolve(name, from, t) # NONE
    BY <2>9, ScopesAssumption
  <2> HIDE DEF holders
  <2>11. QED
    BY <1>3, <1>5, <2>2, <2>3, <2>6, <2>7, <2>10
<1>6. QED
  BY <1>4, <1>5

-----------------------------------------------------------------------------
(* No name is declared twice on the way outwards from s. *)
Distinct(t, s) ==
  \A q, r \in OnPath(t, s) :
    \A k \in DOMAIN t[q].symbols, l \in DOMAIN t[r].symbols :
      t[q].symbols[k].name = t[r].symbols[l].name => q = r /\ k = l

(* The scopes after one of them was put back. *)
Replaced(t, c, r) == [t EXCEPT ![c] = r]

(* The scopes with a new one inside c. *)
Grown(t, c, node) == Append(t, NewScope(c, node))

(* u has the scopes of t, with their symbols at their places, and maybe more *)
(* of both.                                                                  *)
Extends(t, u) ==
  /\ DOMAIN t \subseteq DOMAIN u
  /\ \A s \in DOMAIN t :
       /\ u[s].parent = t[s].parent
       /\ \A k \in DOMAIN t[s].symbols :
            k \in DOMAIN u[s].symbols /\ u[s].symbols[k] = t[s].symbols[k]

(* array_push appends the symbol, wherever the array is then. *)
LEMMA PushedAppends ==
  ASSUME NEW s \in Scope, NEW sym \in Symbol, NEW r \in Pushed(s, sym)
  PROVE  /\ r \in Scope /\ r.parent = s.parent
         /\ r.declaration = s.declaration
         /\ r.symbols = Append(s.symbols, sym)
<1> DEFINE larger == [s EXCEPT !.symbols = Append(@, sym)]
<1>1. s.symbols \in Seq(Symbol) /\ Append(s.symbols, sym) \in Seq(Symbol)
  BY AppendProperties DEF Scope
<1>2. /\ larger \in Scope /\ larger.parent = s.parent
      /\ larger.declaration = s.declaration
      /\ larger.symbols = Append(s.symbols, sym)
  BY <1>1 DEF Scope
<1>3. r = larger \/ \E m \in {0, 1} : r = [larger EXCEPT !.capacity = 2 * @, !.moves = @ + m]
  BY DEF Pushed
<1> HIDE DEF larger
<1>4. CASE r = larger
  BY <1>2, <1>4
<1>5. ASSUME NEW m \in {0, 1}, r = [larger EXCEPT !.capacity = 2 * @, !.moves = @ + m]
      PROVE  /\ r \in Scope /\ r.parent = larger.parent
             /\ r.declaration = larger.declaration
             /\ r.symbols = larger.symbols
  <2>1. 2 * larger.capacity \in Nat /\ larger.moves + m \in Nat
    BY <1>2 DEF Scope
  <2>2. r = [larger EXCEPT !.capacity = 2 * larger.capacity, !.moves = larger.moves + m]
    BY <1>5
  <2> DEFINE d == 2 * larger.capacity
             e == larger.moves + m
  <2> HIDE DEF d, e
  <2>3. r = [larger EXCEPT !.capacity = d, !.moves = e] /\ d \in Nat /\ e \in Nat
    BY <2>1, <2>2 DEF d, e
  <2>4. QED
    BY <1>2, <2>3 DEF Scope
<1>6. QED
  BY <1>2, <1>3, <1>4, <1>5

(* A name that resolve_symbol does not find can be declared in the scope it  *)
(* was looked up from: it is then found there and nothing is shadowed.       *)
LEMMA InsertFinds ==
  ASSUME NEW t \in Seq(Scope), Tree(t), NEW c \in DOMAIN t, NEW sym \in Symbol,
         Resolve(sym.name, c, t) = NONE, Distinct(t, c),
         NEW r \in Pushed(t[c], sym), NEW u, u = Replaced(t, c, r)
  PROVE  /\ u \in Seq(Scope) /\ Tree(u) /\ Extends(t, u)
         /\ Len(u) = Len(t) /\ Distinct(u, c)
         /\ Len(t[c].symbols) + 1 \in DOMAIN u[c].symbols
         /\ u[c].symbols[Len(t[c].symbols) + 1] = sym
         /\ \A q \in DOMAIN t \ {c} : u[q] = t[q]
<1> DEFINE n == Len(t[c].symbols)
<1>1. /\ t[c] \in Scope /\ t[c].symbols \in Seq(Symbol) /\ n \in Nat
      /\ DOMAIN t[c].symbols = 1 .. n
  <2>1. t[c] \in Scope
    OBVIOUS
  <2>2. t[c].symbols \in Seq(Symbol)
    BY <2>1 DEF Scope
  <2>3. QED
    BY <2>1, <2>2
<1>2. /\ r \in Scope /\ r.parent = t[c].parent
      /\ r.symbols = Append(t[c].symbols, sym)
  BY <1>1, PushedAppends
<1>3. /\ DOMAIN r.symbols = 1 .. n + 1 /\ r.symbols[n + 1] = sym
      /\ \A k \in 1 .. n : r.symbols[k] = t[c].symbols[k]
  BY <1>1, <1>2, AppendProperties
<1>4. /\ u \in Seq(Scope) /\ Len(u) = Len(t) /\ DOMAIN u = DOMAIN t
      /\ u[c] = r /\ \A q \in DOMAIN t \ {c} : u[q] = t[q]
  BY <1>2 DEF Replaced
<1>5. Tree(u)
  BY <1>2, <1>4 DEF Tree
<1>6. Extends(t, u)
  <2>1. DOMAIN t \subseteq DOMAIN u
    BY <1>4
  <2>2. ASSUME NEW s \in DOMAIN t
        PROVE  /\ u[s].parent = t[s].parent
               /\ \A k \in DOMAIN t[s].symbols :
                    k \in DOMAIN u[s].symbols /\ u[s].symbols[k] = t[s].symbols[k]
    <3> HIDE DEF n
    <3>1. CASE s = c
      <4>1. u[s].parent = t[s].parent /\ u[s] = r
        BY <1>2, <1>4, <3>1
      <4>2. DOMAIN t[s].symbols = 1 .. n
        BY <1>1, <3>1
      <4>3. ASSUME NEW k \in 1 .. n
            PROVE  k \in DOMAIN r.symbols /\ r.symbols[k] = t[s].symbols[k]
        <5>1. k \in 1 .. n + 1
          BY <1>1
        <5>2. QED
          BY <1>3, <3>1, <5>1
      <4>4. QED
        BY <4>1, <4>2, <4>3
    <3>2. CASE s # c
      BY <1>4, <3>2
    <3>3. QED
      BY <3>1, <3>2
  <2>3. QED
    BY <2>1, <2>2 DEF Extends
<1>7. OnPath(u, c) = OnPath(t, c) /\ OnPath(t, c) \subseteq DOMAIN t
  <2>1. DOMAIN t \subseteq DOMAIN u /\ \A s \in DOMAIN t : u[s].parent = t[s].parent
    BY <1>6 DEF Extends
  <2>2. \A s \in DOMAIN t \cup {NONE} : Path(u, s) = Path(t, s) /\ OnPath(u, s) = OnPath(t, s)
    BY <1>5, <2>1, PathStays
  <2>3. QED
    BY <2>2, OnPathOfScope
<1>8. \A q \in OnPath(t, c) : ~Holds(t, q, sym.name)
  BY ResolveFinds
<1>9. Distinct(u, c)
  <2>1. \A q \in OnPath(t, c) : \A k :
          k \in DOMAIN u[q].symbols =>
            \/ k \in DOMAIN t[q].symbols /\ u[q].symbols[k] = t[q].symbols[k]
               /\ u[q].symbols[k].name # sym.name
            \/ q = c /\ k = n + 1 /\ u[q].symbols[k] = sym
    <3>1. ASSUME NEW q \in OnPath(t, c), NEW k \in DOMAIN u[q].symbols
          PROVE  \/ k \in DOMAIN t[q].symbols /\ u[q].symbols[k] = t[q].symbols[k]
                    /\ u[q].symbols[k].name # sym.name
                 \/ q = c /\ k = n + 1 /\ u[q].symbols[k] = sym
      <4>1. CASE q # c
        BY <1>4, <1>7, <1>8, <4>1 DEF Holds
      <4>2. CASE q = c /\ k \in 1 .. n
        BY <1>1, <1>3, <1>4, <1>8, <4>2 DEF Holds
      <4>3. CASE q = c /\ k = n + 1
        BY <1>3, <1>4, <4>3
      <4>4. QED
        BY <1>1, <1>3, <1>4, <4>1, <4>2, <4>3
    <3>2. QED
      BY <3>1
  <2>2. SUFFICES ASSUME NEW q \in OnPath(t, c), NEW p \in OnPath(t, c),
                        NEW k \in DOMAIN u[q].symbols, NEW l \in DOMAIN u[p].symbols,
                        u[q].symbols[k].name = u[p].symbols[l].name
                 PROVE  q = p /\ k = l
    BY <1>7 DEF Distinct
  <2>3. CASE u[q].symbols[k].name = sym.name
    <3> HIDE DEF n
    <3>1. q = c /\ k = n + 1
      BY <2>1, <2>3
    <3>2. p = c /\ l = n + 1
      BY <2>1, <2>2, <2>3
    <3>3. QED
      BY <3>1, <3>2
  <2>4. CASE u[q].symbols[k].name # sym.name
    <3>1. /\ k \in DOMAIN t[q].symbols /\ u[q].symbols[k] = t[q].symbols[k]
          /\ l \in DOMAIN t[p].symbols /\ u[p].symbols[l] = t[p].symbols[l]
      BY <2>1, <2>2, <2>4
    <3>2. QED
      BY <2>2, <3>1 DEF Distinct
  <2>5. QED
    BY <2>3, <2>4
<1>10. QED
  BY <1>1, <1>3, <1>4, <1>5, <1>6, <1>9

(* u has a new scope for node inside c, and is t otherwise. *)
IsInnermost(t, c, node, u) ==
  LET new == Len(t) + 1
  IN  /\ u \in Seq(Scope) /\ Tree(u) /\ Extends(t, u)
      /\ Len(u) = new /\ new \in DOMAIN u /\ new \notin DOMAIN t
      /\ u[new] = NewScope(c, node)
      /\ \A q \in DOMAIN t : u[q] = t[q]
      /\ Path(u, new) = <<new>> \o Path(t, c)
      /\ Len(Path(u, new)) = Len(Path(t, c)) + 1
      /\ Distinct(t, c) => Distinct(u, new)

(* A new scope is the innermost one, one level further in, and empty. *)
LEMMA NewScopeInnermost ==
  ASSUME NEW t \in Seq(Scope), Tree(t), NEW c \in DOMAIN t,
         NEW node \in TreeNode,
         NEW u, u = Grown(t, c, node)
  PROVE  IsInnermost(t, c, node, u)
<1> DEFINE new == Len(t) + 1
<1>1. Len(t) \in Nat /\ DOMAIN t = 1 .. Len(t)
  BY DEF Tree
<1>2. NewScope(c, node) \in Scope
  <2>1. <<>> \in Seq(Symbol) /\ c \in Nat /\ Capacity \in Nat
    BY <1>1, EmptySeq, ScopesAssumption
  <2>2. QED
    BY <2>1 DEF NewScope, Scope
<1>3. /\ u \in Seq(Scope) /\ Len(u) = new /\ DOMAIN u = 1 .. new
      /\ u[new] = NewScope(c, node) /\ \A q \in DOMAIN t : u[q] = t[q]
  BY <1>1, <1>2, AppendProperties DEF Grown
<1>4. u[new].parent = c /\ DOMAIN u[new].symbols = {}
  BY <1>3 DEF NewScope
<1>5. Tree(u)
  BY <1>1, <1>3, <1>4 DEF Tree
<1>6. Extends(t, u)
  BY <1>1, <1>3 DEF Extends
<1>7. Path(u, c) = Path(t, c) /\ OnPath(u, c) = OnPath(t, c)
  <2>1. DOMAIN t \subseteq DOMAIN u /\ \A s \in DOMAIN t : u[s].parent = t[s].parent
    BY <1>6 DEF Extends
  <2>2. QED
    BY <1>5, <2>1, PathStays
<1>8. new \in DOMAIN u /\ new \notin DOMAIN t
  BY <1>1, <1>3
<1>9. Path(u, new) = <<new>> \o Path(t, c) /\ Len(Path(u, new)) = Len(Path(t, c)) + 1
  <2>1. Path(u, new) = <<new>> \o Path(u, u[new].parent)
    BY <1>5, <1>8, PathFromScope
  <2>2. Len(Path(u, new)) = Len(Path(u, u[new].parent)) + 1
    BY <1>5, <1>8, PathEntries
  <2>3. QED
    BY <1>4, <1>7, <2>1, <2>2
<1>10. Distinct(t, c) => Distinct(u, new)
  <2>1. OnPath(u, new) = {new} \cup OnPath(t, c) /\ OnPath(t, c) \subseteq DOMAIN t
    <3>1. OnPath(u, new) = {new} \cup OnPath(u, u[new].parent)
      BY <1>5, <1>8, OnPathOfScope
    <3>2. OnPath(t, c) \subseteq DOMAIN t
      BY OnPathOfScope
    <3>3. QED
      BY <1>4, <1>7, <3>1, <3>2
  <2>2. QED
    BY <1>3, <1>4, <2>1 DEF Distinct
<1>11. QED
  BY <1>3, <1>5, <1>6, <1>8, <1>9, <1>10 DEF IsInnermost

(* Without shadowing, a visible symbol is what its name is resolved to. *)
LEMMA ResolveUnique ==
  ASSUME NEW u \in Seq(Scope), Tree(u), NEW c \in DOMAIN u, Distinct(u, c),
         NEW q \in OnPath(u, c), NEW k \in DOMAIN u[q].symbols,
         NEW name, name = u[q].symbols[k].name
  PROVE  /\ Resolve(name, c, u) # NONE
         /\ Resolve(name, c, u).scope = q /\ Resolve(name, c, u).index = k
<1> DEFINE p == Resolve(name, c, u)
<1>1. Holds(u, q, name)
  BY DEF Holds
<1>2. /\ p \in [scope : OnPath(u, c), moves : Nat, index : Nat]
      /\ p # NONE
      /\ p.index \in DOMAIN u[p.scope].symbols
      /\ u[p.scope].symbols[p.index].name = name
  BY <1>1, ResolveFinds
<1> HIDE DEF p
<1>3. p.scope = q /\ p.index = k
  BY <1>2 DEF Distinct
<1>4. QED
  BY <1>2, <1>3 DEF p

-----------------------------------------------------------------------------
Frame ==
  [what : {"unit", "parameters", "function", "statement"},
   id : Nat \cup {NONE}, name : Names \cup {NONE}]

(* The scopes of a file are a tree below the global scope. *)
TablesFormTree ==
  /\ scopes \in Seq(Scope)
  /\ Tree(scopes)
  /\ \A s \in DOMAIN scopes : scopes[s].parent = NONE <=> s = 1
  /\ phase \in {"start", "walk", "walked", "aborted"}
  /\ phase = "start" => scopes = <<>> /\ current_scope = NONE /\ global_scope = NONE
  /\ phase # "start" => current_scope \in DOMAIN scopes /\ global_scope = 1
  /\ g_current_symbol_id \in Nat

(* The active calls that opened a scope match the way outwards. *)
WalkMatchesPath ==
  /\ walk \in Seq(Frame)
  /\ phase \in {"start", "walked"} => walk = <<>>
  /\ phase \in {"walk", "aborted"} => Len(walk) = Len(Path(scopes, current_scope))
  /\ \A k \in DOMAIN walk : walk[k].what = "unit" <=> k = 1

(* A function is defined at file level, and the global scope holds its       *)
(* symbol while its parameters and its body are walked.                      *)
FunctionDeclared ==
  \A k \in DOMAIN walk :
    walk[k].what \in {"parameters", "function"} =>
      /\ k = 2
      /\ walk[k].id \in Nat
      /\ ~errors => \E l \in DOMAIN scopes[1].symbols :
                      /\ scopes[1].symbols[l].name = walk[k].name
                      /\ scopes[1].symbols[l].id = walk[k].id

(* The place a pointer names holds the symbol it was made for. *)
PointersTrue ==
  ~errors =>
    \A d \in DOMAIN symbol :
      /\ symbol[d] # NONE
      /\ symbol[d].scope \in DOMAIN scopes
      /\ symbol[d].index \in DOMAIN scopes[symbol[d].scope].symbols
      /\ scopes[symbol[d].scope].symbols[symbol[d].index].id = d

ScopesInv ==
  /\ TablesFormTree
  /\ WalkMatchesPath
  /\ FunctionDeclared
  /\ PointersTrue
  /\ Distinct(scopes, current_scope)

-----------------------------------------------------------------------------
(* What other declarations add does not disturb the function that is walked  *)
(* nor the pointers there are.                                               *)
LEMMA ExtensionKeeps ==
  ASSUME FunctionDeclared, PointersTrue, Extends(scopes, scopes'),
         ~errors' => ~errors, walk # <<>> => 1 \in DOMAIN scopes
  PROVE  /\ walk' = walk => FunctionDeclared'
         /\ symbol' = symbol => PointersTrue'
         /\ ~errors' =>
              \A d \in DOMAIN symbol :
                /\ symbol[d] # NONE
                /\ symbol[d].scope \in DOMAIN scopes'
                /\ symbol[d].index \in DOMAIN scopes'[symbol[d].scope].symbols
                /\ scopes'[symbol[d].scope].symbols[symbol[d].index].id = d
<1>1. ASSUME walk' = walk PROVE FunctionDeclared'
  <2> SUFFICES ASSUME NEW k \in DOMAIN walk,
                      walk[k].what \in {"parameters", "function"}
               PROVE  /\ k = 2
                      /\ walk[k].id \in Nat
                      /\ ~errors' => \E l \in DOMAIN scopes'[1].symbols :
                                      /\ scopes'[1].symbols[l].name = walk[k].name
                                      /\ scopes'[1].symbols[l].id = walk[k].id
    BY <1>1 DEF FunctionDeclared
  <2>1. k = 2 /\ walk[k].id \in Nat
    BY DEF FunctionDeclared
  <2>2. ASSUME ~errors'
        PROVE  \E l \in DOMAIN scopes'[1].symbols :
                 /\ scopes'[1].symbols[l].name = walk[k].name
                 /\ scopes'[1].symbols[l].id = walk[k].id
    <3>1. PICK l \in DOMAIN scopes[1].symbols :
            /\ scopes[1].symbols[l].name = walk[k].name
            /\ scopes[1].symbols[l].id = walk[k].id
      BY <2>2 DEF FunctionDeclared
    <3>2. 1 \in DOMAIN scopes
      OBVIOUS
    <3>3. l \in DOMAIN scopes'[1].symbols /\ scopes'[1].symbols[l] = scopes[1].symbols[l]
      BY <3>2 DEF Extends
    <3>4. QED
      BY <3>1, <3>3
  <2>3. QED
    BY <2>1, <2>2
<1>2. ASSUME ~errors', NEW d \in DOMAIN symbol
      PROVE  /\ symbol[d] # NONE
             /\ symbol[d].scope \in DOMAIN scopes'
             /\ symbol[d].index \in DOMAIN scopes'[symbol[d].scope].symbols
             /\ scopes'[symbol[d].scope].symbols[symbol[d].index].id = d
  BY <1>2 DEF PointersTrue, Extends
<1>3. ASSUME symbol' = symbol PROVE PointersTrue'
  BY <1>2, <1>3 DEF PointersTrue
<1>4. QED
  BY <1>1, <1>2, <1>3

(* symbol_insert for a declaration that is processed in the current scope,   *)
(* and the pointer its node is given.                                        *)
LEMMA InsertKeeps ==
  ASSUME ScopesInv, phase = "walk", NEW name \in Names,
         NEW kind \in {"variable", "function", "parameter"},
         SymbolInsert(name, kind), Bind(g_current_symbol_id, name, current_scope),
         NewId, UNCHANGED <<global_scope, current_scope, walk, identifier, phase>>
  PROVE  ScopesInv'
<1> DEFINE c == current_scope
           g == g_current_symbol_id
           sym == [name |-> name, kind |-> kind, id |-> g]
<1>1. /\ scopes \in Seq(Scope) /\ Tree(scopes) /\ c \in DOMAIN scopes
      /\ g \in Nat /\ g' = g + 1 /\ Distinct(scopes, c)
      /\ c' = c /\ walk' = walk /\ phase' = phase /\ global_scope' = global_scope
      /\ sym \in Symbol
  BY DEF ScopesInv, TablesFormTree, NewId, Symbol
<1>2. symbol' = [d \in DOMAIN symbol \cup {g} |->
                   IF d = g THEN Resolve(name, c, scopes') ELSE symbol[d]]
  BY DEF Bind
<1>3. CASE Resolve(name, c, scopes) # NONE
  <2>1. scopes' = scopes /\ errors'
    BY <1>3 DEF SymbolInsert
  <2>2. TablesFormTree' /\ WalkMatchesPath' /\ Distinct(scopes, current_scope)'
    BY <1>1, <2>1 DEF ScopesInv, TablesFormTree, WalkMatchesPath
  <2>3. FunctionDeclared' /\ PointersTrue'
    BY <1>1, <2>1 DEF ScopesInv, FunctionDeclared, PointersTrue
  <2>4. QED
    BY <2>2, <2>3 DEF ScopesInv
<1>4. CASE Resolve(name, c, scopes) = NONE
  <2>1. PICK r \in Pushed(scopes[c], sym) : scopes' = [scopes EXCEPT ![c] = r]
    BY <1>4 DEF SymbolInsert
  <2>2. errors' = errors
    BY <1>4 DEF SymbolInsert
  <2> DEFINE n == Len(scopes[c].symbols) + 1
  <2>3. /\ scopes' \in Seq(Scope) /\ Tree(scopes') /\ Extends(scopes, scopes')
        /\ Len(scopes') = Len(scopes) /\ Distinct(scopes', c)
        /\ n \in DOMAIN scopes'[c].symbols /\ scopes'[c].symbols[n] = sym
    <3>1. sym.name = name
      OBVIOUS
    <3> HIDE DEF sym, c, n
    <3>2. Resolve(sym.name, c, scopes) = NONE
      BY <1>4, <3>1
    <3>5. /\ scopes \in Seq(Scope) /\ Tree(scopes) /\ c \in DOMAIN scopes
          /\ sym \in Symbol /\ Distinct(scopes, c) /\ r \in Pushed(scopes[c], sym)
      BY <1>1, <2>1
    <3>3. scopes' = Replaced(scopes, c, r)
      BY <2>1 DEF Replaced
    <3>4. QED
      BY <3>2, <3>3, <3>5, InsertFinds DEF n
  <2>4. DOMAIN scopes' = DOMAIN scopes
    BY <1>1, <2>3 DEF Tree
  <2>5. TablesFormTree'
    BY <1>1, <2>3, <2>4 DEF ScopesInv, TablesFormTree, Extends
  <2>6. WalkMatchesPath'
    <3>1. Path(scopes', c) = Path(scopes, c)
      BY <1>1, <2>3, PathStays DEF Extends
    <3>2. QED
      BY <1>1, <3>1 DEF ScopesInv, WalkMatchesPath
  <2>7. walk # <<>> => 1 \in DOMAIN scopes
    BY <1>1 DEF Tree
  <2>8. /\ FunctionDeclared'
        /\ ~errors' =>
              \A d \in DOMAIN symbol :
                /\ symbol[d] # NONE
                /\ symbol[d].scope \in DOMAIN scopes'
                /\ symbol[d].index \in DOMAIN scopes'[symbol[d].scope].symbols
                /\ scopes'[symbol[d].scope].symbols[symbol[d].index].id = d
    BY <1>1, <2>2, <2>3, <2>7, ExtensionKeeps DEF ScopesInv
  <2>9. /\ Resolve(name, c, scopes') # NONE
        /\ Resolve(name, c, scopes').scope = c /\ Resolve(name, c, scopes').index = n
    <3>1. c \in OnPath(scopes', c)
      BY <1>1, <2>3, <2>4, OnPathOfScope
    <3>2. name = scopes'[c].symbols[n].name
      BY <2>3
    <3> HIDE DEF n, c, sym
    <3>3. QED
      BY <1>1, <2>3, <2>4, <3>1, <3>2, ResolveUnique
  <2>10. PointersTrue'
    <3>1. scopes'[c].symbols[n].id = g
      BY <2>3
    <3> HIDE DEF n, c, sym, g
    <3>2. ASSUME ~errors', NEW d \in DOMAIN symbol'
          PROVE  /\ symbol'[d] # NONE
                 /\ symbol'[d].scope \in DOMAIN scopes'
                 /\ symbol'[d].index \in DOMAIN scopes'[symbol'[d].scope].symbols
                 /\ scopes'[symbol'[d].scope].symbols[symbol'[d].index].id = d
      <4>1. CASE d = g
        BY <1>1, <1>2, <2>3, <2>4, <2>9, <3>1, <4>1
      <4>2. CASE d # g
        BY <1>2, <2>8, <3>2, <4>2
      <4>3. QED
        BY <4>1, <4>2
    <3>3. QED
      BY <3>2 DEF PointersTrue
  <2>11. QED
    BY <1>1, <2>3, <2>5, <2>6, <2>8, <2>10 DEF ScopesInv
<1>5. QED
  BY <1>3, <1>4

(* The global scope is the first scope of a file. *)
LEMMA CreateKeeps ==
  ASSUME ScopesInv, CreateScopes
  PROVE  ScopesInv'
<1> DEFINE s == NewScope(NONE, Node("unit", NONE))
<1>1. /\ scopes = <<>> /\ current_scope = NONE /\ global_scope = NONE /\ walk = <<>>
      /\ g_current_symbol_id' = g_current_symbol_id /\ g_current_symbol_id \in Nat
  BY DEF ScopesInv, TablesFormTree, WalkMatchesPath, CreateScopes
<1>2. /\ scopes' = Append(<<>>, s) /\ current_scope' = 1 /\ global_scope' = 1
      /\ walk' = <<[what |-> "unit", id |-> NONE, name |-> NONE]>>
      /\ phase' = "walk" /\ symbol' = symbol /\ errors' = errors
  BY <1>1 DEF CreateScopes, BeginScope, nodes
<1>3. s \in Scope /\ s.parent = NONE /\ DOMAIN s.symbols = {}
  <2>1. <<>> \in Seq(Symbol) /\ Capacity \in Nat
    BY EmptySeq, ScopesAssumption
  <2>2. QED
    BY <2>1 DEF NewScope, Scope, Node, TreeNode
<1> HIDE DEF s
<1>4. /\ scopes' \in Seq(Scope) /\ Len(scopes') = 1 /\ DOMAIN scopes' = {1}
      /\ scopes'[1] = s
  BY <1>2, <1>3
<1>5. Tree(scopes')
  BY <1>3, <1>4 DEF Tree
<1>6. TablesFormTree'
  BY <1>1, <1>2, <1>3, <1>4, <1>5 DEF TablesFormTree
<1>7. Len(Path(scopes', 1)) = 1 /\ OnPath(scopes', 1) = {1}
  <2>1. Path(scopes', scopes'[1].parent) = <<>> /\ OnPath(scopes', scopes'[1].parent) = {}
    BY <1>3, <1>4, <1>5, PathFromScope, OnPathOfScope
  <2>2. Len(Path(scopes', 1)) = Len(Path(scopes', scopes'[1].parent)) + 1
    BY <1>4, <1>5, PathEntries
  <2>3. OnPath(scopes', 1) = {1} \cup OnPath(scopes', scopes'[1].parent)
    BY <1>4, <1>5, OnPathOfScope
  <2>4. QED
    BY <2>1, <2>2, <2>3
<1>8. WalkMatchesPath' /\ FunctionDeclared'
  BY <1>2, <1>7 DEF WalkMatchesPath, FunctionDeclared, Frame
<1>9. PointersTrue'
  <2>1. DOMAIN scopes = {}
    BY <1>1
  <2>2. errors' \/ DOMAIN symbol = {}
    BY <1>2, <2>1 DEF ScopesInv, PointersTrue
  <2>3. QED
    BY <1>2, <2>2 DEF PointersTrue
<1>10. Distinct(scopes', 1)
  BY <1>3, <1>4, <1>7 DEF Distinct
<1>11. QED
  BY <1>2, <1>6, <1>8, <1>9, <1>10 DEF ScopesInv

(* begin_scope on top of scopes t that extend the scopes s. *)
LEMMA TableGrows ==
  ASSUME NEW s, Tree(s), NEW t \in Seq(Scope), Tree(t), Extends(s, t), Len(t) = Len(s),
         NEW c \in DOMAIN s, Distinct(t, c),
         NEW node \in TreeNode,
         NEW u, u = Grown(t, c, node)
  PROVE  LET new == Len(t) + 1
         IN  /\ u \in Seq(Scope) /\ Tree(u) /\ Extends(s, u)
             /\ Len(u) = new /\ new \in DOMAIN u /\ new \notin DOMAIN t
             /\ u[new] = NewScope(c, node)
             /\ \A q \in DOMAIN t : u[q] = t[q]
             /\ Len(Path(u, new)) = Len(Path(s, c)) + 1
             /\ Distinct(u, new)
<1> DEFINE new == Len(t) + 1
<1>1. DOMAIN t = DOMAIN s /\ c \in DOMAIN t /\ Len(t) \in Nat
  BY DEF Tree
<1>2. /\ u \in Seq(Scope) /\ Tree(u) /\ Len(u) = new /\ new \in DOMAIN u
      /\ new \notin DOMAIN t /\ u[new] = NewScope(c, node)
      /\ \A q \in DOMAIN t : u[q] = t[q]
      /\ Extends(t, u) /\ Distinct(u, new)
      /\ Len(Path(u, new)) = Len(Path(t, c)) + 1
  <2>1. IsInnermost(t, c, node, u)
    BY <1>1, NewScopeInnermost
  <2>2. QED
    BY <2>1 DEF IsInnermost
<1> HIDE DEF new
<1>3. Extends(s, u)
  BY <1>1, <1>2 DEF Extends
<1>4. \A q \in DOMAIN s : t[q].parent = s[q].parent
  BY DEF Extends
<1>5. Path(t, c) = Path(s, c)
  BY <1>1, <1>4, PathStays
<1>6. QED
  BY <1>2, <1>3, <1>5 DEF new

(* begin_scope for a function or a block, on top of scopes t that extend the *)
(* present ones: the walk is one call deeper.                                *)
LEMMA BeginKeeps ==
  ASSUME ScopesInv, phase = "walk",
         NEW t \in Seq(Scope), Tree(t), Extends(scopes, t), Len(t) = Len(scopes),
         Distinct(t, current_scope),
         NEW node \in TreeNode,
         BeginScope(t, node),
         NEW frame \in Frame, walk' = Append(walk, frame), frame.what # "unit",
         frame.what \in {"parameters", "function"} =>
           /\ Len(walk) = 1
           /\ frame.id \in Nat
           /\ ~errors' => \E l \in DOMAIN t[1].symbols :
                            /\ t[1].symbols[l].name = frame.name
                            /\ t[1].symbols[l].id = frame.id,
         ~errors' => ~errors, symbol' = symbol, phase' = phase,
         g_current_symbol_id' \in Nat
  PROVE  ScopesInv'
<1> DEFINE c == current_scope
           new == Len(t) + 1
<1>1. /\ Len(scopes) \in Nat /\ DOMAIN scopes = 1 .. Len(scopes) /\ DOMAIN t = DOMAIN scopes
      /\ Tree(scopes) /\ c \in DOMAIN scopes /\ 1 \in DOMAIN scopes
      /\ global_scope = 1 /\ NONE # 1
  BY NoneIsNoNumber DEF ScopesInv, TablesFormTree, Tree
<1>2. /\ scopes' = Grown(t, c, node) /\ current_scope' = new
      /\ global_scope' = 1
  BY <1>1 DEF BeginScope, Grown
<1>3. /\ scopes' \in Seq(Scope) /\ Tree(scopes') /\ Extends(scopes, scopes')
      /\ Len(scopes') = new /\ new \in DOMAIN scopes' /\ new \notin DOMAIN t
      /\ scopes'[new] = NewScope(c, node)
      /\ \A q \in DOMAIN t : scopes'[q] = t[q]
      /\ Len(Path(scopes', new)) = Len(Path(scopes, c)) + 1
      /\ Distinct(scopes', new)
  BY <1>1, <1>2, TableGrows
<1> HIDE DEF new
<1>5. TablesFormTree'
  <2>1. \A s \in DOMAIN scopes' : scopes'[s].parent = NONE <=> s = 1
    <3>1. ASSUME NEW s \in DOMAIN scopes' PROVE scopes'[s].parent = NONE <=> s = 1
      <4>1. CASE s = new
        <5>1. scopes'[s].parent = c /\ c # NONE /\ s # 1
          BY <1>1, <1>3, <4>1, NoneIsNoNumber DEF NewScope
        <5>2. QED
          BY <5>1
      <4>2. CASE s # new
        <5>1. s \in DOMAIN t
          BY <1>1, <1>3, <4>2 DEF Tree, new
        <5>2. scopes'[s].parent = scopes[s].parent
          BY <1>1, <1>3, <5>1 DEF Extends
        <5>3. QED
          BY <1>1, <5>1, <5>2 DEF ScopesInv, TablesFormTree
      <4>3. QED
        BY <4>1, <4>2
    <3>2. QED
      BY <3>1
  <2>2. QED
    BY <1>2, <1>3, <2>1 DEF TablesFormTree, ScopesInv
<1>6. /\ walk \in Seq(Frame) /\ Len(walk) \in Nat /\ Len(walk) = Len(Path(scopes, c))
      /\ walk' \in Seq(Frame) /\ Len(walk') = Len(walk) + 1
      /\ DOMAIN walk = 1 .. Len(walk) /\ DOMAIN walk' = 1 .. Len(walk) + 1
      /\ walk'[Len(walk) + 1] = frame
      /\ \A k \in DOMAIN walk : walk'[k] = walk[k]
  BY AppendProperties DEF ScopesInv, WalkMatchesPath
<1>7. Len(walk) >= 1
  <2>1. /\ Len(Path(scopes, scopes[c].parent)) \in Nat
        /\ Len(Path(scopes, c)) = Len(Path(scopes, scopes[c].parent)) + 1
    BY <1>1, PathEntries
  <2>2. QED
    BY <1>6, <2>1
<1>8. WalkMatchesPath'
  <2>1. Len(walk') = Len(Path(scopes', current_scope'))
    BY <1>2, <1>3, <1>6
  <2>2. \A k \in DOMAIN walk' : walk'[k].what = "unit" <=> k = 1
    BY <1>6, <1>7 DEF ScopesInv, WalkMatchesPath
  <2>3. QED
    BY <1>6, <2>1, <2>2 DEF WalkMatchesPath
<1>9. Extends(scopes, scopes')
  BY <1>3
<1>10. PointersTrue'
  BY <1>1, <1>9, ExtensionKeeps DEF ScopesInv
<1>11. FunctionDeclared'
  <2>1. ASSUME NEW k \in DOMAIN walk', walk'[k].what \in {"parameters", "function"}
        PROVE  /\ k = 2
               /\ walk'[k].id \in Nat
               /\ ~errors' => \E l \in DOMAIN scopes'[1].symbols :
                                /\ scopes'[1].symbols[l].name = walk'[k].name
                                /\ scopes'[1].symbols[l].id = walk'[k].id
    <3>1. CASE k = Len(walk) + 1
      <4>1. scopes'[1] = t[1]
        BY <1>1, <1>3
      <4>2. QED
        BY <1>6, <2>1, <3>1, <4>1
    <3>2. CASE k # Len(walk) + 1
      <4>1. k \in DOMAIN walk /\ walk'[k] = walk[k]
        BY <1>6, <3>2
      <4>2. /\ k = 2
            /\ walk[k].id \in Nat
            /\ ~errors' => \E l \in DOMAIN scopes[1].symbols :
                             /\ scopes[1].symbols[l].name = walk[k].name
                             /\ scopes[1].symbols[l].id = walk[k].id
        BY <2>1, <4>1 DEF ScopesInv, FunctionDeclared
      <4>3. QED
        BY <1>1, <1>9, <4>1, <4>2 DEF Extends
    <3>3. QED
      BY <3>1, <3>2
  <2>2. QED
    BY <2>1 DEF FunctionDeclared
<1>12. QED
  BY <1>2, <1>3, <1>5, <1>8, <1>10, <1>11 DEF ScopesInv

(* end_scope goes to the parent, which is nowhere but in the global scope    *)
(* not there.                                                                *)
LEMMA EndScopeLeaves ==
  ASSUME ScopesInv, phase = "walk", EndScope
  PROVE  /\ current_scope' \in DOMAIN scopes
         /\ Distinct(scopes, current_scope')
         /\ Len(Path(scopes, current_scope)) >= 2 =>
              Len(Path(scopes, current_scope')) = Len(Path(scopes, current_scope)) - 1
         /\ Len(Path(scopes, current_scope)) = 2 => current_scope' = 1
<1> DEFINE c == current_scope
           up == scopes[c].parent
<1>1. /\ Tree(scopes) /\ c \in DOMAIN scopes /\ global_scope = 1
      /\ Distinct(scopes, c)
      /\ \A s \in DOMAIN scopes : scopes[s].parent = NONE <=> s = 1
  BY DEF ScopesInv, TablesFormTree
<1>2. c' = IF up = NONE THEN 1 ELSE up
  BY <1>1 DEF EndScope
<1> HIDE DEF c
<1>3. /\ up \in DOMAIN scopes \cup {NONE} /\ Path(scopes, NONE) = <<>>
      /\ OnPath(scopes, c) = {c} \cup OnPath(scopes, up)
      /\ Len(Path(scopes, up)) \in Nat
      /\ Len(Path(scopes, c)) = Len(Path(scopes, up)) + 1
  BY <1>1, PathFromScope, OnPathOfScope, PathEntries
<1>4. CASE up = NONE
  <2>1. Len(Path(scopes, c)) = 1
    BY <1>3, <1>4
  <2>2. c = 1 /\ c' = c
    BY <1>1, <1>2, <1>4
  <2>3. QED
    BY <1>1, <2>1, <2>2 DEF c
<1>5. CASE up # NONE
  <2>1. c' = up /\ up \in DOMAIN scopes
    BY <1>2, <1>3, <1>5
  <2> HIDE DEF up
  <2>2. Distinct(scopes, up)
    <3>1. OnPath(scopes, up) \subseteq OnPath(scopes, c) /\ Distinct(scopes, c)
      BY <1>1, <1>3
    <3>2. QED
      BY <3>1 DEF Distinct
  <2>3. ASSUME Len(Path(scopes, c)) = 2 PROVE up = 1
    <3>1. /\ Len(Path(scopes, scopes[up].parent)) \in Nat
          /\ Len(Path(scopes, up)) = Len(Path(scopes, scopes[up].parent)) + 1
          /\ scopes[up].parent \in DOMAIN scopes \cup {NONE}
      BY <1>1, <2>1, PathEntries, PathFromScope
    <3>2. Len(Path(scopes, scopes[up].parent)) = 0
      BY <1>3, <2>3, <3>1
    <3>3. ASSUME scopes[up].parent # NONE PROVE FALSE
      <4>1. scopes[up].parent \in DOMAIN scopes
        BY <3>1, <3>3
      <4>2. /\ Len(Path(scopes, scopes[scopes[up].parent].parent)) \in Nat
            /\ Len(Path(scopes, scopes[up].parent)) =
                 Len(Path(scopes, scopes[scopes[up].parent].parent)) + 1
        BY <1>1, <4>1, PathEntries
      <4>3. QED
        BY <3>2, <4>2
    <3>4. QED
      BY <1>1, <2>1, <3>3
  <2>4. QED
    BY <1>3, <2>1, <2>2, <2>3 DEF c
<1>6. QED
  BY <1>4, <1>5

(* A call that opened a scope other than the unit returns. *)
LEMMA LeaveKeeps ==
  ASSUME ScopesInv, phase = "walk", EndScope, Leave, Len(walk) >= 2,
         phase' = phase, errors' = errors, g_current_symbol_id' = g_current_symbol_id,
         PointersTrue'
  PROVE  ScopesInv'
<1>1. /\ scopes' = scopes /\ global_scope' = global_scope
      /\ walk' = SubSeq(walk, 1, Len(walk) - 1)
  BY DEF EndScope, Leave
<1>2. /\ walk \in Seq(Frame) /\ Len(walk) \in Nat
      /\ Len(walk) = Len(Path(scopes, current_scope))
  BY DEF ScopesInv, WalkMatchesPath
<1>3. /\ walk' \in Seq(Frame) /\ Len(walk') = Len(walk) - 1
      /\ DOMAIN walk = 1 .. Len(walk) /\ DOMAIN walk' = 1 .. Len(walk) - 1
      /\ \A k \in DOMAIN walk' : walk'[k] = walk[k]
  BY <1>1, <1>2
<1>4. /\ current_scope' \in DOMAIN scopes
      /\ Distinct(scopes, current_scope')
      /\ Len(Path(scopes, current_scope')) = Len(walk) - 1
  BY <1>2, EndScopeLeaves
<1>5. TablesFormTree'
  BY <1>1, <1>4 DEF ScopesInv, TablesFormTree
<1>6. WalkMatchesPath'
  BY <1>1, <1>2, <1>3, <1>4 DEF ScopesInv, WalkMatchesPath
<1>7. FunctionDeclared'
  BY <1>1, <1>2, <1>3 DEF ScopesInv, FunctionDeclared
<1>8. QED
  BY <1>1, <1>4, <1>5, <1>6, <1>7 DEF ScopesInv

(* When a function is left, its name, looked up anew, is still its own.      *)
LEMMA EndFunctionKeeps ==
  ASSUME ScopesInv, EndFunction
  PROVE  ScopesInv'
<1> DEFINE n == Len(walk)
           f == walk[n]
<1>1. /\ phase = "walk" /\ walk # <<>> /\ f.what = "function" /\ EndScope /\ Leave
      /\ UNCHANGED <<g_current_symbol_id, identifier, errors, phase>>
      /\ symbol' = [d \in DOMAIN symbol \cup {f.id} |->
                      IF d = f.id THEN Resolve(f.name, current_scope', scopes')
                      ELSE symbol[d]]
  BY DEF EndFunction, Walking, Innermost, Bind
<1>2. /\ walk \in Seq(Frame) /\ n \in Nat /\ n \in DOMAIN walk
      /\ n = Len(Path(scopes, current_scope))
  BY <1>1 DEF ScopesInv, WalkMatchesPath
<1>3. /\ n = 2 /\ f.id \in Nat
      /\ ~errors => \E l \in DOMAIN scopes[1].symbols :
                      /\ scopes[1].symbols[l].name = f.name
                      /\ scopes[1].symbols[l].id = f.id
  BY <1>1, <1>2 DEF ScopesInv, FunctionDeclared
<1> HIDE DEF f, n
<1>4. /\ current_scope' = 1 /\ 1 \in DOMAIN scopes /\ Distinct(scopes, 1)
      /\ scopes' = scopes /\ scopes \in Seq(Scope) /\ Tree(scopes)
  BY <1>1, <1>2, <1>3, EndScopeLeaves DEF EndScope, ScopesInv, TablesFormTree
<1>5. PointersTrue'
  <2>1. SUFFICES ASSUME ~errors', NEW d \in DOMAIN symbol'
                 PROVE  /\ symbol'[d] # NONE
                        /\ symbol'[d].scope \in DOMAIN scopes
                        /\ symbol'[d].index \in DOMAIN scopes[symbol'[d].scope].symbols
                        /\ scopes[symbol'[d].scope].symbols[symbol'[d].index].id = d
    BY <1>4 DEF PointersTrue
  <2>2. CASE d = f.id
    <3>1. PICK l \in DOMAIN scopes[1].symbols :
            /\ scopes[1].symbols[l].name = f.name
            /\ scopes[1].symbols[l].id = f.id
      BY <1>1, <1>3, <2>1
    <3>2. 1 \in OnPath(scopes, 1)
      BY <1>4, OnPathOfScope
    <3>3. /\ Resolve(f.name, 1, scopes) # NONE
          /\ Resolve(f.name, 1, scopes).scope = 1 /\ Resolve(f.name, 1, scopes).index = l
      BY <1>4, <3>1, <3>2, ResolveUnique
    <3>4. symbol'[d] = Resolve(f.name, 1, scopes)
      BY <1>1, <1>4, <2>2
    <3>5. QED
      BY <1>4, <2>2, <3>1, <3>3, <3>4
  <2>3. CASE d # f.id
    <3>1. d \in DOMAIN symbol /\ symbol'[d] = symbol[d]
      BY <1>1, <2>3
    <3>2. QED
      BY <1>1, <2>1, <3>1 DEF ScopesInv, PointersTrue
  <2>4. QED
    BY <2>2, <2>3
<1>6. QED
  BY <1>1, <1>3, <1>5, LeaveKeeps DEF n

(* A function is declared in the global scope before its own is opened. *)
LEMMA BeginFunctionKeeps ==
  ASSUME ScopesInv, NEW name \in Names, BeginFunction(name)
  PROVE  ScopesInv'
<1> DEFINE c == current_scope
           g == g_current_symbol_id
           known == Resolve(name, c, scopes) # NONE
           sym == [name |-> name, kind |-> "function", id |-> g]
           node == Node("function", g)
           frame == [what |-> "parameters", id |-> g, name |-> name]
<1>1. /\ phase = "walk" /\ walk # <<>> /\ walk[Len(walk)].what = "unit"
      /\ g' = g + 1 /\ phase' = phase /\ symbol' = symbol
      /\ errors' = (errors \/ known) /\ walk' = Append(walk, frame)
  BY DEF BeginFunction, Walking, Innermost, NewId, nodes
<1>2. IF known THEN BeginScope(scopes, node)
      ELSE \E s \in Pushed(scopes[c], sym) : BeginScope([scopes EXCEPT ![c] = s], node)
  BY DEF BeginFunction
<1>3. /\ walk \in Seq(Frame) /\ Len(walk) = Len(Path(scopes, c)) /\ Len(walk) = 1
  <2>1. /\ walk \in Seq(Frame) /\ Len(walk) = Len(Path(scopes, c))
        /\ \A k \in DOMAIN walk : walk[k].what = "unit" <=> k = 1
    BY <1>1 DEF ScopesInv, WalkMatchesPath
  <2>2. Len(walk) \in DOMAIN walk
    BY <1>1, <2>1
  <2>3. QED
    BY <1>1, <2>1, <2>2
<1>4. /\ scopes \in Seq(Scope) /\ Tree(scopes) /\ c \in DOMAIN scopes /\ g \in Nat
      /\ Distinct(scopes, c)
      /\ \A s \in DOMAIN scopes : scopes[s].parent = NONE <=> s = 1
  BY <1>1 DEF ScopesInv, TablesFormTree
<1>5. c = 1
  <2>1. /\ scopes[c].parent \in DOMAIN scopes \cup {NONE}
        /\ Len(Path(scopes, scopes[c].parent)) \in Nat
        /\ Len(Path(scopes, c)) = Len(Path(scopes, scopes[c].parent)) + 1
    BY <1>4, PathFromScope, PathEntries
  <2>2. ASSUME scopes[c].parent # NONE PROVE FALSE
    <3> DEFINE up == scopes[c].parent
    <3> HIDE DEF up, c
    <3>4. Len(Path(scopes, up)) \in Nat /\ Len(Path(scopes, up)) + 1 = 1
      BY <1>3, <2>1 DEF up
    <3>0. Len(Path(scopes, up)) = 0
      BY <3>4
    <3>1. up \in DOMAIN scopes
      BY <2>1, <2>2 DEF up
    <3>2. /\ Len(Path(scopes, scopes[up].parent)) \in Nat
          /\ Len(Path(scopes, up)) = Len(Path(scopes, scopes[up].parent)) + 1
      BY <1>4, <3>1, PathEntries
    <3>3. QED
      BY <3>0, <3>2
  <2>3. QED
    BY <1>4, <2>2
<1>6. node \in TreeNode /\ frame \in Frame /\ sym \in Symbol /\ g' \in Nat
  BY <1>1, <1>4 DEF Node, TreeNode, Frame, Symbol
<1>7. frame.what = "parameters" /\ frame.id = g /\ frame.name = name /\ sym.id = g /\ sym.name = name
  OBVIOUS
<1>8. CASE known
  <2>1. Extends(scopes, scopes)
    BY DEF Extends
  <2>2. BeginScope(scopes, node) /\ errors'
    BY <1>1, <1>2, <1>8
  <2> HIDE DEF c, g, known, sym, node, frame
  <2>3. QED
    BY <1>1, <1>3, <1>4, <1>6, <1>7, <2>1, <2>2, BeginKeeps DEF c, g
<1>9. CASE ~known
  <2>1. PICK r \in Pushed(scopes[c], sym) : BeginScope([scopes EXCEPT ![c] = r], node)
    BY <1>2, <1>9
  <2> DEFINE t == Replaced(scopes, c, r)
             n == Len(scopes[c].symbols) + 1
  <2>2. BeginScope(t, node)
    BY <2>1 DEF Replaced
  <2>3. Resolve(sym.name, c, scopes) = NONE
    BY <1>9
  <2> HIDE DEF c, g, known, sym, node, frame, t
  <2>4. /\ t \in Seq(Scope) /\ Tree(t) /\ Extends(scopes, t) /\ Len(t) = Len(scopes)
        /\ Distinct(t, c) /\ n \in DOMAIN t[c].symbols /\ t[c].symbols[n] = sym
    BY <1>4, <1>6, <2>3, InsertFinds DEF t
  <2>5. \E l \in DOMAIN t[1].symbols :
          t[1].symbols[l].name = frame.name /\ t[1].symbols[l].id = frame.id
    BY <1>5, <1>7, <2>4
  <2>6. QED
    BY <1>1, <1>3, <1>4, <1>6, <1>7, <1>9, <2>2, <2>4, <2>5, BeginKeeps DEF c, g
<1>10. QED
  BY <1>8, <1>9

(* A block is opened. *)
LEMMA BeginBlockKeeps ==
  ASSUME ScopesInv, BeginBlock
  PROVE  ScopesInv'
<1> DEFINE node == Node("statement", NONE)
           frame == [what |-> "statement", id |-> NONE, name |-> NONE]
<1>1. /\ phase = "walk" /\ BeginScope(scopes, node) /\ walk' = Append(walk, frame)
      /\ UNCHANGED <<g_current_symbol_id, symbol, errors, phase>>
  BY DEF BeginBlock, InStatements, Walking, nodes
<1>2. node \in TreeNode /\ frame \in Frame /\ frame.what = "statement"
  BY DEF Node, TreeNode, Frame
<1> HIDE DEF node, frame
<1>3. /\ scopes \in Seq(Scope) /\ Tree(scopes) /\ Extends(scopes, scopes)
      /\ Distinct(scopes, current_scope) /\ g_current_symbol_id' \in Nat
  BY <1>1 DEF ScopesInv, TablesFormTree, Extends
<1>4. QED
  BY <1>1, <1>2, <1>3, BeginKeeps

(* The body of a function shares the scope of the parameters. *)
LEMMA BeginBodyKeeps ==
  ASSUME ScopesInv, BeginBody
  PROVE  ScopesInv'
<1> DEFINE n == Len(walk)
<1>1. /\ walk # <<>> /\ walk[n].what = "parameters" /\ phase = "walk"
      /\ walk' = [walk EXCEPT ![n].what = "function"]
      /\ UNCHANGED <<scopes, global_scope, current_scope, g_current_symbol_id,
                     symbol, errors, phase>>
  BY DEF BeginBody, Walking, Innermost, table, nodes
<1>2. walk \in Seq(Frame) /\ n \in Nat /\ n \in DOMAIN walk /\ DOMAIN walk = 1 .. n
  BY <1>1 DEF ScopesInv, WalkMatchesPath
<1>3. walk[n] \in Frame
  BY <1>2
<1> HIDE DEF n
<1>4. /\ walk' \in Seq(Frame) /\ Len(walk') = Len(walk) /\ DOMAIN walk' = DOMAIN walk
      /\ \A k \in DOMAIN walk \ {n} : walk'[k] = walk[k]
      /\ walk'[n].what = "function" /\ walk'[n].id = walk[n].id
      /\ walk'[n].name = walk[n].name
  <2> DEFINE f == [walk[n] EXCEPT !.what = "function"]
  <2>1. f \in Frame /\ f.what = "function" /\ f.id = walk[n].id /\ f.name = walk[n].name
    BY <1>3 DEF Frame
  <2>2. walk' = [walk EXCEPT ![n] = f]
    BY <1>1
  <2> HIDE DEF f
  <2>3. QED
    BY <1>2, <2>1, <2>2
<1>5. TablesFormTree' /\ PointersTrue' /\ Distinct(scopes, current_scope)'
  BY <1>1 DEF ScopesInv, TablesFormTree, PointersTrue
<1>6. WalkMatchesPath'
  <2>1. \A k \in DOMAIN walk : walk'[k].what = "unit" <=> k = 1
    BY <1>1, <1>2, <1>4 DEF ScopesInv, WalkMatchesPath
  <2>2. QED
    BY <1>1, <1>4, <2>1 DEF ScopesInv, WalkMatchesPath
<1>7. FunctionDeclared'
  <2>1. ASSUME NEW k \in DOMAIN walk, walk'[k].what \in {"parameters", "function"}
        PROVE  walk[k].what \in {"parameters", "function"}
               /\ walk'[k].id = walk[k].id /\ walk'[k].name = walk[k].name
    BY <1>1, <1>4, <2>1
  <2>2. QED
    BY <1>1, <1>4, <2>1 DEF ScopesInv, FunctionDeclared
<1>8. QED
  BY <1>5, <1>6, <1>7 DEF ScopesInv

(* A file begins without a scope. *)
LEMMA NoScopes ==
  Tree(<<>>) /\ Distinct(<<>>, NONE) /\ <<>> \in Seq(Scope) /\ DOMAIN <<>> = {}
<1>1. Tree(<<>>) /\ <<>> \in Seq(Scope) /\ DOMAIN <<>> = {}
  BY EmptySeq DEF Tree
<1>2. OnPath(<<>>, NONE) = {}
  BY <1>1, OnPathOfScope
<1>3. QED
  BY <1>1, <1>2 DEF Distinct

(* The end of the unit. *)
LEMMA FinishKeeps ==
  ASSUME ScopesInv, FinishUnit
  PROVE  ScopesInv'
<1>1. /\ phase = "walk" /\ walk # <<>> /\ walk[Len(walk)].what = "unit"
      /\ EndScope /\ walk' = SubSeq(walk, 1, Len(walk) - 1) /\ phase' = "walked"
      /\ scopes' = scopes /\ global_scope' = global_scope
      /\ UNCHANGED <<g_current_symbol_id, symbol, errors>>
  BY DEF FinishUnit, Walking, Innermost, EndScope, Leave, nodes
<1>2. walk \in Seq(Frame) /\ Len(walk) = 1
  <2>1. walk \in Seq(Frame) /\ \A k \in DOMAIN walk : walk[k].what = "unit" <=> k = 1
    BY DEF ScopesInv, WalkMatchesPath
  <2>2. Len(walk) \in DOMAIN walk
    BY <1>1, <2>1
  <2>3. QED
    BY <1>1, <2>1, <2>2
<1>3. walk' = <<>>
  BY <1>1, <1>2
<1>4. current_scope' \in DOMAIN scopes /\ Distinct(scopes, current_scope')
  BY <1>1, EndScopeLeaves
<1>5. TablesFormTree'
  BY <1>1, <1>4 DEF ScopesInv, TablesFormTree
<1>6. WalkMatchesPath' /\ FunctionDeclared'
  <2>1. walk' \in Seq(Frame) /\ DOMAIN walk' = {} /\ phase' = "walked"
    BY <1>1, <1>3, NoScopes, EmptySeq
  <2>2. WalkMatchesPath'
    BY <1>3, <2>1 DEF WalkMatchesPath
  <2>3. FunctionDeclared'
    BY <2>1 DEF FunctionDeclared
  <2>4. QED
    BY <2>2, <2>3
<1>7. PointersTrue'
  BY <1>1 DEF ScopesInv, PointersTrue
<1>8. QED
  BY <1>1, <1>4, <1>5, <1>6, <1>7 DEF ScopesInv

(* Before the first file. *)
LEMMA ScopesInvInit == Init => ScopesInv
<1> SUFFICES ASSUME Init PROVE ScopesInv
  OBVIOUS
<1>1. TablesFormTree
  BY NoScopes DEF Init, TablesFormTree
<1>2. WalkMatchesPath /\ FunctionDeclared /\ PointersTrue
  BY NoScopes, EmptySeq DEF Init, WalkMatchesPath, FunctionDeclared, PointersTrue
<1>3. Distinct(scopes, current_scope)
  BY NoScopes DEF Init
<1>4. QED
  BY <1>1, <1>2, <1>3 DEF ScopesInv

(* Every step of the walk. *)
LEMMA ScopesInvNext ==
  ASSUME ScopesInv, [Next]_vars
  PROVE  ScopesInv'
<1>1. CASE CreateScopes
  BY <1>1, CreateKeeps
<1>2. ASSUME NEW name \in Names, NEW kind \in {"variable", "function"},
             NEW constant \in BOOLEAN, ProcessDeclaration(name, kind, constant)
      PROVE  ScopesInv'
  <2>1. CASE constant
    BY <1>2, <2>1, InsertKeeps DEF ProcessDeclaration, InStatements, Walking
  <2>2. CASE ~constant
    <3>1. /\ errors' = TRUE
          /\ UNCHANGED <<scopes, symbol, global_scope, current_scope, walk, phase>>
          /\ g_current_symbol_id' = g_current_symbol_id + 1
      BY <1>2, <2>2 DEF ProcessDeclaration, NewId
    <3>2. TablesFormTree' /\ WalkMatchesPath' /\ Distinct(scopes, current_scope)'
      BY <3>1 DEF ScopesInv, TablesFormTree, WalkMatchesPath
    <3>3. FunctionDeclared' /\ PointersTrue'
      BY <3>1 DEF ScopesInv, FunctionDeclared, PointersTrue
    <3>4. QED
      BY <3>2, <3>3 DEF ScopesInv
  <2>3. QED
    BY <2>1, <2>2
<1>3. ASSUME NEW name \in Names, BeginFunction(name)
      PROVE  ScopesInv'
  BY <1>3, BeginFunctionKeeps
<1>4. ASSUME NEW name \in Names, ProcessParameter(name)
      PROVE  ScopesInv'
  BY <1>4, InsertKeeps DEF ProcessParameter, Walking
<1>5. ASSUME NEW name \in Names, CheckIdentifier(name)
      PROVE  ScopesInv'
  <2>1. UNCHANGED <<scopes, global_scope, current_scope, g_current_symbol_id, walk,
                    symbol, errors, phase>>
    BY <1>5 DEF CheckIdentifier, table
  <2>2. QED
    BY <2>1 DEF ScopesInv, TablesFormTree, WalkMatchesPath, FunctionDeclared, PointersTrue
<1>6. CASE BeginBody
  BY <1>6, BeginBodyKeeps
<1>7. CASE EndFunction
  BY <1>7, EndFunctionKeeps
<1>8. CASE BeginBlock
  BY <1>8, BeginBlockKeeps
<1>9. CASE EndBlock
  <2>1. /\ phase = "walk" /\ EndScope /\ Leave /\ walk # <<>>
        /\ walk[Len(walk)].what = "statement" /\ scopes' = scopes
        /\ UNCHANGED <<g_current_symbol_id, symbol, errors, phase>>
    BY <1>9 DEF EndBlock, Walking, Innermost, EndScope, nodes
  <2>2. Len(walk) >= 2
    <3>1. walk \in Seq(Frame) /\ \A k \in DOMAIN walk : walk[k].what = "unit" <=> k = 1
      BY DEF ScopesInv, WalkMatchesPath
    <3>2. Len(walk) \in DOMAIN walk
      BY <2>1, <3>1
    <3>3. QED
      BY <2>1, <3>1, <3>2
  <2>3. PointersTrue'
    BY <2>1 DEF ScopesInv, PointersTrue
  <2>4. QED
    BY <2>1, <2>2, <2>3, LeaveKeeps
<1>10. ASSUME NEW value \in {"fine", "mismatch", "untyped"}, ReturnStatement(value)
       PROVE  ScopesInv'
  <2>1. /\ UNCHANGED <<scopes, global_scope, current_scope, g_current_symbol_id, walk, symbol>>
        /\ phase = "walk" /\ phase' \in {"walk", "aborted"}
        /\ (~errors' => ~errors)
    BY <1>10 DEF ReturnStatement, table, nodes, InStatements, Walking
  <2>2. TablesFormTree' /\ WalkMatchesPath' /\ Distinct(scopes, current_scope)'
    BY <2>1 DEF ScopesInv, TablesFormTree, WalkMatchesPath
  <2>3. FunctionDeclared' /\ PointersTrue'
    BY <2>1 DEF ScopesInv, FunctionDeclared, PointersTrue
  <2>4. QED
    BY <2>2, <2>3 DEF ScopesInv
<1>11. CASE FinishUnit
  BY <1>11, FinishKeeps
<1>12. CASE NextFile
  <2>1. /\ phase = "walked" /\ scopes' = <<>> /\ global_scope' = NONE
        /\ current_scope' = NONE /\ symbol' = <<>> /\ phase' = "start"
        /\ UNCHANGED <<g_current_symbol_id, walk>>
    BY <1>12 DEF NextFile
  <2>2. walk = <<>> /\ g_current_symbol_id \in Nat
    BY <2>1 DEF ScopesInv, WalkMatchesPath, TablesFormTree
  <2>3. TablesFormTree'
    BY <2>1, <2>2, NoScopes DEF TablesFormTree
  <2>4. WalkMatchesPath' /\ FunctionDeclared' /\ PointersTrue'
    BY <2>1, <2>2, NoScopes, EmptySeq DEF WalkMatchesPath, FunctionDeclared, PointersTrue
  <2>5. QED
    BY <2>1, <2>3, <2>4, NoScopes DEF ScopesInv
<1>13. CASE UNCHANGED vars
  <2>1. UNCHANGED <<scopes, global_scope, current_scope, g_current_symbol_id, walk,
                    symbol, errors, phase>>
    BY <1>13 DEF vars, table, nodes
  <2>2. QED
    BY <2>1 DEF ScopesInv, TablesFormTree, WalkMatchesPath, FunctionDeclared, PointersTrue
<1>14. QED
  BY <1>1, <1>2, <1>3, <1>4, <1>5, <1>6, <1>7, <1>8, <1>9, <1>10, <1>11, <1>12, <1>13
     DEF Next

(* The invariant of the symbol tables and of the walk that builds them. *)
THEOREM ScopesInvariant == Spec => []ScopesInv
<1>1. Init => ScopesInv
  BY ScopesInvInit
<1>2. ScopesInv /\ [Next]_vars => ScopesInv'
  BY ScopesInvNext
<1>3. QED
  BY <1>1, <1>2, PTL DEF Spec

(* In every program no name is declared twice among the scopes that are open *)
(* at one time: symbol_insert looks through all of them, and closing a scope *)
(* leaves fewer.                                                             *)
THEOREM ScopesNoShadowing == Spec => []NoShadowing
<1>1. ScopesInv => NoShadowing
  BY DEF ScopesInv, Distinct, OnPath, NoShadowing
<1>2. QED
  BY <1>1, ScopesInvariant, PTL

(* In every program without errors a declaration node ends up with its own   *)
(* symbol, though it is looked up by name, and for a function after all that *)
(* its parameters and its body declare.                                      *)
THEOREM ScopesOwnSymbols == Spec => []OwnSymbols
<1>1. ScopesInv => OwnSymbols
  BY DEF ScopesInv, PointersTrue, OwnSymbols, At
<1>2. QED
  BY <1>1, ScopesInvariant, PTL

-----------------------------------------------------------------------------
(* What the scopes of t declare, as the blocks of Environment: the symbols   *)
(* of one scope by their names, and the scopes on the way outwards from c,   *)
(* the outermost first.                                                      *)
Entries(syms) ==
  [n \in {syms[l].name : l \in DOMAIN syms} |->
     syms[CHOOSE l \in DOMAIN syms : syms[l].name = n].id]

BlocksOf(t, c) ==
  [k \in 1 .. Len(Path(t, c)) |-> Entries(t[Path(t, c)[Len(Path(t, c)) + 1 - k]].symbols)]

(* Enclosing scopes are older. *)
LEMMA OnPathOlder ==
  ASSUME NEW t, Tree(t), NEW s \in DOMAIN t
  PROVE  s \notin OnPath(t, t[s].parent)
<1> DEFINE Bad == {r \in DOMAIN t : \E q \in OnPath(t, r) : ~(q <= r)}
<1>1. /\ DOMAIN t = 1 .. Len(t) /\ Len(t) \in Nat /\ NONE \notin DOMAIN t
      /\ \A r \in DOMAIN t : t[r].parent \in (1 .. r - 1) \cup {NONE}
  BY NoneIsNoNumber DEF Tree
<1>2. Bad = {}
  <2>1. SUFFICES ASSUME Bad # {} PROVE FALSE
    OBVIOUS
  <2>2. Bad \subseteq Nat
    BY <1>1
  <2>3. PICK r \in Bad : \A l \in Bad : r <= l
    <3> HIDE DEF Bad
    <3>1. QED
      BY <2>1, <2>2, LeastNumber
  <2>4. r \in DOMAIN t
    OBVIOUS
  <2>5. PICK q \in OnPath(t, r) : ~(q <= r)
    OBVIOUS
  <2>6. q \in OnPath(t, t[r].parent)
    <3>1. OnPath(t, r) = {r} \cup OnPath(t, t[r].parent)
      BY <2>4, OnPathOfScope
    <3>2. q # r
      BY <1>1, <2>4, <2>5
    <3>3. QED
      BY <2>5, <3>1, <3>2
  <2>7. t[r].parent # NONE
    BY <2>6, OnPathOfScope
  <2>8. t[r].parent \in DOMAIN t /\ t[r].parent < r
    BY <1>1, <2>4, <2>7
  <2>9. t[r].parent \notin Bad
    BY <1>1, <2>2, <2>3, <2>4, <2>8
  <2>10. OnPath(t, t[r].parent) \subseteq DOMAIN t
    BY <2>8, OnPathOfScope
  <2>11. q <= t[r].parent
    BY <2>6, <2>8, <2>9
  <2>12. QED
    BY <1>1, <2>4, <2>5, <2>6, <2>8, <2>10, <2>11
<1>3. CASE t[s].parent = NONE
  BY <1>3, OnPathOfScope
<1>4. CASE t[s].parent # NONE
  <2>1. t[s].parent \in DOMAIN t /\ t[s].parent < s
    BY <1>1, <1>4
  <2>2. \A q \in OnPath(t, t[s].parent) : q <= t[s].parent
    BY <1>2, <2>1
  <2>3. QED
    BY <1>1, <2>1, <2>2
<1>5. QED
  BY <1>3, <1>4

(* The blocks of a scope are those of its parent and, innermost, its own. *)
LEMMA BlocksOfScope ==
  ASSUME NEW t, Tree(t), NEW c \in DOMAIN t
  PROVE  LET b == BlocksOf(t, c)
             up == BlocksOf(t, t[c].parent)
         IN  /\ Len(b) = Len(Path(t, c)) /\ Len(b) \in Nat \ {0}
             /\ DOMAIN b = 1 .. Len(b) /\ DOMAIN up = 1 .. Len(b) - 1
             /\ b[Len(b)] = Entries(t[c].symbols)
             /\ \A k \in 1 .. Len(b) - 1 : b[k] = up[k]
<1> DEFINE p == Path(t, c)
           r == Path(t, t[c].parent)
           n == Len(r)
           b == BlocksOf(t, c)
           up == BlocksOf(t, t[c].parent)
<1>1. /\ n \in Nat /\ Len(p) = n + 1 /\ p[1] = c
      /\ \A d \in 1 .. n : p[d + 1] = r[d]
  BY PathEntries
<1>2. /\ b = [k \in 1 .. Len(p) |-> Entries(t[p[Len(p) + 1 - k]].symbols)]
      /\ up = [k \in 1 .. n |-> Entries(t[r[n + 1 - k]].symbols)]
  BY DEF BlocksOf
<1> HIDE DEF p, r, n, b, up
<1>3. /\ DOMAIN b = 1 .. n + 1 /\ DOMAIN up = 1 .. n /\ Len(b) = n + 1
  BY <1>1, <1>2
<1>4. b[n + 1] = Entries(t[c].symbols)
  <2>1. (n + 1) + 1 - (n + 1) = 1 /\ n + 1 \in 1 .. n + 1
    BY <1>1
  <2>2. b[n + 1] = Entries(t[p[(n + 1) + 1 - (n + 1)]].symbols)
    BY <1>1, <1>2, <2>1
  <2>3. QED
    BY <1>1, <2>1, <2>2
<1>5. ASSUME NEW k \in 1 .. n PROVE b[k] = up[k]
  <2>1. (n + 1) + 1 - k = (n + 1 - k) + 1 /\ n + 1 - k \in 1 .. n /\ k \in 1 .. n + 1
    BY <1>1
  <2>2. p[(n + 1) + 1 - k] = r[n + 1 - k]
    BY <1>1, <2>1
  <2>3. b[k] = Entries(t[p[(n + 1) + 1 - k]].symbols)
    BY <1>1, <1>2, <2>1
  <2>4. up[k] = Entries(t[r[n + 1 - k]].symbols)
    BY <1>2
  <2>5. QED
    BY <2>2, <2>3, <2>4
<1>6. QED
  BY <1>1, <1>3, <1>4, <1>5 DEF p, r, n, b, up
(* A sequence is its entries but the last, and the last. *)
LEMMA FrontAndLast ==
  ASSUME NEW n \in Nat \ {0}, NEW b, NEW up, b = [k \in 1 .. n |-> b[k]],
         up = [k \in 1 .. n - 1 |-> up[k]], \A k \in 1 .. n - 1 : b[k] = up[k]
  PROVE SubSeq(b, 1, n - 1) = up /\ b = Append(up, b[n])
<1> DEFINE S == {b[k] : k \in 1 .. n}
<1>0. n - 1 \in Nat /\ b[n] \in S
  OBVIOUS
<1>1. b \in [1 .. n -> S] /\ up \in [1 .. n - 1 -> S]
  <2>1. \A k \in 1 .. n : b[k] \in S
    OBVIOUS
  <2>2. \A k \in 1 .. n - 1 : up[k] \in S
    <3>1. \A k \in 1 .. n - 1 : k \in 1 .. n
      OBVIOUS
    <3>2. QED
      BY <2>1, <3>1
  <2> HIDE DEF S
  <2>3. QED
    BY <2>1, <2>2
<1> HIDE DEF S
<1>2. b \in Seq(S) /\ up \in Seq(S)
  BY <1>0, <1>1, IsASeq
<1>3. Len(b) = n /\ Len(up) = n - 1 /\ DOMAIN b = 1 .. n /\ DOMAIN up = 1 .. n - 1
  BY <1>0, <1>1, <1>2
<1>4. /\ SubSeq(b, 1, n - 1) \in Seq(S) /\ Len(SubSeq(b, 1, n - 1)) = n-1
      /\ \A k \in 1 .. n-1 : SubSeq(b, 1, n - 1)[k] = b[k]
  BY <1>0, <1>2, <1>3, SMTT(20)
<1>5. SubSeq(b, 1, n - 1) = up
  BY <1>2, <1>3, <1>4, SeqEqual
<1>6. /\ Append(up, b[n]) \in Seq(S) /\ Len(Append(up, b[n])) = n
      /\ Append(up, b[n])[n] = b[n]
      /\ \A k \in 1 .. n-1 : Append(up, b[n])[k] = up[k]
  BY <1>0, <1>2, <1>3, AppendProperties
<1>7. \A k \in 1 .. n : b[k] = Append(up, b[n])[k]
  <2>1. \A k \in 1 .. n : k = n \/ k \in 1 .. n - 1
    OBVIOUS
  <2>2. QED
    BY <1>6, <2>1
<1>8. b = Append(up, b[n])
  BY <1>2, <1>3, <1>6, <1>7, SeqEqual
<1>9. QED
  BY <1>5, <1>8

(* Hence leaving the scope is taking its block away. *)
LEMMA BlocksClose ==
  ASSUME NEW t, Tree(t), NEW c \in DOMAIN t
  PROVE  LET b == BlocksOf(t, c)
             up == BlocksOf(t, t[c].parent)
         IN  /\ Len(b) = Len(Path(t, c)) /\ Len(b) \in Nat \ {0} /\ DOMAIN b = 1 .. Len(b)
             /\ up = SubSeq(b, 1, Len(b) - 1)
             /\ b = Append(up, Entries(t[c].symbols))
<1> DEFINE b == BlocksOf(t, c)
           up == BlocksOf(t, t[c].parent)
<1>1. /\ Len(b) = Len(Path(t, c)) /\ Len(b) \in Nat \ {0} /\ DOMAIN b = 1 .. Len(b)
      /\ DOMAIN up = 1 .. Len(b) - 1
      /\ b[Len(b)] = Entries(t[c].symbols)
      /\ \A k \in 1 .. Len(b) - 1 : b[k] = up[k]
  BY BlocksOfScope
<1>2. b = [k \in DOMAIN b |-> b[k]] /\ up = [k \in DOMAIN up |-> up[k]]
  BY DEF BlocksOf
<1> HIDE DEF b, up
<1>3. up = SubSeq(b, 1, Len(b) - 1) /\ b = Append(up, b[Len(b)])
  <2> DEFINE n == Len(b)
  <2>1. /\ n \in Nat \ {0} /\ DOMAIN b = 1 .. n /\ DOMAIN up = 1 .. n - 1
        /\ \A k \in 1 .. n - 1 : b[k] = up[k]
    BY <1>1
  <2> HIDE DEF n
  <2>2. b = [k \in 1 .. n |-> b[k]]
    BY <1>2, <2>1
  <2>3. up = [k \in 1 .. n - 1 |-> up[k]]
    BY <1>2, <2>1
  <2>4. SubSeq(b, 1, n - 1) = up /\ b = Append(up, b[n])
    BY <2>1, <2>2, <2>3, FrontAndLast
  <2>5. QED
    BY <2>4 DEF n
<1>4. QED
  BY <1>1, <1>3 DEF b, up

(* The blocks are what the scopes on the way outwards declare. *)
LEMMA BlocksSame ==
  ASSUME NEW t, Tree(t), NEW u, Tree(u), DOMAIN t \subseteq DOMAIN u,
         \A s \in DOMAIN t : u[s].parent = t[s].parent,
         NEW c \in DOMAIN t \cup {NONE},
         \A q \in OnPath(t, c) : u[q].symbols = t[q].symbols
  PROVE  BlocksOf(u, c) = BlocksOf(t, c)
<1> DEFINE p == Path(t, c)
<1>1. Path(u, c) = p
  BY PathStays
<1>2. Len(p) \in Nat /\ DOMAIN p = 1 .. Len(p)
  BY PathFromScope
<1>3. \A d \in 1 .. Len(p) : u[p[d]].symbols = t[p[d]].symbols
  BY <1>2 DEF OnPath
<1>4. /\ BlocksOf(u, c) = [k \in 1 .. Len(p) |-> Entries(u[p[Len(p) + 1 - k]].symbols)]
      /\ BlocksOf(t, c) = [k \in 1 .. Len(p) |-> Entries(t[p[Len(p) + 1 - k]].symbols)]
  BY <1>1 DEF BlocksOf
<1> HIDE DEF p
<1>5. \A k \in 1 .. Len(p) : Len(p) + 1 - k \in 1 .. Len(p)
  BY <1>2
<1>6. \A k \in 1 .. Len(p) :
        u[p[Len(p) + 1 - k]].symbols = t[p[Len(p) + 1 - k]].symbols
  BY <1>3, <1>5
<1>7. QED
  BY <1>4, <1>6

-----------------------------------------------------------------------------
(* No two symbols of a scope have one name. *)
DistinctNames(syms) ==
  \A k, l \in DOMAIN syms : syms[k].name = syms[l].name => k = l

(* Then each symbol is what its name stands for. *)
LEMMA EntriesAre ==
  ASSUME NEW syms, DistinctNames(syms)
  PROVE  /\ DOMAIN Entries(syms) = {syms[l].name : l \in DOMAIN syms}
         /\ \A l \in DOMAIN syms : Entries(syms)[syms[l].name] = syms[l].id
<1>1. DOMAIN Entries(syms) = {syms[l].name : l \in DOMAIN syms}
  BY DEF Entries
<1>2. ASSUME NEW l \in DOMAIN syms
      PROVE  Entries(syms)[syms[l].name] = syms[l].id
  <2> DEFINE m == CHOOSE k \in DOMAIN syms : syms[k].name = syms[l].name
  <2>1. m \in DOMAIN syms /\ syms[m].name = syms[l].name
    OBVIOUS
  <2>2. Entries(syms)[syms[l].name] = syms[m].id
    BY DEF Entries
  <2> HIDE DEF m
  <2>3. QED
    BY <2>1, <2>2 DEF DistinctNames
<1>3. QED
  BY <1>1, <1>2

(* What a scope declares after one more symbol. *)
Added(entries, n, id) ==
  [m \in DOMAIN entries \cup {n} |-> IF m = n THEN id ELSE entries[m]]

(* The entries of a scope with one more symbol. *)
LEMMA EntriesAppend ==
  ASSUME NEW syms \in Seq(Symbol), DistinctNames(syms), NEW sym \in Symbol,
         \A l \in DOMAIN syms : syms[l].name # sym.name
  PROVE  Entries(Append(syms, sym)) = Added(Entries(syms), sym.name, sym.id)
<1> DEFINE more == Append(syms, sym)
           n == Len(syms)
<1>1. /\ n \in Nat /\ DOMAIN syms = 1 .. n /\ DOMAIN more = 1 .. n + 1
      /\ more[n + 1] = sym /\ \A l \in 1 .. n : more[l] = syms[l]
  BY AppendProperties
<1> HIDE DEF more, n
<1>2. \A l \in 1 .. n + 1 : l = n + 1 \/ l \in 1 .. n
  BY <1>1
<1>3. DistinctNames(more)
  BY <1>1, <1>2 DEF DistinctNames
<1>4. /\ DOMAIN Entries(more) = {more[l].name : l \in 1 .. n + 1}
      /\ \A l \in 1 .. n + 1 : Entries(more)[more[l].name] = more[l].id
      /\ DOMAIN Entries(syms) = {syms[l].name : l \in 1 .. n}
      /\ \A l \in 1 .. n : Entries(syms)[syms[l].name] = syms[l].id
  <2>1. /\ DOMAIN Entries(more) = {more[l].name : l \in DOMAIN more}
        /\ \A l \in DOMAIN more : Entries(more)[more[l].name] = more[l].id
    BY <1>3, EntriesAre
  <2>2. /\ DOMAIN Entries(syms) = {syms[l].name : l \in DOMAIN syms}
        /\ \A l \in DOMAIN syms : Entries(syms)[syms[l].name] = syms[l].id
    BY EntriesAre
  <2>3. QED
    BY <1>1, <2>1, <2>2
<1>5. DOMAIN Entries(more) = DOMAIN Entries(syms) \cup {sym.name}
  <2>1. n + 1 \in 1 .. n + 1 /\ \A l \in 1 .. n : l \in 1 .. n + 1
    BY <1>1
  <2>2. QED
    BY <1>1, <1>2, <1>4, <2>1
<1>6. ASSUME NEW m \in DOMAIN Entries(more)
      PROVE  Entries(more)[m] = IF m = sym.name THEN sym.id ELSE Entries(syms)[m]
  <2>1. PICK l \in 1 .. n + 1 : m = more[l].name
    BY <1>4
  <2>2. Entries(more)[m] = more[l].id
    BY <1>4, <2>1
  <2>3. CASE l = n + 1
    BY <1>1, <2>1, <2>2, <2>3
  <2>4. CASE l # n + 1
    <3>1. l \in 1 .. n /\ more[l] = syms[l] /\ m # sym.name
      BY <1>1, <1>2, <2>1, <2>4
    <3>2. QED
      BY <1>4, <2>1, <2>2, <3>1
  <2>5. QED
    BY <2>3, <2>4
<1>7. Entries(more) = [m \in DOMAIN Entries(more) |-> Entries(more)[m]]
  BY DEF Entries
<1>8. QED
  BY <1>5, <1>6, <1>7 DEF Added, more

(* No name is in a scope twice. *)
LEMMA DistinctInScope ==
  ASSUME NEW t, Tree(t), NEW c \in DOMAIN t, Distinct(t, c), NEW q \in OnPath(t, c)
  PROVE  DistinctNames(t[q].symbols)
BY DEF Distinct, DistinctNames

(* Each block is what one of the scopes on the way outwards declares, and    *)
(* each of them has its block.                                               *)
LEMMA BlocksAndScopes ==
  ASSUME NEW t, Tree(t), NEW c \in DOMAIN t
  PROVE  LET b == BlocksOf(t, c)
         IN  /\ \A k \in DOMAIN b : \E q \in OnPath(t, c) : b[k] = Entries(t[q].symbols)
             /\ \A q \in OnPath(t, c) : \E k \in DOMAIN b : b[k] = Entries(t[q].symbols)
<1> DEFINE p == Path(t, c)
           b == BlocksOf(t, c)
<1>1. Len(p) \in Nat /\ DOMAIN p = 1 .. Len(p)
  BY PathFromScope
<1>2. b = [k \in 1 .. Len(p) |-> Entries(t[p[Len(p) + 1 - k]].symbols)]
  BY DEF BlocksOf
<1>3. OnPath(t, c) = {p[d] : d \in DOMAIN p}
  BY DEF OnPath
<1> HIDE DEF p, b
<1>4. \A k \in 1 .. Len(p) : /\ Len(p) + 1 - k \in 1 .. Len(p)
                              /\ Len(p) + 1 - (Len(p) + 1 - k) = k
  BY <1>1
<1>5. ASSUME NEW k \in DOMAIN b
      PROVE  \E q \in OnPath(t, c) : b[k] = Entries(t[q].symbols)
  <2>1. k \in 1 .. Len(p) /\ b[k] = Entries(t[p[Len(p) + 1 - k]].symbols)
    BY <1>2
  <2>2. p[Len(p) + 1 - k] \in OnPath(t, c)
    BY <1>1, <1>3, <1>4, <2>1
  <2>3. QED
    BY <2>1, <2>2
<1>6. ASSUME NEW d \in DOMAIN p
      PROVE  \E k \in DOMAIN b : b[k] = Entries(t[p[d]].symbols)
  <2> DEFINE k == Len(p) + 1 - d
  <2>1. k \in DOMAIN b /\ Len(p) + 1 - k = d
    BY <1>1, <1>2, <1>4
  <2> HIDE DEF k
  <2>2. b[k] = Entries(t[p[Len(p) + 1 - k]].symbols)
    BY <1>2, <2>1
  <2>3. QED
    BY <2>1, <2>2
<1>7. QED
  BY <1>3, <1>5, <1>6 DEF b

(* resolve_symbol finds what the blocks hold. *)
LEMMA ResolveIsLookup ==
  ASSUME NEW t \in Seq(Scope), Tree(t), NEW c \in DOMAIN t, Distinct(t, c), NEW name
  PROVE  LET b == BlocksOf(t, c)
             p == Resolve(name, c, t)
         IN  /\ Structure!Visible(b, name) <=> p # NONE
             /\ Structure!IdOf(b, name) = IF p = NONE THEN NONE
                                          ELSE t[p.scope].symbols[p.index].id
<1> DEFINE b == BlocksOf(t, c)
           p == Resolve(name, c, t)
<1>1. IF \E s \in OnPath(t, c) : Holds(t, s, name)
      THEN /\ p # NONE /\ p.scope \in OnPath(t, c)
           /\ p.index \in DOMAIN t[p.scope].symbols
           /\ t[p.scope].symbols[p.index].name = name
      ELSE p = NONE
  BY ResolveFinds
<1>2. /\ \A k \in DOMAIN b : \E q \in OnPath(t, c) : b[k] = Entries(t[q].symbols)
      /\ \A q \in OnPath(t, c) : \E k \in DOMAIN b : b[k] = Entries(t[q].symbols)
  BY BlocksAndScopes
<1> HIDE DEF b, p
<1>3. ASSUME NEW q \in OnPath(t, c)
      PROVE  /\ DOMAIN Entries(t[q].symbols) = {t[q].symbols[l].name : l \in DOMAIN t[q].symbols}
             /\ \A l \in DOMAIN t[q].symbols :
                  Entries(t[q].symbols)[t[q].symbols[l].name] = t[q].symbols[l].id
  <2>1. DistinctNames(t[q].symbols)
    BY DistinctInScope
  <2>2. QED
    BY <2>1, EntriesAre
<1>4. ASSUME NEW k \in DOMAIN b, name \in DOMAIN b[k]
      PROVE  p # NONE /\ b[k][name] = t[p.scope].symbols[p.index].id
  <2>1. PICK q \in OnPath(t, c) : b[k] = Entries(t[q].symbols)
    BY <1>2
  <2>2. PICK l \in DOMAIN t[q].symbols : t[q].symbols[l].name = name
    BY <1>3, <1>4, <2>1
  <2>3. Holds(t, q, name)
    BY <2>2 DEF Holds
  <2>4. p # NONE /\ p.scope = q /\ p.index = l
    BY <1>1, <2>2, <2>3 DEF Distinct
  <2>5. QED
    BY <1>3, <2>1, <2>2, <2>4
<1>5. ASSUME p # NONE PROVE \E k \in DOMAIN b : name \in DOMAIN b[k]
  <2>1. /\ p.scope \in OnPath(t, c) /\ p.index \in DOMAIN t[p.scope].symbols
        /\ t[p.scope].symbols[p.index].name = name
    BY <1>1, <1>5
  <2>2. PICK k \in DOMAIN b : b[k] = Entries(t[p.scope].symbols)
    BY <1>2, <2>1
  <2>3. QED
    BY <1>3, <2>1, <2>2
<1>6. Structure!Visible(b, name) <=> p # NONE
  BY <1>4, <1>5 DEF Structure!Visible
<1>7. CASE p = NONE
  BY <1>6, <1>7 DEF Structure!IdOf, b, p
<1>8. CASE p # NONE
  <2>1. Structure!IdOf(b, name) = b[CHOOSE k \in DOMAIN b : name \in DOMAIN b[k]][name]
    BY <1>6, <1>8 DEF Structure!IdOf
  <2>2. QED
    BY <1>4, <1>5, <1>6, <1>8, <2>1 DEF b, p
<1>9. QED
  BY <1>7, <1>8

(* symbol_insert, of a name that is not found, declares it in the innermost  *)
(* block.                                                                    *)
LEMMA InsertIsWith ==
  ASSUME NEW t \in Seq(Scope), Tree(t), NEW c \in DOMAIN t, NEW sym \in Symbol,
         Resolve(sym.name, c, t) = NONE, Distinct(t, c),
         NEW r \in Pushed(t[c], sym), NEW u, u = Replaced(t, c, r)
  PROVE  BlocksOf(u, c) = Structure!With(BlocksOf(t, c), sym.name, sym.id)
<1> DEFINE b == BlocksOf(t, c)
           up == BlocksOf(t, t[c].parent)
           old == t[c].symbols
<1>1. /\ t[c] \in Scope /\ old \in Seq(Symbol)
      /\ DOMAIN t = 1 .. Len(t) /\ c \in OnPath(t, c)
  <2>1. t[c] \in Scope /\ DOMAIN t = 1 .. Len(t)
    BY DEF Tree
  <2>2. old \in Seq(Symbol)
    BY <2>1 DEF Scope
  <2>3. c \in OnPath(t, c)
    BY OnPathOfScope
  <2>4. QED
    BY <2>1, <2>2, <2>3
<1>2. /\ u \in Seq(Scope) /\ Tree(u) /\ DOMAIN u = DOMAIN t
      /\ \A q \in DOMAIN t \ {c} : u[q] = t[q]
      /\ \A q \in DOMAIN t : u[q].parent = t[q].parent
  <2>1. /\ u \in Seq(Scope) /\ Tree(u) /\ Extends(t, u) /\ Len(u) = Len(t)
        /\ \A q \in DOMAIN t \ {c} : u[q] = t[q]
    BY InsertFinds
  <2>2. DOMAIN u = DOMAIN t
    BY <2>1 DEF Tree
  <2>3. QED
    BY <2>1, <2>2 DEF Extends
<1>3. u[c].symbols = Append(old, sym)
  <2>1. u[c] = r
    BY DEF Replaced
  <2>2. QED
    BY <1>1, <2>1, PushedAppends
<1>4. DistinctNames(old) /\ \A l \in DOMAIN old : old[l].name # sym.name
  <2>1. DistinctNames(old)
    BY <1>1, DistinctInScope
  <2>2. ~Holds(t, c, sym.name)
    BY <1>1, ResolveFinds
  <2>3. QED
    BY <2>1, <2>2 DEF Holds
<1>5. Entries(u[c].symbols) = Added(Entries(old), sym.name, sym.id)
  BY <1>1, <1>3, <1>4, EntriesAppend
<1>6. BlocksOf(u, u[c].parent) = up
  <2>1. t[c].parent \in DOMAIN t \cup {NONE} /\ u[c].parent = t[c].parent
    BY <1>2, PathFromScope
  <2>2. \A q \in OnPath(t, t[c].parent) : u[q].symbols = t[q].symbols
    <3>1. OnPath(t, t[c].parent) \subseteq DOMAIN t /\ c \notin OnPath(t, t[c].parent)
      BY <2>1, OnPathOfScope, OnPathOlder
    <3>2. QED
      BY <1>2, <3>1
  <2>3. QED
    BY <1>2, <2>1, <2>2, BlocksSame
<1>7. /\ Len(b) \in Nat \ {0} /\ DOMAIN b = 1 .. Len(b)
      /\ b[Len(b)] = Entries(old)
      /\ DOMAIN up = 1 .. Len(b) - 1
      /\ \A k \in 1 .. Len(b) - 1 : b[k] = up[k]
  BY BlocksOfScope
<1>8. LET w == BlocksOf(u, c)
      IN  /\ Len(w) \in Nat \ {0} /\ DOMAIN w = 1 .. Len(w)
          /\ w[Len(w)] = Entries(u[c].symbols)
          /\ DOMAIN BlocksOf(u, u[c].parent) = 1 .. Len(w) - 1
          /\ \A k \in 1 .. Len(w) - 1 : w[k] = BlocksOf(u, u[c].parent)[k]
  BY <1>2, BlocksOfScope
<1> DEFINE w == BlocksOf(u, c)
<1>9. w = [k \in DOMAIN w |-> w[k]] /\ b = [k \in DOMAIN b |-> b[k]]
  BY DEF BlocksOf
<1>10. ~Structure!Visible(b, sym.name)
  BY ResolveIsLookup
<1>11. Structure!With(b, sym.name, sym.id)
         = [b EXCEPT ![Len(b)] = Added(b[Len(b)], sym.name, sym.id)]
  BY <1>10 DEF Structure!With, Added
<1> HIDE DEF w, b, up, old
<1>12. Len(w) = Len(b)
  <2>1. 1 .. Len(w) - 1 = 1 .. Len(b) - 1 /\ Len(w) \in Nat \ {0} /\ Len(b) \in Nat \ {0}
    BY <1>6, <1>7, <1>8 DEF w
  <2>2. QED
    BY <2>1
<1>13. /\ DOMAIN w = DOMAIN b /\ w[Len(b)] = Added(b[Len(b)], sym.name, sym.id)
       /\ \A k \in 1 .. Len(b) - 1 : w[k] = b[k]
  BY <1>5, <1>6, <1>7, <1>8, <1>12 DEF w
<1>14. w = [b EXCEPT ![Len(b)] = Added(b[Len(b)], sym.name, sym.id)]
  <2>1. \A k \in DOMAIN b : k = Len(b) \/ k \in 1 .. Len(b) - 1
    BY <1>7
  <2>2. \A k \in DOMAIN b :
          w[k] = IF k = Len(b) THEN Added(b[Len(b)], sym.name, sym.id) ELSE b[k]
    BY <1>13, <2>1
  <2>3. QED
    BY <1>9, <1>13, <2>2
<1>15. QED
  BY <1>11, <1>14 DEF w, b

(* begin_scope opens a block without declarations. *)
LEMMA BeginIsOpen ==
  ASSUME NEW t \in Seq(Scope), Tree(t), NEW c \in DOMAIN t, NEW node \in TreeNode,
         NEW u, u = Grown(t, c, node)
  PROVE  BlocksOf(u, Len(t) + 1) = Append(BlocksOf(t, c), <<>>)
<1> DEFINE new == Len(t) + 1
<1>1. /\ u \in Seq(Scope) /\ Tree(u) /\ Extends(t, u) /\ new \in DOMAIN u
      /\ u[new] = NewScope(c, node)
      /\ \A q \in DOMAIN t : u[q] = t[q]
  <2>1. IsInnermost(t, c, node, u)
    BY NewScopeInnermost
  <2>2. QED
    BY <2>1 DEF IsInnermost
<1> HIDE DEF new
<1>2. u[new].parent = c /\ u[new].symbols = <<>>
  BY <1>1 DEF NewScope
<1>3. BlocksOf(u, c) = BlocksOf(t, c)
  <2>1. \A q \in OnPath(t, c) : u[q].symbols = t[q].symbols
    BY <1>1, OnPathOfScope
  <2>2. DOMAIN t \subseteq DOMAIN u /\ \A s \in DOMAIN t : u[s].parent = t[s].parent
    BY <1>1 DEF Extends
  <2>3. QED
    BY <1>1, <2>1, <2>2, BlocksSame
<1>4. Entries(<<>>) = <<>>
  <2>1. {<<>>[l].name : l \in DOMAIN <<>>} = {}
    BY NoScopes
  <2>2. QED
    BY <2>1 DEF Entries
<1>5. BlocksOf(u, new) = Append(BlocksOf(u, u[new].parent), Entries(u[new].symbols))
  BY <1>1, BlocksClose
<1>6. QED
  BY <1>2, <1>3, <1>4, <1>5 DEF new

(* While a unit is walked, Blocks are the blocks of the current scope. *)
LEMMA BlocksNow ==
  ASSUME ScopesInv
  PROVE  IF phase \in {"walk", "aborted"} THEN Blocks = BlocksOf(scopes, current_scope)
         ELSE Blocks = <<>>
<1>1. walk \in Seq(Frame) /\ DOMAIN walk = 1 .. Len(walk)
  BY DEF ScopesInv, WalkMatchesPath
<1>2. ASSUME phase \in {"walk", "aborted"} PROVE Len(walk) = Len(Path(scopes, current_scope))
  BY <1>2 DEF ScopesInv, WalkMatchesPath
<1>3. CASE phase \in {"walk", "aborted"}
  <2>1. Blocks = [k \in DOMAIN walk |->
                    Entries(scopes[Path(scopes, current_scope)[Len(walk) + 1 - k]].symbols)]
    BY <1>3 DEF Blocks, Entries
  <2>2. QED
    BY <1>1, <1>2, <1>3, <2>1 DEF BlocksOf
<1>4. CASE phase \notin {"walk", "aborted"}
  BY <1>4 DEF Blocks
<1>5. QED
  BY <1>3, <1>4

(* The same after a step. *)
LEMMA BlocksNext ==
  ASSUME ScopesInv'
  PROVE  IF phase' \in {"walk", "aborted"}
         THEN Blocks' = BlocksOf(scopes', current_scope') ELSE Blocks' = <<>>
<1>1. walk' \in Seq(Frame) /\ DOMAIN walk' = 1 .. Len(walk')
  BY DEF ScopesInv, WalkMatchesPath
<1>2. ASSUME phase' \in {"walk", "aborted"}
      PROVE  Len(walk') = Len(Path(scopes', current_scope'))
  BY <1>2 DEF ScopesInv, WalkMatchesPath
<1>3. CASE phase' \in {"walk", "aborted"}
  <2>1. Blocks' = [k \in DOMAIN walk' |->
                    Entries(scopes'[Path(scopes', current_scope')[Len(walk') + 1 - k]].symbols)]
    BY <1>3 DEF Blocks, Entries
  <2>2. QED
    BY <1>1, <1>2, <1>3, <2>1 DEF BlocksOf
<1>4. CASE phase' \notin {"walk", "aborted"}
  BY <1>4 DEF Blocks
<1>5. QED
  BY <1>3, <1>4

-----------------------------------------------------------------------------
(* What every step of the walk starts from. *)
LEMMA WalkState ==
  ASSUME ScopesInv, phase \in {"walk", "aborted"}
  PROVE  /\ scopes \in Seq(Scope) /\ Tree(scopes) /\ current_scope \in DOMAIN scopes
         /\ Distinct(scopes, current_scope) /\ g_current_symbol_id \in Nat
         /\ Blocks = BlocksOf(scopes, current_scope) /\ Blocks # <<>>
<1>1. /\ scopes \in Seq(Scope) /\ Tree(scopes) /\ current_scope \in DOMAIN scopes
      /\ Distinct(scopes, current_scope) /\ g_current_symbol_id \in Nat
  BY DEF ScopesInv, TablesFormTree
<1>2. Blocks = BlocksOf(scopes, current_scope)
  BY BlocksNow
<1>3. Len(Blocks) \in Nat \ {0} /\ DOMAIN Blocks = 1 .. Len(Blocks)
  BY <1>1, <1>2, BlocksClose
<1>4. QED
  BY <1>1, <1>2, <1>3

(* create_scopes opens the block of the file. *)
LEMMA CreateIsOpen ==
  ASSUME ScopesInv, ScopesInv', CreateScopes
  PROVE  Structure!Open
<1> DEFINE s == NewScope(NONE, Node("unit", NONE))
<1>1. /\ scopes = <<>> /\ current_scope = NONE /\ phase = "start"
      /\ phase' = "walk" /\ UNCHANGED <<g_current_symbol_id, identifier>>
  BY DEF CreateScopes, ScopesInv, TablesFormTree, nodes
<1>2. scopes' = Append(<<>>, s) /\ current_scope' = 1
  BY <1>1, EmptySeq DEF CreateScopes, BeginScope
<1>3. Blocks = <<>> /\ Blocks' = BlocksOf(scopes', 1)
  BY <1>1, <1>2, BlocksNow, BlocksNext
<1>4. scopes'[1] = s /\ 1 \in DOMAIN scopes' /\ Tree(scopes')
  BY <1>1, <1>2 DEF ScopesInv, TablesFormTree
<1>5. s.parent = NONE /\ s.symbols = <<>>
  BY DEF NewScope
<1> HIDE DEF s
<1>6. Entries(<<>>) = <<>> /\ BlocksOf(scopes', NONE) = <<>>
  <2>1. {<<>>[l].name : l \in DOMAIN <<>>} = {}
    BY NoScopes
  <2>2. Path(scopes', NONE) = <<>> /\ Len(<<>>) = 0
    BY <1>4, PathFromScope
  <2>3. 1 .. Len(Path(scopes', NONE)) = {}
    BY <2>2
  <2>4. BlocksOf(scopes', NONE) = <<>>
    BY <2>3 DEF BlocksOf
  <2>5. QED
    BY <2>1, <2>4 DEF Entries
<1>7. BlocksOf(scopes', 1) = Append(BlocksOf(scopes', scopes'[1].parent), Entries(scopes'[1].symbols))
  BY <1>4, BlocksClose
<1>8. QED
  BY <1>1, <1>3, <1>4, <1>5, <1>6, <1>7 DEF Structure!Open

(* A compound statement opens a block. *)
LEMMA BlockIsOpen ==
  ASSUME ScopesInv, ScopesInv', BeginBlock
  PROVE  Structure!Open
<1> DEFINE node == Node("statement", NONE)
<1>1. /\ phase = "walk" /\ phase' = phase /\ UNCHANGED <<g_current_symbol_id, identifier>>
      /\ scopes' = Grown(scopes, current_scope, node) /\ current_scope' = Len(scopes) + 1
  BY DEF BeginBlock, InStatements, Walking, BeginScope, Grown, nodes
<1>2. node \in TreeNode
  BY DEF Node, TreeNode
<1> HIDE DEF node
<1>3. Blocks' = BlocksOf(scopes', current_scope')
  BY <1>1, BlocksNext
<1>4. BlocksOf(scopes', Len(scopes) + 1) = Append(BlocksOf(scopes, current_scope), <<>>)
  BY <1>1, <1>2, WalkState, BeginIsOpen
<1>5. QED
  BY <1>1, <1>3, <1>4, WalkState DEF Structure!Open

(* end_scope closes the innermost block, unless it is the file's.            *)
LEMMA EndIsClose ==
  ASSUME ScopesInv, ScopesInv', phase = "walk", phase' = phase, EndScope, Leave,
         Len(walk) >= 2, UNCHANGED <<g_current_symbol_id, identifier>>
  PROVE  Structure!Close
<1> DEFINE c == current_scope
           up == scopes[c].parent
<1>1. /\ Blocks' = BlocksOf(scopes', current_scope') /\ scopes' = scopes
      /\ current_scope' = IF up = NONE THEN global_scope ELSE up
  BY BlocksNext DEF EndScope
<1>2. up # NONE
  <2>1. Len(walk) = Len(Path(scopes, c))
    BY DEF ScopesInv, WalkMatchesPath
  <2>2. Len(Path(scopes, c)) = Len(Path(scopes, up)) + 1
    BY WalkState, PathEntries
  <2>3. Path(scopes, NONE) = <<>> /\ Len(<<>>) = 0
    BY WalkState, PathFromScope, EmptySeq
  <2> HIDE DEF c, up
  <2>4. QED
    BY <2>1, <2>2, <2>3
<1>3. BlocksOf(scopes, up) = SubSeq(BlocksOf(scopes, c), 1, Len(BlocksOf(scopes, c)) - 1)
  BY WalkState, BlocksClose
<1>4. QED
  BY <1>1, <1>2, <1>3, WalkState DEF Structure!Close

(* The calls that close the block of a function or of a statement.           *)
LEMMA BlockIsClose ==
  ASSUME ScopesInv, ScopesInv', EndFunction \/ EndBlock
  PROVE  Structure!Close
<1>1. /\ phase = "walk" /\ phase' = phase /\ EndScope /\ Leave /\ walk # <<>>
      /\ walk[Len(walk)].what \in {"function", "statement"}
      /\ UNCHANGED <<g_current_symbol_id, identifier>>
  BY DEF EndFunction, EndBlock, Walking, Innermost, nodes
<1>2. walk \in Seq(Frame) /\ \A k \in DOMAIN walk : walk[k].what = "unit" <=> k = 1
  BY DEF ScopesInv, WalkMatchesPath
<1>3. Len(walk) \in DOMAIN walk
  BY <1>1, <1>2
<1>4. Len(walk) >= 2
  BY <1>1, <1>2, <1>3
<1>5. QED
  BY <1>1, <1>4, EndIsClose

(* The end of the unit closes the block of the file. *)
LEMMA FinishIsClose ==
  ASSUME ScopesInv, ScopesInv', FinishUnit
  PROVE  Structure!Close
<1>1. /\ phase = "walk" /\ phase' = "walked" /\ walk # <<>>
      /\ walk[Len(walk)].what = "unit"
      /\ UNCHANGED <<g_current_symbol_id, identifier>>
  BY DEF FinishUnit, Walking, Innermost, nodes
<1>2. /\ walk \in Seq(Frame) /\ \A k \in DOMAIN walk : walk[k].what = "unit" <=> k = 1
      /\ Len(walk) = Len(Path(scopes, current_scope))
  BY <1>1 DEF ScopesInv, WalkMatchesPath
<1>3. Len(walk) = 1
  <2>1. Len(walk) \in DOMAIN walk
    BY <1>1, <1>2
  <2>2. QED
    BY <1>1, <1>2, <2>1
<1>4. Blocks' = <<>>
  BY <1>1, BlocksNext
<1>5. /\ Len(Blocks) = 1
      /\ BlocksOf(scopes, scopes[current_scope].parent) = SubSeq(Blocks, 1, Len(Blocks) - 1)
      /\ DOMAIN BlocksOf(scopes, scopes[current_scope].parent) = 1 .. Len(Blocks) - 1
  <2>1. Tree(scopes) /\ current_scope \in DOMAIN scopes /\ Blocks = BlocksOf(scopes, current_scope)
    BY <1>1, WalkState
  <2>2. /\ Len(Blocks) = Len(Path(scopes, current_scope))
        /\ BlocksOf(scopes, scopes[current_scope].parent) = SubSeq(Blocks, 1, Len(Blocks) - 1)
    BY <2>1, BlocksClose
  <2>3. DOMAIN BlocksOf(scopes, scopes[current_scope].parent) = 1 .. Len(Blocks) - 1
    BY <2>1, BlocksOfScope
  <2>4. QED
    BY <1>2, <1>3, <2>2, <2>3
<1>6. SubSeq(Blocks, 1, Len(Blocks) - 1) = <<>>
  <2>1. 1 .. Len(Blocks) - 1 = {}
    BY <1>5
  <2>2. BlocksOf(scopes, scopes[current_scope].parent) = [k \in {} |-> {}]
    BY <1>5, <2>1 DEF BlocksOf
  <2>3. QED
    BY <1>5, <2>2
<1>7. QED
  BY <1>1, <1>4, <1>6, WalkState DEF Structure!Close

(* What symbol_insert does to the blocks. *)
LEMMA InsertIsDeclare ==
  ASSUME ScopesInv, ScopesInv', phase = "walk", phase' = phase,
         NEW name \in Names, NEW kind \in {"variable", "function", "parameter"},
         SymbolInsert(name, kind), NewId, UNCHANGED <<current_scope, identifier>>
  PROVE  Structure!Declare(name)
<1> DEFINE c == current_scope
           g == g_current_symbol_id
           sym == [name |-> name, kind |-> kind, id |-> g]
<1>1. /\ scopes \in Seq(Scope) /\ Tree(scopes) /\ c \in DOMAIN scopes
      /\ Distinct(scopes, c) /\ Blocks = BlocksOf(scopes, c) /\ Blocks # <<>>
      /\ sym \in Symbol /\ sym.name = name /\ sym.id = g
  BY WalkState DEF Symbol
<1>2. g' = g + 1 /\ Blocks' = BlocksOf(scopes', c)
  BY BlocksNext DEF NewId
<1>3. CASE Resolve(name, c, scopes) # NONE
  <2>1. Blocks' = Blocks
    BY <1>1, <1>2, <1>3 DEF SymbolInsert
  <2>2. QED
    BY <1>1, <1>2, <2>1 DEF Structure!Declare
<1>4. CASE Resolve(name, c, scopes) = NONE
  <2>1. PICK r \in Pushed(scopes[c], sym) : scopes' = Replaced(scopes, c, r)
    BY <1>4 DEF SymbolInsert, Replaced
  <2> HIDE DEF c, g, sym
  <2>2. BlocksOf(scopes', c) = Structure!With(BlocksOf(scopes, c), sym.name, sym.id)
    BY <1>1, <1>4, <2>1, InsertIsWith
  <2>3. QED
    BY <1>1, <1>2, <2>2 DEF Structure!Declare, c, g
<1>5. QED
  BY <1>3, <1>4

(* A variable or a prototype. *)
LEMMA DeclarationIsDeclare ==
  ASSUME ScopesInv, ScopesInv', NEW name \in Names, NEW kind \in {"variable", "function"},
         NEW constant \in BOOLEAN, ProcessDeclaration(name, kind, constant)
  PROVE  Structure!Declare(name)
<1>1. /\ phase = "walk" /\ phase' = phase /\ NewId
      /\ UNCHANGED <<current_scope, identifier>>
  BY DEF ProcessDeclaration, InStatements, Walking
<1>2. CASE constant
  BY <1>1, <1>2, InsertIsDeclare DEF ProcessDeclaration
<1>3. CASE ~constant
  <2>1. scopes' = scopes
    BY <1>3 DEF ProcessDeclaration
  <2>2. Blocks' = Blocks /\ g_current_symbol_id' = g_current_symbol_id + 1
    BY <1>1, <2>1, BlocksNow, BlocksNext DEF NewId
  <2>3. QED
    BY <1>1, <2>2, WalkState DEF Structure!Declare
<1>4. QED
  BY <1>2, <1>3

(* The name of a function is declared outside of the block it opens.         *)
LEMMA FunctionIsDeclareAndOpen ==
  ASSUME ScopesInv, ScopesInv', NEW name \in Names, BeginFunction(name)
  PROVE  Structure!DeclareAndOpen(name)
<1> DEFINE c == current_scope
           g == g_current_symbol_id
           sym == [name |-> name, kind |-> "function", id |-> g]
           node == Node("function", g)
           known == Resolve(name, c, scopes) # NONE
<1>1. /\ phase = "walk" /\ phase' = phase /\ g' = g + 1 /\ identifier' = identifier
  BY DEF BeginFunction, Walking, NewId, nodes
<1>2. IF known THEN BeginScope(scopes, node)
      ELSE \E r \in Pushed(scopes[c], sym) : BeginScope([scopes EXCEPT ![c] = r], node)
  BY DEF BeginFunction
<1>3. /\ scopes \in Seq(Scope) /\ Tree(scopes) /\ c \in DOMAIN scopes /\ g \in Nat
      /\ Distinct(scopes, c) /\ Blocks = BlocksOf(scopes, c) /\ Blocks # <<>>
      /\ Blocks' = BlocksOf(scopes', current_scope')
  BY <1>1, WalkState, BlocksNext
<1>4. sym \in Symbol /\ sym.name = name /\ sym.id = g /\ node \in TreeNode
  BY <1>3 DEF Symbol, Node, TreeNode
<1>5. CASE known
  <2>1. scopes' = Grown(scopes, c, node) /\ current_scope' = Len(scopes) + 1
    BY <1>2, <1>5 DEF BeginScope, Grown
  <2>2. Structure!Visible(Blocks, name)
    BY <1>3, <1>5, ResolveIsLookup
  <2> HIDE DEF c, g, sym, node, known
  <2>3. Blocks' = Append(Blocks, <<>>)
    BY <1>3, <1>4, <2>1, BeginIsOpen
  <2>4. Structure!With(Blocks, name, g) = Blocks
    BY <2>2 DEF Structure!With
  <2>5. QED
    BY <1>1, <1>3, <2>3, <2>4 DEF Structure!DeclareAndOpen, g
<1>6. CASE ~known
  <2>1. PICK r \in Pushed(scopes[c], sym) : BeginScope([scopes EXCEPT ![c] = r], node)
    BY <1>2, <1>6
  <2> DEFINE t == Replaced(scopes, c, r)
  <2>2. Resolve(sym.name, c, scopes) = NONE
    BY <1>6
  <2>3. scopes' = Grown(t, c, node) /\ current_scope' = Len(scopes) + 1
    BY <2>1 DEF BeginScope, Grown, Replaced
  <2> HIDE DEF c, g, sym, node, known, t
  <2>4. t \in Seq(Scope) /\ Tree(t) /\ Len(t) = Len(scopes) /\ c \in DOMAIN t
    <3>1. t \in Seq(Scope) /\ Tree(t) /\ Len(t) = Len(scopes)
      BY <1>3, <1>4, <2>2, InsertFinds DEF t
    <3>2. QED
      BY <1>3, <3>1 DEF Tree
  <2>5. BlocksOf(t, c) = Structure!With(Blocks, name, g)
    BY <1>3, <1>4, <2>2, InsertIsWith DEF t
  <2>6. Blocks' = Append(BlocksOf(t, c), <<>>)
    <3>1. BlocksOf(scopes', Len(t) + 1) = Append(BlocksOf(t, c), <<>>)
      BY <1>4, <2>3, <2>4, BeginIsOpen
    <3>2. QED
      BY <1>3, <2>3, <2>4, <3>1
  <2>7. QED
    BY <1>1, <1>3, <2>5, <2>6 DEF Structure!DeclareAndOpen, g
<1>7. QED
  BY <1>5, <1>6

(* An identifier is looked up among the blocks. *)
LEMMA CheckIsLookup ==
  ASSUME ScopesInv, ScopesInv', NEW name \in Names, CheckIdentifier(name)
  PROVE  Structure!Lookup(name)
<1> DEFINE c == current_scope
           p == Resolve(name, c, scopes)
           id == scopes[p.scope].symbols[p.index].id
<1>1. /\ phase = "walk"
      /\ UNCHANGED <<scopes, current_scope, g_current_symbol_id, phase>>
      /\ identifier' = IF p = NONE THEN NONE ELSE [symbol |-> p, id |-> id]
  BY DEF CheckIdentifier, InStatements, Walking, At, table
<1>2. /\ scopes \in Seq(Scope) /\ Tree(scopes) /\ c \in DOMAIN scopes
      /\ Distinct(scopes, c) /\ Blocks = BlocksOf(scopes, c) /\ Blocks # <<>>
      /\ Blocks' = Blocks
  BY <1>1, WalkState, BlocksNow, BlocksNext
<1>3. Structure!IdOf(Blocks, name) = IF p = NONE THEN NONE ELSE id
  BY <1>2, ResolveIsLookup
<1>4. CASE p = NONE
  BY <1>1, <1>2, <1>3, <1>4 DEF Structure!Lookup
<1>5. CASE p # NONE
  <2>1. /\ p \in [scope : OnPath(scopes, c), moves : Nat, index : Nat]
        /\ p.index \in DOMAIN scopes[p.scope].symbols
    BY <1>2, <1>5, ResolveFinds
  <2>2. OnPath(scopes, c) \subseteq DOMAIN scopes /\ DOMAIN scopes = 1 .. Len(scopes)
    BY <1>2, OnPathOfScope DEF Tree
  <2> HIDE DEF p, c, id
  <2>3. p \in [scope : Nat, moves : Nat, index : Nat] /\ p.scope \in DOMAIN scopes
    BY <2>1, <2>2
  <2>4. id \in Nat
    <3>0. scopes[p.scope] \in Scope
      BY <1>2, <2>3
    <3>1. scopes[p.scope].symbols \in Seq(Symbol)
      BY <3>0 DEF Scope
    <3>2. scopes[p.scope].symbols[p.index] \in Symbol
      BY <2>1, <3>1
    <3>3. QED
      BY <3>2 DEF Symbol, id
  <2>5. [symbol |-> p, id |-> id] # NONE
    BY <2>3, <2>4, ScopesAssumption
  <2>6. identifier' # NONE /\ identifier'.id = id
    BY <1>1, <1>5, <2>5
  <2>7. QED
    BY <1>1, <1>2, <1>3, <1>5, <2>6 DEF Structure!Lookup
<1>6. QED
  BY <1>4, <1>5

(* The other steps leave the blocks alone. *)
LEMMA StepsThatStutter ==
  ASSUME ScopesInv, ScopesInv',
         BeginBody \/ UNCHANGED vars
           \/ \E value \in {"fine", "mismatch", "untyped"} : ReturnStatement(value)
  PROVE  UNCHANGED Structure!vars
<1>1. UNCHANGED <<scopes, current_scope, g_current_symbol_id, identifier>>
  BY DEF BeginBody, ReturnStatement, vars, table, nodes
<1>2. phase \in {"walk", "aborted"} <=> phase' \in {"walk", "aborted"}
  <2>1. CASE BeginBody \/ UNCHANGED vars
    BY <2>1 DEF BeginBody, vars
  <2>2. ASSUME NEW value \in {"fine", "mismatch", "untyped"}, ReturnStatement(value)
        PROVE  phase = "walk" /\ phase' \in {"walk", "aborted"}
    BY <2>2 DEF ReturnStatement, InStatements, Walking
  <2>3. QED
    BY <2>1, <2>2
<1>3. Blocks' = Blocks
  BY <1>1, <1>2, BlocksNow, BlocksNext
<1>4. QED
  BY <1>1, <1>3 DEF Structure!vars

(* The next file starts without blocks. *)
LEMMA NextFileIsForget ==
  ASSUME ScopesInv, ScopesInv', NextFile
  PROVE  Structure!Forget
<1>1. /\ phase = "walked" /\ phase' = "start" /\ identifier' = NONE
      /\ g_current_symbol_id' = g_current_symbol_id
  BY DEF NextFile
<1>2. Blocks = <<>> /\ Blocks' = <<>>
  BY <1>1, BlocksNow, BlocksNext
<1>3. QED
  BY <1>1, <1>2 DEF Structure!Forget

(* A step of the walk is a step of block structure. *)
LEMMA StepIsStructureStep ==
  ASSUME ScopesInv, ScopesInv', [Next]_vars
  PROVE  [Structure!Next]_(Structure!vars)
<1>1. CASE CreateScopes
  BY <1>1, CreateIsOpen DEF Structure!Next
<1>2. ASSUME NEW name \in Names, NEW kind \in {"variable", "function"},
             NEW constant \in BOOLEAN, ProcessDeclaration(name, kind, constant)
      PROVE  Structure!Next
  BY <1>2, DeclarationIsDeclare DEF Structure!Next
<1>3. ASSUME NEW name \in Names, BeginFunction(name) PROVE Structure!Next
  BY <1>3, FunctionIsDeclareAndOpen DEF Structure!Next
<1>4. ASSUME NEW name \in Names, ProcessParameter(name) PROVE Structure!Next
  <2>1. Structure!Declare(name)
    BY <1>4, InsertIsDeclare DEF ProcessParameter, Walking
  <2>2. QED
    BY <2>1 DEF Structure!Next
<1>5. ASSUME NEW name \in Names, CheckIdentifier(name) PROVE Structure!Next
  BY <1>5, CheckIsLookup DEF Structure!Next
<1>6. CASE EndFunction \/ EndBlock
  BY <1>6, BlockIsClose DEF Structure!Next
<1>7. CASE BeginBlock
  BY <1>7, BlockIsOpen DEF Structure!Next
<1>8. CASE FinishUnit
  BY <1>8, FinishIsClose DEF Structure!Next
<1>9. CASE NextFile
  BY <1>9, NextFileIsForget DEF Structure!Next
<1>10. CASE BeginBody \/ UNCHANGED vars
              \/ \E value \in {"fine", "mismatch", "untyped"} : ReturnStatement(value)
  BY <1>10, StepsThatStutter
<1>11. QED
  BY <1>1, <1>2, <1>3, <1>4, <1>5, <1>6, <1>7, <1>8, <1>9, <1>10 DEF Next

(* ImplementsEnvironment: for every program the scopes are block structure   *)
(* without shadowing, as Environment states it. A name is declared in the    *)
(* innermost open block, unless it is visible; resolve_symbol finds the one  *)
(* declaration that is visible; end_scope forgets the innermost block.       *)
THEOREM ScopesImplementEnvironment == Spec => ImplementsEnvironment
<1>1. Init => Structure!Init
  BY DEF Init, Structure!Init, Blocks
<1>2. ScopesInv /\ ScopesInv' /\ [Next]_vars => [Structure!Next]_(Structure!vars)
  BY StepIsStructureStep
<1>3. QED
  BY <1>1, <1>2, ScopesInvariant, PTL DEF Spec, ImplementsEnvironment, Structure!Spec
=============================================================================
