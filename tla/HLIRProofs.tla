------------------------------ MODULE HLIRProofs ------------------------------
(***************************************************************************)
(* Proofs about the basic blocks of a function. The first half is about    *)
(* flat bodies of any length: statements in lists and in lists within      *)
(* lists, where what an if or a while contains is straight, that is, has   *)
(* no if and no while of its own, and where a loop does not return. The    *)
(* desugaring makes a while in a list of every for. Their blocks are all   *)
(* terminated, which for other bodies is false, as the run on a branch in  *)
(* a branch shows. The second half is about any bodies, of any depth, with *)
(* such branches too: what holds of all of them is the order of the        *)
(* instructions.                                                           *)
(***************************************************************************)
EXTENDS HLIR, SequenceTheorems, TLAPS

CONSTANTS
  Straight,    (* statements that loops contain                             *)
  Branches,    (* statements that branches contain                          *)
  Statements,  (* the statements of flat bodies                             *)
  Nodes        (* the statements of any bodies                              *)

(* The declarations and the members of S in a list of children. *)
IsList(kids, S) ==
  /\ Len(kids) \in Nat
  /\ \A i \in 1 .. Len(kids) : kids[i].kind = "decl" \/ kids[i] \in S

FlatShapes ==
  /\ \A n \in Straight : \/ n.kind = "expr"
                         \/ n.kind = "block" /\ IsList(n.kids, Straight)
  /\ \A n \in Branches : \/ n.kind \in {"expr", "return"}
                         \/ n.kind = "block" /\ IsList(n.kids, Branches)
  /\ \A n \in Statements :
       \/ n.kind \in {"expr", "return"}
       \/ n.kind = "block" /\ IsList(n.kids, Statements)
       \/ /\ n.kind = "if"
          /\ Len(n.kids) \in {1, 2}
          /\ \A i \in 1 .. Len(n.kids) : n.kids[i] \in Branches
       \/ n.kind = "while" /\ n.kids[1] \in Straight
  /\ NONE \notin Statements

FlatNext ==
  \/ \E b \in Statements : b.kind = "block" /\ GenerateFunction(b)
  \/ GenerateBody

(* The IR generator on flat bodies. *)
FlatSpec == Init /\ [][FlatNext]_vars

-----------------------------------------------------------------------------
Term == [op : {"br", "cond_br", "ret"}, to : Seq(Nat)]
BasicBlock == [instrs : Seq(Seq(Nat)), term : Term \cup {NONE}]

Frame ==
  [proc : {"expr", "return", "block", "if", "while"},
   at : {"start", "called", "then", "else", "body"},
   node : Straight \cup Branches \cup Statements, path : Seq(Nat),
   block : Nat \cup {NONE}, i : Nat \ {0},
   first : Nat \cup {NONE}, second : Nat \cup {NONE}]

(* A call where it can be: only a list may have lost its block. *)
FrameOK(f) ==
  /\ f \in Frame
  /\ f.proc = f.node.kind
  /\ f.at = "start" \/ <<f.proc, f.at>> \in {<<"block", "called">>, <<"if", "then">>,
                                             <<"if", "else">>, <<"while", "body">>}
  /\ f.at = "start" /\ f.proc # "block" => f.block # NONE
  /\ f.at = "start" \/ f.proc = "block" => f.second = NONE

(* A call g made, directly or not, by the call f. *)
Inside(f, g) ==
  /\ f.at # "start"
  /\ f.proc = "if" => g.node \in Branches
  /\ f.proc = "while" => g.node \in Straight

(* The active calls: below the first branch or loop there are only lists. *)
Shape(st) ==
  /\ st \in Seq(Frame)
  /\ \A k \in DOMAIN st : FrameOK(st[k])
  /\ \A k \in DOMAIN st :
       (\A j \in 1 .. k - 1 : st[j].proc = "block") => st[k].node \in Statements
  /\ \A k \in DOMAIN st : \A j \in 1 .. k - 1 : Inside(st[j], st[k])

(* A branch or a loop that has called for what it contains. *)
Parked(f) == f.proc \in {"if", "while"} /\ f.at # "start"

(* The blocks it will close. *)
Held(f) == IF f.proc = "if" THEN {f.block, f.first, f.second} ELSE {f.first, f.second}

IsOpen(bs, b) == b \in 1 .. Len(bs) /\ bs[b].term = NONE

(* What it relies on while the generator is at block cur. *)
Relies(f, bs, cur) ==
  IF f.proc = "if"
  THEN /\ IsOpen(bs, f.block)
       /\ f.first \in 1 .. Len(bs) \ {f.block}
       /\ IF f.at = "then"
          THEN f.second = NONE /\ cur \in {f.first, NONE}
          ELSE f.second \in 1 .. Len(bs) \ {f.block, f.first} /\ cur \in {f.second, NONE}
  ELSE cur = f.first /\ cur # NONE /\ IsOpen(bs, f.second) /\ f.second # cur

(* The block that instructions go to is open, what branches and loops rely   *)
(* on is there, and no other block is open.                                  *)
Laid(st, bs, cur) ==
  /\ cur # NONE => IsOpen(bs, cur)
  /\ \A k \in DOMAIN st : Parked(st[k]) => Relies(st[k], bs, cur)
  /\ \A b \in 1 .. Len(bs) :
       IsOpen(bs, b) => b = cur \/ \E k \in DOMAIN st : Parked(st[k]) /\ b \in Held(st[k])

(* Where instructions go next, NONE after a return. *)
Current == IF stack = <<>> \/ Top.at # "start" THEN ret ELSE Top.block

FlatTypes ==
  /\ body \in Statements \cup {NONE}
  /\ blocks \in Seq(BasicBlock)
  /\ ret \in Nat \cup {NONE}
  /\ done \in BOOLEAN
  /\ body = NONE => stack = <<>> /\ blocks = <<>> /\ ret = NONE /\ ~done
  /\ done => stack = <<>>

FlatInv ==
  /\ FlatTypes
  /\ Shape(stack)
  /\ ~done => Laid(stack, blocks, Current)
  /\ BlocksTerminated

-----------------------------------------------------------------------------
(* The stack without its top, and with another top. *)
LEMMA Popped ==
  ASSUME NEW st, Shape(st), st # <<>>, NEW c, c = SubSeq(st, 1, Len(st) - 1)
  PROVE  /\ Shape(c) /\ Len(st) \in Nat \ {0} /\ Len(c) = Len(st) - 1
         /\ DOMAIN st = 1 .. Len(st) /\ DOMAIN c = 1 .. Len(st) - 1
         /\ \A k \in 1 .. Len(st) - 1 : c[k] = st[k]
<1>1. st \in Seq(Frame) /\ Len(st) \in Nat \ {0} /\ DOMAIN st = 1 .. Len(st)
  BY EmptySeq DEF Shape
<1>2. \A k \in 1 .. Len(st) - 1 : st[k] \in Frame
  BY <1>1
<1>3. /\ c \in Seq(Frame) /\ Len(c) = Len(st) - 1 /\ DOMAIN c = 1 .. Len(st) - 1
      /\ \A k \in 1 .. Len(st) - 1 : c[k] = st[k]
  BY <1>1, <1>2
<1>4. \A k \in DOMAIN c : k \in DOMAIN st /\ \A j \in 1 .. k - 1 : j \in DOMAIN c
  BY <1>1, <1>3
<1>5. \A k \in DOMAIN c : FrameOK(c[k])
  BY <1>1, <1>3, <1>4 DEF Shape
<1>6. \A k \in DOMAIN c :
        (\A j \in 1 .. k - 1 : c[j].proc = "block") => c[k].node \in Statements
  BY <1>3, <1>4 DEF Shape
<1>7. \A k \in DOMAIN c : \A j \in 1 .. k - 1 : Inside(c[j], c[k])
  BY <1>3, <1>4 DEF Shape
<1>8. QED
  BY <1>1, <1>3, <1>5, <1>6, <1>7 DEF Shape

(* Put f on top of the calls c. *)
Pushed(c, f) == Append(c, f)

(* One more call keeps the shape of the stack. *)
LEMMA PushShape ==
  ASSUME NEW c, Shape(c), NEW f, FrameOK(f),
         (\A j \in DOMAIN c : c[j].proc = "block") => f.node \in Statements,
         \A j \in DOMAIN c : Inside(c[j], f),
         NEW st, st = Pushed(c, f)
  PROVE  /\ Shape(st) /\ Len(c) \in Nat /\ Len(st) = Len(c) + 1 /\ st # <<>>
         /\ DOMAIN st = 1 .. Len(c) + 1 /\ DOMAIN c = 1 .. Len(c)
         /\ st[Len(c) + 1] = f /\ \A k \in 1 .. Len(c) : st[k] = c[k]
<1> DEFINE n == Len(c) + 1
<1>1. /\ c \in Seq(Frame) /\ f \in Frame /\ Len(c) \in Nat /\ DOMAIN c = 1 .. Len(c)
  BY DEF Shape, FrameOK
<1>2. /\ st \in Seq(Frame) /\ Len(st) = n /\ DOMAIN st = 1 .. n /\ st[n] = f
      /\ \A k \in 1 .. Len(c) : st[k] = c[k]
  BY <1>1, AppendProperties DEF Pushed
<1>3. st # <<>> /\ n \in Nat
  BY <1>1, <1>2
<1>4. \A k \in 1 .. n : /\ (k = n \/ k \in 1 .. Len(c))
                         /\ \A j \in 1 .. k - 1 : j \in 1 .. Len(c) /\ st[j] = c[j]
  BY <1>1, <1>2
<1>5. n - 1 = Len(c) /\ 1 .. n - 1 = DOMAIN c
  BY <1>1
<1> HIDE DEF n
<1>6. ASSUME NEW k \in 1 .. n
      PROVE  /\ FrameOK(st[k])
             /\ (\A j \in 1 .. k - 1 : st[j].proc = "block") => st[k].node \in Statements
             /\ \A j \in 1 .. k - 1 : Inside(st[j], st[k])
  <2>1. CASE k = n
    BY <1>2, <1>4, <1>5, <2>1
  <2>2. CASE k # n
    <3>1. k \in DOMAIN c /\ st[k] = c[k]
      BY <1>1, <1>2, <1>4, <2>2
    <3>2. \A j \in 1 .. k - 1 : st[j] = c[j]
      BY <1>4
    <3>3. QED
      BY <3>1, <3>2 DEF Shape
  <2>3. QED
    BY <2>1, <2>2
<1>7. Shape(st)
  BY <1>2, <1>6 DEF Shape
<1>8. QED
  BY <1>1, <1>2, <1>3, <1>7 DEF n

(* Put g on top of f, which is on top of the calls c. *)
LEMMA PushTwo ==
  ASSUME NEW c, Shape(c), NEW f, FrameOK(f), NEW g, FrameOK(g), Inside(f, g),
         \A j \in DOMAIN c : Inside(c[j], f) /\ Inside(c[j], g),
         (\A j \in DOMAIN c : c[j].proc = "block") =>
           f.node \in Statements /\ (f.proc = "block" => g.node \in Statements),
         NEW st, st = Pushed(Pushed(c, f), g)
  PROVE  /\ Shape(st) /\ Len(c) \in Nat /\ st # <<>> /\ Len(st) = Len(c) + 2
         /\ DOMAIN st = 1 .. Len(c) + 2
         /\ st[Len(c) + 1] = f /\ st[Len(c) + 2] = g
         /\ \A k \in 1 .. Len(c) : st[k] = c[k]
<1> DEFINE mid == Pushed(c, f)
<1>1. /\ Shape(mid) /\ Len(c) \in Nat /\ Len(mid) = Len(c) + 1
      /\ DOMAIN mid = 1 .. Len(c) + 1 /\ DOMAIN c = 1 .. Len(c)
      /\ mid[Len(c) + 1] = f /\ \A k \in 1 .. Len(c) : mid[k] = c[k]
  BY PushShape
<1>2. st = Pushed(mid, g)
  OBVIOUS
<1> HIDE DEF mid
<1>3. \A j \in DOMAIN mid : j = Len(c) + 1 \/ j \in DOMAIN c
  BY <1>1
<1>4. \A j \in DOMAIN mid : Inside(mid[j], g)
  BY <1>1, <1>3
<1>5. (\A j \in DOMAIN mid : mid[j].proc = "block") => g.node \in Statements
  <2>1. Len(c) + 1 \in DOMAIN mid /\ \A j \in DOMAIN c : j \in DOMAIN mid
    BY <1>1
  <2>2. QED
    BY <1>1, <2>1
<1>6. Shape(mid)
  BY <1>1
<1>7. /\ Shape(st) /\ Len(st) = Len(mid) + 1 /\ st # <<>>
      /\ DOMAIN st = 1 .. Len(mid) + 1
      /\ st[Len(mid) + 1] = g /\ \A k \in 1 .. Len(mid) : st[k] = mid[k]
  BY <1>2, <1>4, <1>5, <1>6, PushShape
<1>8. QED
  BY <1>1, <1>7

(* How CallChild puts them there. *)
LEMMA TwoOnTop ==
  ASSUME NEW c, Shape(c), NEW f \in Frame, NEW g \in Frame
  PROVE  c \o <<f, g>> = Pushed(Pushed(c, f), g)
<1>1. c \in Seq(Frame)
  BY DEF Shape
<1>2. QED
  BY <1>1 DEF Pushed

(* A call whose node is a branch or a loop is made by lists only. *)
LEMMA BranchBelowLists ==
  ASSUME FlatShapes, NEW st, Shape(st), NEW k \in DOMAIN st, st[k].proc \in {"if", "while"}
  PROVE  /\ st[k].node \in Statements
         /\ \A j \in 1 .. k - 1 : st[j].proc = "block" /\ st[j].at # "start"
<1>1. st[k].node.kind \in {"if", "while"}
  BY DEF Shape, FrameOK
<1>2. st[k].node \notin Straight /\ st[k].node \notin Branches
  BY <1>1 DEF FlatShapes
<1>3. \A j \in 1 .. k - 1 : Inside(st[j], st[k]) /\ FrameOK(st[j])
  BY DEF Shape
<1>4. \A j \in 1 .. k - 1 : st[j].proc = "block" /\ st[j].at # "start"
  BY <1>2, <1>3 DEF Inside, FrameOK
<1>5. QED
  BY <1>4 DEF Shape

-----------------------------------------------------------------------------
(* What every action of an active call starts from. *)
LEMMA Active ==
  ASSUME FlatInv, stack # <<>>
  PROVE  /\ blocks \in Seq(BasicBlock) /\ ~done /\ body \in Statements /\ body # NONE
         /\ Laid(stack, blocks, Current)
         /\ Shape(stack) /\ Len(stack) \in Nat \ {0} /\ DOMAIN stack = 1 .. Len(stack)
         /\ Len(stack) \in DOMAIN stack /\ FrameOK(Top) /\ Top \in Frame
         /\ Shape(Callers) /\ Len(Callers) \in Nat /\ Len(Callers) + 1 = Len(stack)
         /\ DOMAIN Callers = 1 .. Len(Callers)
         /\ \A j \in DOMAIN Callers :
              Callers[j] = stack[j] /\ Inside(Callers[j], Top) /\ Callers[j].at # "start"
         /\ (\A j \in DOMAIN Callers : Callers[j].proc = "block") => Top.node \in Statements
<1>1. /\ blocks \in Seq(BasicBlock) /\ ~done /\ body \in Statements /\ body # NONE
      /\ Laid(stack, blocks, Current) /\ Shape(stack)
  BY DEF FlatInv, FlatTypes
<1>2. /\ Shape(Callers) /\ Len(stack) \in Nat \ {0} /\ Len(Callers) = Len(stack) - 1
      /\ DOMAIN stack = 1 .. Len(stack) /\ DOMAIN Callers = 1 .. Len(stack) - 1
      /\ \A k \in 1 .. Len(stack) - 1 : Callers[k] = stack[k]
  BY <1>1, Popped DEF Callers
<1>3. Len(stack) \in DOMAIN stack
  BY <1>2
<1>4. FrameOK(Top) /\ Top \in Frame
  BY <1>1, <1>3 DEF Shape, Top, FrameOK
<1>5. \A j \in DOMAIN Callers : Inside(stack[j], Top) /\ stack[j].at # "start"
  BY <1>1, <1>2, <1>3 DEF Shape, Top, Inside
<1>6. (\A j \in DOMAIN Callers : Callers[j].proc = "block") => Top.node \in Statements
  BY <1>1, <1>2, <1>3 DEF Shape, Top
<1>7. /\ Len(Callers) \in Nat /\ Len(Callers) + 1 = Len(stack)
      /\ DOMAIN Callers = 1 .. Len(Callers)
  BY <1>2
<1>8. QED
  BY <1>1, <1>2, <1>3, <1>4, <1>5, <1>6, <1>7

(* The parts of the invariant after a step of an active call. *)
LEMMA Assemble ==
  ASSUME FlatInv, stack # <<>>, UNCHANGED <<body, done>>,
         blocks' \in Seq(BasicBlock), ret' \in Nat \cup {NONE},
         Shape(stack'), Laid(stack', blocks', Current')
  PROVE  FlatInv'
BY Active DEF FlatInv, FlatTypes, BlocksTerminated

(* A call returns: the generator goes on where it says. *)
LEMMA ReturnGoesOn ==
  ASSUME FlatInv, stack # <<>>, NEW b, Return(b)
  PROVE  stack' = Callers /\ Shape(stack') /\ Current' = b /\ ret' = b
<1>1. stack' = Callers /\ ret' = b
  BY DEF Return
<1>2. /\ Shape(Callers) /\ Len(Callers) \in Nat /\ DOMAIN Callers = 1 .. Len(Callers)
      /\ \A j \in DOMAIN Callers : Callers[j].at # "start"
  BY Active
<1>3. ASSUME Callers # <<>> PROVE Callers[Len(Callers)].at # "start"
  <2>1. Callers \in Seq(Frame)
    BY <1>2 DEF Shape
  <2>2. Len(Callers) \in DOMAIN Callers
    BY <1>2, <1>3, <2>1, EmptySeq
  <2>3. QED
    BY <1>2, <2>2
<1>4. QED
  BY <1>1, <1>2, <1>3 DEF Current, Top

(* The running call goes on with other local variables. *)
LEMMA TopGoesOn ==
  ASSUME FlatInv, stack # <<>>, NEW f, FrameOK(f), f.node = Top.node, f.at = "start",
         stack' = Append(Callers, f)
  PROVE  /\ Shape(stack') /\ Current' = f.block
         /\ DOMAIN stack' = DOMAIN stack /\ stack'[Len(stack)] = f
         /\ \A k \in DOMAIN Callers : stack'[k] = stack[k]
<1>1. \A j \in DOMAIN Callers : Inside(Callers[j], f)
  BY Active DEF Inside
<1>2. stack' = Pushed(Callers, f)
  BY DEF Pushed
<1>3. /\ Shape(stack') /\ Len(Callers) \in Nat /\ Len(stack') = Len(Callers) + 1
      /\ stack' # <<>> /\ DOMAIN stack' = 1 .. Len(Callers) + 1
      /\ DOMAIN Callers = 1 .. Len(Callers)
      /\ stack'[Len(Callers) + 1] = f /\ \A k \in 1 .. Len(Callers) : stack'[k] = Callers[k]
  <2>1. /\ Shape(Callers) /\ FrameOK(f)
        /\ (\A j \in DOMAIN Callers : Callers[j].proc = "block") => f.node \in Statements
    BY Active
  <2>2. QED
    BY <1>1, <1>2, <2>1, PushShape
<1>4. Len(Callers) + 1 = Len(stack)
  BY Active
<1>5. QED
  BY <1>3, <1>4, Active DEF Current, Top

(* The running call, now f, calls generate_statement on g.node. *)
LEMMA CallGoesOn ==
  ASSUME FlatInv, stack # <<>>, NEW f, NEW g,
         FrameOK(f), f.node = Top.node, f.at # "start",
         FrameOK(g), g.at = "start", Inside(f, g),
         f.proc = "block" /\ Top.node \in Statements => g.node \in Statements,
         Top.node \in Branches => g.node \in Branches,
         Top.node \in Straight => g.node \in Straight,
         stack' = Pushed(Pushed(Callers, f), g)
  PROVE  /\ Shape(stack') /\ Current' = g.block
         /\ DOMAIN stack' = 1 .. Len(stack) + 1
         /\ stack'[Len(stack)] = f /\ stack'[Len(stack) + 1] = g
         /\ \A k \in DOMAIN Callers : stack'[k] = stack[k]
<1>1. \A j \in DOMAIN Callers : Inside(Callers[j], f) /\ Inside(Callers[j], g)
  BY Active DEF Inside
<1>3. /\ Shape(Callers)
      /\ (\A j \in DOMAIN Callers : Callers[j].proc = "block") =>
           f.node \in Statements /\ (f.proc = "block" => g.node \in Statements)
  BY Active
<1>4. /\ Shape(stack') /\ Len(Callers) \in Nat /\ stack' # <<>>
      /\ Len(stack') = Len(Callers) + 2
      /\ DOMAIN stack' = 1 .. Len(Callers) + 2
      /\ stack'[Len(Callers) + 1] = f /\ stack'[Len(Callers) + 2] = g
      /\ \A k \in 1 .. Len(Callers) : stack'[k] = Callers[k]
  BY <1>1, <1>3, PushTwo
<1>5. /\ Len(Callers) + 1 = Len(stack) /\ Len(Callers) + 2 = Len(stack) + 1
      /\ DOMAIN Callers = 1 .. Len(Callers)
      /\ \A k \in DOMAIN Callers : Callers[k] = stack[k]
  <2>1. /\ Len(Callers) \in Nat /\ Len(Callers) + 1 = Len(stack)
        /\ DOMAIN Callers = 1 .. Len(Callers)
    BY Active
  <2>2. \A k \in DOMAIN Callers : Callers[k] = stack[k]
    BY Active
  <2>3. Len(Callers) + 2 = Len(stack) + 1
    BY <2>1
  <2>4. QED
    BY <2>1, <2>2, <2>3
<1>6. stack'[Len(stack')] = g
  BY <1>4
<1>7. QED
  BY <1>4, <1>5, <1>6 DEF Current, Top

-----------------------------------------------------------------------------
(* Every block of bs is still there and is closed as it was. *)
SameTerms(bs, more) ==
  Len(more) = Len(bs) /\ \A b \in 1 .. Len(bs) : more[b].term = bs[b].term

(* The branches and loops that wait are the same ones. *)
SameParked(st, next) ==
  /\ \A k \in DOMAIN next : Parked(next[k]) => k \in DOMAIN st /\ st[k] = next[k]
  /\ \A k \in DOMAIN st : Parked(st[k]) => k \in DOMAIN next /\ next[k] = st[k]

(* A step that closes no block and makes none keeps what is said of them. *)
LEMMA LaidSame ==
  ASSUME NEW st, NEW bs, NEW cur, Laid(st, bs, cur),
         NEW next, NEW more, SameTerms(bs, more), SameParked(st, next)
  PROVE  Laid(next, more, cur)
<1>1. Len(more) = Len(bs) /\ \A b : IsOpen(more, b) <=> IsOpen(bs, b)
  BY DEF SameTerms, IsOpen
<1>2. cur # NONE => IsOpen(more, cur)
  BY <1>1 DEF Laid
<1>3. ASSUME NEW k \in DOMAIN next, Parked(next[k]) PROVE Relies(next[k], more, cur)
  <2>1. Relies(next[k], bs, cur)
    BY <1>3 DEF Laid, SameParked
  <2>2. QED
    BY <1>1, <2>1 DEF Relies
<1>4. ASSUME NEW b \in 1 .. Len(more), IsOpen(more, b)
      PROVE  b = cur \/ \E k \in DOMAIN next : Parked(next[k]) /\ b \in Held(next[k])
  <2>1. b = cur \/ \E k \in DOMAIN st : Parked(st[k]) /\ b \in Held(st[k])
    BY <1>1, <1>4 DEF Laid
  <2>2. QED
    BY <2>1 DEF SameParked
<1>5. QED
  BY <1>2, <1>3, <1>4 DEF Laid

(* An instruction at the end of a block. *)
LEMMA EmitKeeps ==
  ASSUME blocks \in Seq(BasicBlock), NEW b \in 1 .. Len(blocks), NEW label \in Seq(Nat)
  PROVE  LET bs == Emitted(b, label)
         IN  /\ bs \in Seq(BasicBlock) /\ SameTerms(blocks, bs)
             /\ \A c \in BlockIds : c # b => bs[c] = blocks[c]
<1> DEFINE bs == Emitted(b, label)
<1>1. DOMAIN blocks = 1 .. Len(blocks) /\ Len(blocks) \in Nat /\ blocks[b] \in BasicBlock
  OBVIOUS
<1>2. bs = [blocks EXCEPT ![b] = [blocks[b] EXCEPT !.instrs = Append(blocks[b].instrs, label)]]
  BY <1>1 DEF Emitted
<1> DEFINE more == Append(blocks[b].instrs, label)
<1>3. blocks[b].instrs \in Seq(Seq(Nat))
  BY <1>1 DEF BasicBlock
<1>4. more \in Seq(Seq(Nat))
  BY <1>3, AppendProperties
<1> HIDE DEF more
<1> DEFINE r == [blocks[b] EXCEPT !.instrs = more]
<1>5. r \in BasicBlock /\ r.term = blocks[b].term
  BY <1>1, <1>4 DEF BasicBlock
<1>6. bs = [blocks EXCEPT ![b] = r]
  BY <1>2 DEF more
<1> HIDE DEF r, bs
<1>7. bs \in Seq(BasicBlock) /\ Len(bs) = Len(blocks)
  BY <1>1, <1>5, <1>6, ExceptSeq
<1>8. QED
  BY <1>1, <1>5, <1>6, <1>7 DEF SameTerms, BlockIds, bs

(* A terminator for a block. *)
Closed(bs, b, t) == [bs EXCEPT ![b].term = t]

(* A terminator is all that changes when a block is closed. *)
LEMMA CloseKeeps ==
  ASSUME NEW bs \in Seq(BasicBlock), NEW b \in 1 .. Len(bs), NEW t \in Term,
         NEW more, more = Closed(bs, b, t)
  PROVE  /\ more \in Seq(BasicBlock) /\ Len(more) = Len(bs) /\ more[b].term = t
         /\ \A c \in 1 .. Len(bs) : c # b => more[c] = bs[c]
<1> DEFINE r == [bs[b] EXCEPT !.term = t]
<1>1. bs[b] \in BasicBlock /\ DOMAIN bs = 1 .. Len(bs)
  OBVIOUS
<1>2. r \in BasicBlock /\ r.term = t
  BY <1>1 DEF BasicBlock
<1>3. more = [bs EXCEPT ![b] = r]
  BY <1>1 DEF Closed
<1> HIDE DEF r
<1>4. QED
  BY <1>2, <1>3, ExceptSeq

(* What closes a block is a terminator, and NONE is none. *)
LEMMA Terminators ==
  /\ Ret \in Term
  /\ \A b \in Nat : Br(b) \in Term
  /\ \A b, c \in Nat : CondBr(b, c) \in Term
  /\ NONE \notin Term /\ NONE \notin Nat
BY HLIRAssumption DEF Ret, Br, CondBr, Term

(* One more block. *)
LEMMA AddKeeps ==
  ASSUME NEW bs \in Seq(BasicBlock), NEW more, more = Append(bs, NewBlock)
  PROVE  /\ more \in Seq(BasicBlock) /\ Len(bs) \in Nat /\ Len(more) = Len(bs) + 1
         /\ more[Len(bs) + 1].term = NONE
         /\ \A c \in 1 .. Len(bs) : more[c] = bs[c]
<1>1. NewBlock \in BasicBlock /\ NewBlock.term = NONE
  BY EmptySeq DEF NewBlock, BasicBlock
<1> HIDE DEF NewBlock
<1>2. QED
  BY <1>1, AppendProperties

(* The jumps to exit. *)
LEMMA JoinKeeps ==
  ASSUME blocks \in Seq(BasicBlock), NEW exit \in Nat, NEW branches
  PROVE  LET bs == JoinTo(exit, branches)
         IN  /\ bs \in Seq(BasicBlock) /\ Len(bs) = Len(blocks)
             /\ \A b \in BlockIds :
                  IF b \in branches /\ blocks[b].term = NONE THEN bs[b].term # NONE
                  ELSE bs[b] = blocks[b]
<1> DEFINE bs == JoinTo(exit, branches)
<1>1. \A b \in BlockIds : blocks[b] \in BasicBlock
  BY DEF BlockIds
<1>2. Br(exit) \in Term /\ NONE \notin Term
  BY Terminators
<1>3. \A b \in BlockIds : LET r == [blocks[b] EXCEPT !.term = Br(exit)]
                          IN  r \in BasicBlock /\ r.term = Br(exit)
  BY <1>1, <1>2 DEF BasicBlock
<1>4. /\ DOMAIN bs = BlockIds
      /\ \A b \in BlockIds :
           IF b \in branches /\ blocks[b].term = NONE
           THEN bs[b] \in BasicBlock /\ bs[b].term = Br(exit)
           ELSE bs[b] = blocks[b]
  BY <1>3 DEF JoinTo
<1>5. bs = [b \in BlockIds |-> bs[b]]
  BY DEF JoinTo
<1> HIDE DEF bs
<1>6. bs \in [1 .. Len(blocks) -> BasicBlock] /\ Len(blocks) \in Nat
  BY <1>1, <1>4, <1>5 DEF BlockIds
<1>7. bs \in Seq(BasicBlock) /\ Len(bs) = Len(blocks)
  BY <1>6
<1>8. QED
  BY <1>2, <1>4, <1>7 DEF bs

-----------------------------------------------------------------------------
(* A step does not change a block that has been closed. *)
Final == \A b \in BlockIds : blocks[b].term # NONE => blocks'[b] = blocks[b]

(* A call that is no branch and no loop leaves those that wait. *)
LEMMA PopParked ==
  ASSUME FlatInv, stack # <<>>, ~Parked(Top)
  PROVE  SameParked(stack, Callers)
<1>1. /\ \A j \in DOMAIN Callers : Callers[j] = stack[j] /\ j \in DOMAIN stack
      /\ \A k \in DOMAIN stack : k = Len(stack) \/ k \in DOMAIN Callers
  <2>1. /\ DOMAIN stack = 1 .. Len(stack) /\ DOMAIN Callers = 1 .. Len(Callers)
        /\ Len(Callers) \in Nat /\ Len(Callers) + 1 = Len(stack)
    BY Active
  <2>2. \A j \in DOMAIN Callers : Callers[j] = stack[j]
    BY Active
  <2>3. QED
    BY <2>1, <2>2
<1>2. QED
  BY <1>1 DEF SameParked, Top

(* A statement that starts and is no list: its block is open. *)
LEMMA StartsOpen ==
  ASSUME FlatInv, stack # <<>>, Top.at = "start", Top.proc # "block"
  PROVE  /\ Top.block \in 1 .. Len(blocks) /\ blocks[Top.block].term = NONE
         /\ Current = Top.block /\ Top.block # NONE /\ Top.path \in Seq(Nat)
<1>1. FrameOK(Top) /\ Top \in Frame /\ Laid(stack, blocks, Current)
  BY Active
<1>2. Current = Top.block /\ Top.block # NONE
  BY <1>1 DEF Current, FrameOK
<1>3. QED
  BY <1>1, <1>2 DEF Laid, IsOpen, Frame

(* An expression statement goes into the open block. *)
LEMMA ExpressionKeeps ==
  ASSUME FlatInv, GenerateExpressionStatement
  PROVE  FlatInv' /\ Final
<1>1. /\ stack # <<>> /\ Top.proc = "expr" /\ Top.at = "start"
      /\ blocks' = Emitted(Top.block, Top.path) /\ Return(Top.block)
      /\ UNCHANGED <<body, done>>
  BY DEF GenerateExpressionStatement, Running
<1> DEFINE b == Top.block
<1>2. /\ b \in 1 .. Len(blocks) /\ blocks[b].term = NONE /\ Current = b /\ b # NONE
      /\ Top.path \in Seq(Nat) /\ blocks \in Seq(BasicBlock) /\ Laid(stack, blocks, b)
  BY <1>1, StartsOpen, Active
<1>3. /\ blocks' \in Seq(BasicBlock) /\ SameTerms(blocks, blocks')
      /\ \A c \in BlockIds : c # b => blocks'[c] = blocks[c]
  BY <1>1, <1>2, EmitKeeps
<1>4. stack' = Callers /\ Shape(stack') /\ Current' = b /\ ret' = b
  BY <1>1, ReturnGoesOn
<1>5. SameParked(stack, stack')
  BY <1>1, <1>4, PopParked DEF Parked
<1> HIDE DEF b
<1>6. Laid(stack', blocks', Current')
  BY <1>2, <1>3, <1>4, <1>5, LaidSame
<1>7. ret' \in Nat \cup {NONE}
  BY <1>2, <1>4
<1>8. Final
  BY <1>2, <1>3 DEF Final
<1>9. QED
  BY <1>1, <1>3, <1>4, <1>6, <1>7, <1>8, Assemble

(* A return closes the block it is in; a branch can tell from its terminator *)
(* and no loop is waiting.                                                   *)
LEMMA ReturnKeeps ==
  ASSUME FlatShapes, FlatInv, GenerateReturnStatement
  PROVE  FlatInv' /\ Final
<1> DEFINE b == Top.block
           mid == Emitted(b, Top.path)
<1>1. /\ stack # <<>> /\ Top.proc = "return" /\ Top.at = "start"
      /\ blocks' = Closed(mid, b, Ret) /\ Return(NONE)
      /\ UNCHANGED <<body, done>>
  BY DEF GenerateReturnStatement, Running, Closed
<1>2. /\ b \in 1 .. Len(blocks) /\ blocks[b].term = NONE /\ Current = b /\ b # NONE
      /\ Top.path \in Seq(Nat) /\ blocks \in Seq(BasicBlock) /\ Laid(stack, blocks, b)
  BY <1>1, StartsOpen, Active
<1>3. /\ mid \in Seq(BasicBlock) /\ Len(mid) = Len(blocks)
      /\ \A c \in BlockIds : c # b => mid[c] = blocks[c]
  BY <1>2, EmitKeeps DEF SameTerms
<1> HIDE DEF mid
<1>4. /\ blocks' \in Seq(BasicBlock) /\ Len(blocks') = Len(blocks)
      /\ blocks'[b].term # NONE
      /\ \A c \in BlockIds : c # b => blocks'[c] = blocks[c]
  <2>1. b \in 1 .. Len(mid) /\ Ret \in Term /\ NONE \notin Term
    BY <1>2, <1>3, Terminators
  <2> HIDE DEF b
  <2>2. /\ blocks' \in Seq(BasicBlock) /\ Len(blocks') = Len(mid) /\ blocks'[b].term = Ret
        /\ \A c \in 1 .. Len(mid) : c # b => blocks'[c] = mid[c]
    <3>1. mid \in Seq(BasicBlock) /\ blocks' = Closed(mid, b, Ret)
      BY <1>1, <1>3
    <3>2. QED
      BY <2>1, <3>1, CloseKeeps
  <2>3. QED
    BY <1>3, <2>1, <2>2 DEF BlockIds
<1>5. stack' = Callers /\ Shape(stack') /\ Current' = NONE /\ ret' = NONE
  BY <1>1, ReturnGoesOn
<1>6. SameParked(stack, stack')
  BY <1>1, <1>5, PopParked DEF Parked
<1>7. \A j \in DOMAIN Callers : Callers[j].proc # "while"
  <2>1. Top.node.kind = "return"
    BY <1>1, Active DEF FrameOK
  <2>2. Top.node \notin Straight
    BY <2>1 DEF FlatShapes
  <2>3. QED
    BY <1>1, <2>2, Active DEF Inside
<1> HIDE DEF b
<1>8. \A c : IsOpen(blocks', c) <=> IsOpen(blocks, c) /\ c # b
  BY <1>2, <1>4 DEF IsOpen, BlockIds
<1>9. ASSUME NEW k \in DOMAIN stack', Parked(stack'[k])
      PROVE  Relies(stack'[k], blocks', NONE)
  <2> DEFINE f == stack'[k]
  <2>1. k \in DOMAIN stack /\ stack[k] = f
    BY <1>6, <1>9 DEF SameParked
  <2>2. f.proc = "if"
    BY <1>5, <1>7, <1>9 DEF Parked
  <2>3. Relies(f, blocks, b)
    BY <1>2, <1>9, <2>1 DEF Laid
  <2> HIDE DEF f
  <2>4. f.block # b
    BY <1>2, <2>2, <2>3 DEF Relies
  <2>5. Relies(f, blocks', NONE)
    BY <1>4, <1>8, <2>2, <2>3, <2>4 DEF Relies
  <2>6. QED
    BY <2>5 DEF f
<1>10. Laid(stack', blocks', NONE)
  <2>1. ASSUME NEW c \in 1 .. Len(blocks'), IsOpen(blocks', c)
        PROVE  \E k \in DOMAIN stack' : Parked(stack'[k]) /\ c \in Held(stack'[k])
    <3>1. IsOpen(blocks, c) /\ c # b
      BY <1>8, <2>1
    <3>2. \E k \in DOMAIN stack : Parked(stack[k]) /\ c \in Held(stack[k])
      BY <1>2, <1>4, <3>1 DEF Laid
    <3>3. QED
      BY <1>6, <3>2 DEF SameParked
  <2>2. QED
    BY <1>9, <2>1 DEF Laid
<1>11. Final
  BY <1>2, <1>4 DEF Final
<1>12. QED
  BY <1>1, <1>4, <1>5, <1>10, <1>11, Assemble

(* One child of a list, a declaration or a call, or the end of the list. *)
LEMMA CompoundKeeps ==
  ASSUME FlatShapes, FlatInv, GenerateCompoundStatement
  PROVE  FlatInv' /\ Final
<1> DEFINE b == Top.block
           kids == Top.node.kids
<1>1. /\ stack # <<>> /\ Top.proc = "block" /\ Top.at = "start"
      /\ UNCHANGED <<body, done>>
  BY DEF GenerateCompoundStatement, Running
<1>2. /\ Current = b /\ b \in Nat \cup {NONE}
      /\ blocks \in Seq(BasicBlock) /\ Laid(stack, blocks, b)
      /\ FrameOK(Top) /\ Top \in Frame /\ Top.i \in Nat \ {0} /\ Top.path \in Seq(Nat)
      /\ ret \in Nat \cup {NONE}
  <2>1. Top \in Frame /\ Laid(stack, blocks, Current)
    BY <1>1, Active
  <2>2. Current = b
    BY <1>1 DEF Current
  <2>3. ret \in Nat \cup {NONE}
    BY DEF FlatInv, FlatTypes
  <2>4. QED
    BY <1>1, <2>1, <2>2, <2>3, Active DEF Frame
<1>3. ~Parked(Top)
  BY <1>1 DEF Parked
<1>4. SameTerms(blocks, blocks)
  BY DEF SameTerms
<1>5. CASE b = NONE \/ Top.i > Len(kids)
  <2>1. Return(b) /\ blocks' = blocks
    BY <1>1, <1>5 DEF GenerateCompoundStatement
  <2>2. stack' = Callers /\ Shape(stack') /\ Current' = b /\ ret' = b
    BY <1>1, <2>1, ReturnGoesOn
  <2>3. SameParked(stack, stack')
    BY <1>1, <1>3, <2>2, PopParked
  <2> HIDE DEF b
  <2>4. Laid(stack', blocks', Current')
    BY <1>2, <1>4, <2>1, <2>2, <2>3, LaidSame
  <2>5. QED
    BY <1>1, <1>2, <2>1, <2>2, <2>4, Assemble DEF Final
<1>6. CASE /\ ~(b = NONE \/ Top.i > Len(kids))
           /\ kids[Top.i].kind = "decl"
  <2> DEFINE f == [Top EXCEPT !.i = @ + 1]
             label == Append(Top.path, Top.i)
  <2>1. /\ blocks' = Emitted(b, label) /\ stack' = Append(Callers, f) /\ ret' = ret
    BY <1>1, <1>6 DEF GenerateCompoundStatement
  <2>2. label \in Seq(Nat) /\ b \in 1 .. Len(blocks) /\ blocks[b].term = NONE
    BY <1>2, <1>6, AppendProperties DEF Laid, IsOpen
  <2>3. FrameOK(f) /\ f.node = Top.node /\ f.at = "start" /\ f.block = b /\ ~Parked(f)
    <3> DEFINE j == Top.i + 1
    <3>1. j \in Nat \ {0} /\ f = [Top EXCEPT !.i = j]
      BY <1>2
    <3> HIDE DEF f, j
    <3>2. QED
      BY <1>1, <1>2, <3>1 DEF FrameOK, Frame, Parked
  <2> HIDE DEF f, label
  <2>4. /\ blocks' \in Seq(BasicBlock) /\ SameTerms(blocks, blocks')
        /\ \A c \in BlockIds : c # b => blocks'[c] = blocks[c]
    BY <1>2, <2>1, <2>2, EmitKeeps
  <2>5. /\ Shape(stack') /\ Current' = b
        /\ DOMAIN stack' = DOMAIN stack /\ stack'[Len(stack)] = f
        /\ \A k \in DOMAIN Callers : stack'[k] = stack[k]
    BY <1>1, <2>1, <2>3, TopGoesOn
  <2>6. SameParked(stack, stack')
    <3>1. \A k \in DOMAIN stack : k = Len(stack) \/ k \in DOMAIN Callers
      BY <1>1, Active
    <3>2. QED
      BY <1>3, <2>3, <2>5, <3>1 DEF SameParked, Top
  <2> HIDE DEF b
  <2>7. Laid(stack', blocks', Current')
    BY <1>2, <2>4, <2>5, <2>6, LaidSame
  <2>8. Final
    BY <2>2, <2>4 DEF Final
  <2>9. QED
    BY <1>1, <1>2, <2>1, <2>4, <2>5, <2>7, <2>8, Assemble
<1>7. CASE /\ ~(b = NONE \/ Top.i > Len(kids))
           /\ kids[Top.i].kind # "decl"
  <2> DEFINE f == [Top EXCEPT !.at = "called"]
             kid == kids[Top.i]
             g == Call(kid.kind, kid, Append(Top.path, Top.i), b)
  <2>1. stack' = Callers \o <<f, g>> /\ ret' = ret /\ blocks' = blocks
    <3>1. CallChild(f, Top.i, b) /\ blocks' = blocks
      BY <1>1, <1>7 DEF GenerateCompoundStatement
    <3>2. f.node = Top.node /\ f.path = Top.path
      BY <1>2 DEF Frame
    <3>3. QED
      BY <3>1, <3>2 DEF CallChild
  <2>2. FrameOK(f) /\ f \in Frame /\ f.node = Top.node /\ f.proc = "block" /\ f.at = "called"
    BY <1>1, <1>2 DEF FrameOK, Frame
  <2>3. /\ Top.node.kind = "block"
        /\ Top.node \in Straight => kid \in Straight
        /\ Top.node \in Branches => kid \in Branches
        /\ Top.node \in Statements => kid \in Statements
    <3>1. Top.node.kind = "block"
      BY <1>1, <1>2 DEF FrameOK
    <3>2. ASSUME IsList(kids, Straight) \/ IsList(kids, Branches) \/ IsList(kids, Statements)
          PROVE  Top.i \in 1 .. Len(kids)
      BY <1>2, <1>7, <3>2 DEF IsList
    <3>3. Top.node \in Straight => kid \in Straight
      BY <1>7, <3>1, <3>2 DEF FlatShapes, IsList
    <3>4. Top.node \in Branches => kid \in Branches
      BY <1>7, <3>1, <3>2 DEF FlatShapes, IsList
    <3>5. Top.node \in Statements => kid \in Statements
      BY <1>7, <3>1, <3>2 DEF FlatShapes, IsList
    <3>6. QED
      BY <3>1, <3>3, <3>4, <3>5
  <2>4. kid \in Straight \cup Branches \cup Statements
    BY <1>2, <2>3 DEF Frame
  <2>5. kid.kind \in {"expr", "return", "block", "if", "while"}
    BY <2>4 DEF FlatShapes
  <2>6. FrameOK(g) /\ g \in Frame /\ g.node = kid /\ g.at = "start" /\ g.block = b
    <3>1. Append(Top.path, Top.i) \in Seq(Nat)
      BY <1>2, AppendProperties
    <3> DEFINE p == Append(Top.path, Top.i)
    <3> HIDE DEF kid, p, b
    <3>2. p \in Seq(Nat) /\ b # NONE
      BY <1>7, <3>1 DEF p, b
    <3>3. QED
      BY <1>2, <2>4, <2>5, <3>2 DEF Call, FrameOK, Frame, p
  <2>7. Inside(f, g)
    BY <2>2 DEF Inside
  <2> HIDE DEF f, g, kid, kids
  <2>8. stack' = Pushed(Pushed(Callers, f), g)
    BY <1>1, <2>1, <2>2, <2>6, TwoOnTop, Active
  <2>9. /\ Shape(stack') /\ Current' = b
        /\ DOMAIN stack' = 1 .. Len(stack) + 1
        /\ stack'[Len(stack)] = f /\ stack'[Len(stack) + 1] = g
        /\ \A k \in DOMAIN Callers : stack'[k] = stack[k]
    BY <1>1, <2>2, <2>3, <2>6, <2>7, <2>8, CallGoesOn
  <2>10. SameParked(stack, stack')
    <3>1. /\ \A k \in DOMAIN stack : k = Len(stack) \/ k \in DOMAIN Callers
          /\ \A k \in DOMAIN stack' : k = Len(stack) + 1 \/ k = Len(stack) \/ k \in DOMAIN Callers
          /\ \A k \in DOMAIN Callers : k \in DOMAIN stack /\ k \in DOMAIN stack'
      <4>1. /\ DOMAIN stack = 1 .. Len(stack) /\ DOMAIN Callers = 1 .. Len(Callers)
            /\ Len(Callers) \in Nat /\ Len(Callers) + 1 = Len(stack)
        BY <1>1, Active
      <4>2. QED
        BY <2>9, <4>1
    <3>2. ~Parked(f) /\ ~Parked(g)
      BY <2>2, <2>6 DEF Parked
    <3>3. QED
      BY <1>3, <2>9, <3>1, <3>2 DEF SameParked, Top
  <2> HIDE DEF b
  <2>11. Laid(stack', blocks', Current')
    BY <1>2, <1>4, <2>1, <2>9, <2>10, LaidSame
  <2>12. QED
    BY <1>1, <1>2, <2>1, <2>9, <2>11, Assemble DEF Final
<1>8. QED
  BY <1>5, <1>6, <1>7

(* Behind the call for a child the list goes on in the block it returned. *)
LEMMA ContinueKeeps ==
  ASSUME FlatInv, ContinueCompoundStatement
  PROVE  FlatInv' /\ Final
<1> DEFINE f == [Top EXCEPT !.at = "start", !.i = @ + 1, !.block = ret]
<1>1. /\ stack # <<>> /\ Top.proc = "block" /\ Top.at = "called"
      /\ stack' = Append(Callers, f) /\ UNCHANGED <<body, blocks, ret, done>>
  BY DEF ContinueCompoundStatement, Running
<1>2. /\ Current = ret /\ blocks \in Seq(BasicBlock) /\ Laid(stack, blocks, ret)
      /\ FrameOK(Top) /\ Top \in Frame /\ ret \in Nat \cup {NONE}
  <2>1. Laid(stack, blocks, Current) /\ FrameOK(Top) /\ Top \in Frame
    BY <1>1, Active
  <2>2. Current = ret
    BY <1>1 DEF Current
  <2>3. ret \in Nat \cup {NONE} /\ blocks \in Seq(BasicBlock)
    BY DEF FlatInv, FlatTypes
  <2>4. QED
    BY <2>1, <2>2, <2>3
<1>3. FrameOK(f) /\ f.node = Top.node /\ f.at = "start" /\ f.block = ret /\ f.proc = "block"
  <2> DEFINE j == Top.i + 1
  <2>1. j \in Nat \ {0}
    BY <1>2 DEF Frame
  <2>2. f = [Top EXCEPT !.at = "start", !.i = j, !.block = ret]
    OBVIOUS
  <2> HIDE DEF f, j
  <2>3. QED
    BY <1>1, <1>2, <2>1, <2>2 DEF FrameOK, Frame
<1> HIDE DEF f
<1>4. /\ Shape(stack') /\ Current' = ret
      /\ DOMAIN stack' = DOMAIN stack /\ stack'[Len(stack)] = f
      /\ \A k \in DOMAIN Callers : stack'[k] = stack[k]
  BY <1>1, <1>3, TopGoesOn
<1>5. SameParked(stack, stack')
  <2>1. \A k \in DOMAIN stack : k = Len(stack) \/ k \in DOMAIN Callers
    BY <1>1, Active
  <2>2. ~Parked(Top) /\ ~Parked(f)
    BY <1>1, <1>3 DEF Parked
  <2>3. QED
    BY <1>4, <2>1, <2>2 DEF SameParked, Top
<1>6. SameTerms(blocks, blocks')
  BY <1>1 DEF SameTerms
<1>7. Laid(stack', blocks', Current')
  BY <1>2, <1>4, <1>5, <1>6, LaidSame
<1>8. QED
  BY <1>1, <1>2, <1>4, <1>7, Assemble DEF Final

-----------------------------------------------------------------------------
(* Where a branch or a loop is at work, nothing else waits. *)
LEMMA TopBranch ==
  ASSUME FlatShapes, FlatInv, stack # <<>>, Top.proc \in {"if", "while"}
  PROVE  /\ Top.node \in Statements /\ Top.node.kind = Top.proc
         /\ Top.node \notin Straight /\ Top.node \notin Branches
         /\ \A j \in DOMAIN Callers : Callers[j].proc = "block"
         /\ \A k \in DOMAIN stack : Parked(stack[k]) => k = Len(stack)
<1>1. /\ Shape(stack) /\ Len(stack) \in DOMAIN stack /\ FrameOK(Top)
      /\ DOMAIN stack = 1 .. Len(stack) /\ Len(stack) \in Nat \ {0}
  BY Active
<1>2. /\ Top.node \in Statements
      /\ \A j \in 1 .. Len(stack) - 1 : stack[j].proc = "block" /\ stack[j].at # "start"
  BY <1>1, BranchBelowLists DEF Top
<1>3. /\ Top.node.kind = Top.proc
      /\ Top.node \notin Straight /\ Top.node \notin Branches
  BY <1>1 DEF FrameOK, FlatShapes
<1>4. \A j \in DOMAIN Callers : Callers[j] = stack[j] /\ j \in 1 .. Len(stack) - 1
  <2>1. /\ DOMAIN Callers = 1 .. Len(Callers) /\ Len(Callers) \in Nat
        /\ Len(Callers) + 1 = Len(stack)
    BY Active
  <2>2. \A j \in DOMAIN Callers : Callers[j] = stack[j]
    BY Active
  <2>3. QED
    BY <2>1, <2>2
<1>5. \A k \in DOMAIN stack : k = Len(stack) \/ k \in 1 .. Len(stack) - 1
  BY <1>1
<1>6. QED
  BY <1>2, <1>3, <1>4, <1>5 DEF Parked

(* A branch or a loop that starts: its block is the only open one. *)
LEMMA BranchStarts ==
  ASSUME FlatShapes, FlatInv, stack # <<>>, Top.proc \in {"if", "while"}, Top.at = "start"
  PROVE  \A c : IsOpen(blocks, c) <=> c = Top.block
<1>1. /\ Top.block \in 1 .. Len(blocks) /\ blocks[Top.block].term = NONE
      /\ Current = Top.block /\ Laid(stack, blocks, Current)
  BY StartsOpen, Active
<1>2. \A k \in DOMAIN stack : ~Parked(stack[k])
  BY TopBranch DEF Parked, Top
<1>3. QED
  BY <1>1, <1>2 DEF Laid, IsOpen

(* A branch or a loop, now f, calls g for what it contains. *)
LEMMA BranchCalls ==
  ASSUME FlatShapes, FlatInv, stack # <<>>, Top.proc \in {"if", "while"},
         NEW f, NEW g, FrameOK(f), f.node = Top.node, f.proc = Top.proc, f.at # "start",
         FrameOK(g), g.at = "start", Inside(f, g),
         stack' = Pushed(Pushed(Callers, f), g),
         NEW bs, IsOpen(bs, g.block), Relies(f, bs, g.block),
         \A c : IsOpen(bs, c) => c = g.block \/ c \in Held(f)
  PROVE  Shape(stack') /\ Current' = g.block /\ Laid(stack', bs, g.block)
<1>1. /\ Top.node \notin Straight /\ Top.node \notin Branches
      /\ f.proc # "block" /\ Parked(f) /\ ~Parked(g)
  BY TopBranch DEF Parked
<1>2. /\ Shape(stack') /\ Current' = g.block
      /\ DOMAIN stack' = 1 .. Len(stack) + 1
      /\ stack'[Len(stack)] = f /\ stack'[Len(stack) + 1] = g
      /\ \A k \in DOMAIN Callers : stack'[k] = stack[k]
  BY <1>1, CallGoesOn
<1>3. /\ \A k \in DOMAIN stack' : k = Len(stack) + 1 \/ k = Len(stack) \/ k \in DOMAIN Callers
      /\ Len(stack) \in DOMAIN stack'
  <2>1. /\ DOMAIN Callers = 1 .. Len(Callers)
        /\ Len(Callers) \in Nat /\ Len(Callers) + 1 = Len(stack)
    BY Active
  <2>2. QED
    BY <1>2, <2>1
<1>4. \A k \in DOMAIN Callers : ~Parked(stack[k])
  BY TopBranch, Active DEF Parked
<1>5. \A k \in DOMAIN stack' : Parked(stack'[k]) => stack'[k] = f
  BY <1>1, <1>2, <1>3, <1>4
<1>6. Laid(stack', bs, g.block)
  BY <1>1, <1>2, <1>3, <1>5 DEF Laid
<1>7. QED
  BY <1>2, <1>6

(* The call for the k-th child of a branch or a loop. *)
LEMMA ChildCall ==
  ASSUME FlatShapes, FlatInv, stack # <<>>, Top.proc \in {"if", "while"},
         NEW k \in Nat,
         Top.proc = "if" => k \in 1 .. Len(Top.node.kids),
         Top.proc = "while" => k = 1,
         NEW b \in Nat, NEW f, f.node = Top.node, f.proc = Top.proc, f.at # "start",
         NEW g, g = Call(Top.node.kids[k].kind, Top.node.kids[k], Append(Top.path, k), b)
  PROVE  FrameOK(g) /\ g \in Frame /\ g.at = "start" /\ g.block = b /\ Inside(f, g)
<1> DEFINE kid == Top.node.kids[k]
           p == Append(Top.path, k)
<1>1. /\ Top.proc = "if" => kid \in Branches
      /\ Top.proc = "while" => kid \in Straight
  BY TopBranch DEF FlatShapes
<1>2. kid.kind \in {"expr", "return", "block"}
  BY <1>1 DEF FlatShapes
<1>3. p \in Seq(Nat) /\ b # NONE
  <2>1. Top.path \in Seq(Nat)
    BY Active DEF Frame
  <2>2. QED
    BY <2>1, AppendProperties, Terminators
<1> HIDE DEF kid, p
<1>4. g = Call(kid.kind, kid, p, b)
  BY DEF kid, p
<1>5. FrameOK(g) /\ g \in Frame /\ g.at = "start" /\ g.block = b /\ g.node = kid
  <2>1. kid \in Straight \cup Branches \cup Statements
    BY <1>1
  <2>2. g = [proc |-> kid.kind, at |-> "start", node |-> kid, path |-> p, block |-> b,
             i |-> 1, first |-> NONE, second |-> NONE]
    BY <1>4 DEF Call
  <2>3. g \in Frame
    BY <1>2, <1>3, <2>1, <2>2 DEF Frame
  <2>4. QED
    BY <1>3, <2>2, <2>3 DEF FrameOK
<1>6. QED
  BY <1>1, <1>5 DEF Inside

(* The true block is new; the block of the branch stays open for the jump.   *)
LEMMA IfKeeps ==
  ASSUME FlatShapes, FlatInv, GenerateIfStatement
  PROVE  FlatInv' /\ Final
<1> DEFINE b == Top.block
           t == Len(blocks) + 1
           mid == Emitted(b, Top.path)
           f == [Top EXCEPT !.at = "then", !.first = t]
           g == Call(Top.node.kids[1].kind, Top.node.kids[1], Append(Top.path, 1), t)
<1>1. /\ stack # <<>> /\ Top.proc = "if" /\ Top.at = "start"
      /\ blocks' = Append(mid, NewBlock) /\ CallChild(f, 1, t)
      /\ UNCHANGED <<body, done>>
  BY DEF GenerateIfStatement, Running
<1>2. /\ b \in 1 .. Len(blocks) /\ blocks[b].term = NONE /\ Top.path \in Seq(Nat)
      /\ blocks \in Seq(BasicBlock) /\ FrameOK(Top) /\ Top \in Frame
      /\ Len(blocks) \in Nat /\ t \in Nat
  BY <1>1, StartsOpen, Active
<1>3. /\ mid \in Seq(BasicBlock) /\ SameTerms(blocks, mid)
      /\ \A c \in BlockIds : c # b => mid[c] = blocks[c]
  BY <1>2, EmitKeeps
<1>4. FrameOK(f) /\ f \in Frame /\ f.node = Top.node /\ f.proc = "if" /\ f.at = "then"
      /\ f.block = b /\ f.first = t /\ f.second = NONE /\ f.path = Top.path
  BY <1>1, <1>2 DEF FrameOK, Frame
<1>5. stack' = Callers \o <<f, g>> /\ ret' = ret
  BY <1>1, <1>4 DEF CallChild
<1> HIDE DEF mid, f
<1>6. 1 \in 1 .. Len(Top.node.kids)
  <2>1. Top.node \in Statements /\ Top.node.kind = "if"
    BY <1>1, TopBranch
  <2>2. Len(Top.node.kids) \in {1, 2}
    BY <2>1 DEF FlatShapes
  <2>3. \A k \in {1, 2} : 1 \in 1 .. k
    OBVIOUS
  <2>4. QED
    BY <2>2, <2>3
<1>7. FrameOK(g) /\ g \in Frame /\ g.at = "start" /\ g.block = t /\ Inside(f, g)
  BY <1>1, <1>2, <1>4, <1>6, ChildCall
<1> HIDE DEF g
<1>8. stack' = Pushed(Pushed(Callers, f), g)
  BY <1>1, <1>4, <1>5, <1>7, TwoOnTop, Active
<1>9. /\ blocks' \in Seq(BasicBlock) /\ Len(blocks') = t /\ blocks'[t].term = NONE
      /\ \A c \in 1 .. Len(blocks) : blocks'[c] = mid[c]
  BY <1>1, <1>3, AddKeeps DEF SameTerms
<1>10. \A c : IsOpen(blocks', c) <=> c = t \/ c = b
  <2>1. \A c : IsOpen(blocks, c) <=> c = b
    BY <1>1, BranchStarts
  <2> HIDE DEF b
  <2>2. /\ t \in 1 .. t /\ \A c \in 1 .. t : c = t \/ c \in 1 .. Len(blocks)
        /\ \A c \in 1 .. Len(blocks) : c \in 1 .. t
    BY <1>2
  <2>3. \A c \in 1 .. Len(blocks) : blocks'[c].term = blocks[c].term
    BY <1>3, <1>9 DEF SameTerms
  <2> HIDE DEF t
  <2>4. QED
    BY <1>9, <2>1, <2>2, <2>3 DEF IsOpen
<1>11. b # t /\ t \in 1 .. t
  BY <1>2
<1> HIDE DEF b, t
<1>12. Relies(f, blocks', t) /\ Held(f) = {b, t, NONE}
  BY <1>4, <1>9, <1>10, <1>11 DEF Relies, Held
<1>13. Shape(stack') /\ Current' = t /\ Laid(stack', blocks', t)
  BY <1>1, <1>4, <1>7, <1>8, <1>10, <1>12, BranchCalls
<1>14. Final
  BY <1>2, <1>3, <1>9 DEF Final, BlockIds
<1>15. ret' \in Nat \cup {NONE}
  BY <1>5 DEF FlatInv, FlatTypes
<1>16. QED
  BY <1>1, <1>9, <1>13, <1>14, <1>15, Assemble

(* The false block is new too. *)
LEMMA ElseKeeps ==
  ASSUME FlatShapes, FlatInv, GenerateElse
  PROVE  FlatInv' /\ Final
<1> DEFINE t == Len(blocks) + 1
           f == [Top EXCEPT !.at = "else", !.second = t]
           g == Call(Top.node.kids[2].kind, Top.node.kids[2], Append(Top.path, 2), t)
<1>1. /\ stack # <<>> /\ Top.proc = "if" /\ Top.at = "then"
      /\ blocks' = Append(blocks, NewBlock) /\ CallChild(f, 2, t)
      /\ Len(Top.node.kids) = 2 /\ UNCHANGED <<body, done>>
  BY DEF GenerateElse, Running
<1>2. /\ blocks \in Seq(BasicBlock) /\ FrameOK(Top) /\ Top \in Frame
      /\ Len(blocks) \in Nat /\ t \in Nat /\ Laid(stack, blocks, Current)
      /\ Len(stack) \in DOMAIN stack
  BY <1>1, Active
<1>3. FrameOK(f) /\ f \in Frame /\ f.node = Top.node /\ f.proc = "if" /\ f.at = "else"
      /\ f.block = Top.block /\ f.first = Top.first /\ f.second = t /\ f.path = Top.path
  BY <1>1, <1>2 DEF FrameOK, Frame
<1>4. stack' = Callers \o <<f, g>> /\ ret' = ret
  BY <1>1, <1>3 DEF CallChild
<1> HIDE DEF f
<1>5. FrameOK(g) /\ g \in Frame /\ g.at = "start" /\ g.block = t /\ Inside(f, g)
  <2>1. 2 \in 1 .. Len(Top.node.kids)
    BY <1>1
  <2>2. QED
    BY <1>1, <1>2, <1>3, <2>1, ChildCall
<1> HIDE DEF g
<1>6. stack' = Pushed(Pushed(Callers, f), g)
  BY <1>1, <1>3, <1>4, <1>5, TwoOnTop, Active
<1>7. /\ blocks' \in Seq(BasicBlock) /\ Len(blocks') = t /\ blocks'[t].term = NONE
      /\ \A c \in 1 .. Len(blocks) : blocks'[c] = blocks[c]
  BY <1>1, <1>2, AddKeeps
<1>8. /\ t \in 1 .. t /\ \A c \in 1 .. t : c = t \/ c \in 1 .. Len(blocks)
      /\ \A c \in 1 .. Len(blocks) : c \in 1 .. t /\ c # t
  BY <1>2
<1> HIDE DEF t
<1>9. \A c : IsOpen(blocks', c) <=> c = t \/ IsOpen(blocks, c)
  BY <1>7, <1>8 DEF IsOpen
<1>10. Relies(Top, blocks, Current)
  BY <1>1, <1>2 DEF Laid, Parked, Top
<1>11. /\ IsOpen(blocks, Top.block) /\ Top.block \in 1 .. Len(blocks)
       /\ Top.first \in 1 .. Len(blocks) \ {Top.block}
       /\ Top.second = NONE /\ Current \in {Top.first, NONE}
  BY <1>1, <1>10 DEF Relies, IsOpen
<1>12. \A c : IsOpen(blocks, c) => c \in {Top.block, Top.first}
  <2>1. \A k \in DOMAIN stack : Parked(stack[k]) => stack[k] = Top
    BY <1>1, TopBranch DEF Top
  <2>2. ASSUME NEW c, IsOpen(blocks, c) PROVE c \in {Current} \cup Held(Top)
    BY <1>2, <2>1, <2>2 DEF Laid, IsOpen
  <2>3. \A c : IsOpen(blocks, c) => c # NONE
    BY <1>2, Terminators DEF IsOpen
  <2>4. QED
    BY <1>1, <1>11, <2>2, <2>3 DEF Held
<1>13. Relies(f, blocks', t)
  BY <1>3, <1>7, <1>8, <1>9, <1>11 DEF Relies
<1>14. \A c : IsOpen(blocks', c) => c = t \/ c \in Held(f)
  BY <1>3, <1>9, <1>12 DEF Held
<1>15. Shape(stack') /\ Current' = t /\ Laid(stack', blocks', t)
  BY <1>1, <1>3, <1>5, <1>6, <1>9, <1>13, <1>14, BranchCalls
<1>16. ret' \in Nat \cup {NONE}
  BY <1>4 DEF FlatInv, FlatTypes
<1>17. Final
  BY <1>7 DEF Final, BlockIds
<1>18. QED
  BY <1>1, <1>7, <1>15, <1>16, <1>17, Assemble

(* Nothing waits where a branch or a loop has returned, and only the block   *)
(* it returned is open.                                                      *)
LEMMA BranchReturns ==
  ASSUME FlatShapes, FlatInv, stack # <<>>, Top.proc \in {"if", "while"},
         NEW exit, Return(exit), NEW bs, \A c : IsOpen(bs, c) <=> c = exit
  PROVE  Shape(stack') /\ Current' = exit /\ ret' = exit /\ Laid(stack', bs, exit)
<1>1. stack' = Callers /\ Shape(stack') /\ Current' = exit /\ ret' = exit
  BY ReturnGoesOn
<1>2. \A j \in DOMAIN Callers : ~Parked(Callers[j])
  BY TopBranch DEF Parked
<1>3. Laid(stack', bs, exit)
  BY <1>1, <1>2 DEF Laid
<1>4. QED
  BY <1>1, <1>3

(* What contains no branch and no loop has left one block open at most, and  *)
(* that one is joined.                                                       *)
LEMMA FinishIfKeeps ==
  ASSUME FlatShapes, FlatInv, FinishIfStatement
  PROVE  FlatInv' /\ Final
<1> DEFINE b == Top.block
           n == Len(blocks)
           exit == n + 1
           no_else == Len(Top.node.kids) = 1
           false_block == IF no_else THEN exit ELSE Top.second
           branches == {Top.first, Top.second}
           joined == JoinTo(exit, branches)
           closed == Closed(joined, b, CondBr(Top.first, false_block))
<1>1. /\ stack # <<>> /\ Top.proc = "if" /\ Top.at = IF no_else THEN "then" ELSE "else"
      /\ blocks' = Append(closed, NewBlock) /\ Return(exit) /\ UNCHANGED <<body, done>>
  BY DEF FinishIfStatement, Running, Closed
<1>2. /\ blocks \in Seq(BasicBlock) /\ n \in Nat /\ exit \in Nat
      /\ Laid(stack, blocks, Current) /\ Len(stack) \in DOMAIN stack
  BY <1>1, Active
<1>3. Relies(Top, blocks, Current)
  BY <1>1, <1>2 DEF Laid, Parked, Top
<1>4. /\ b \in 1 .. n /\ blocks[b].term = NONE
      /\ Top.first \in 1 .. n /\ Top.first # b
      /\ Top.second # b /\ Current \in {Top.first, Top.second, NONE}
      /\ ~no_else => Top.second \in 1 .. n
  <2>1. NONE \notin Nat
    BY Terminators
  <2>2. QED
    BY <1>1, <1>2, <1>3, <2>1 DEF Relies, IsOpen
<1>5. \A c : IsOpen(blocks, c) => c \in {b} \cup branches
  <2>1. \A k \in DOMAIN stack : Parked(stack[k]) => stack[k] = Top
    BY <1>1, TopBranch DEF Top
  <2>2. ASSUME NEW c, IsOpen(blocks, c) PROVE c \in {Current} \cup Held(Top)
    BY <1>2, <2>1, <2>2 DEF Laid, IsOpen
  <2>3. \A c : IsOpen(blocks, c) => c # NONE
    BY <1>2, Terminators DEF IsOpen
  <2>4. QED
    BY <1>1, <1>4, <2>2, <2>3 DEF Held
<1>6. CondBr(Top.first, false_block) \in Term
  <2>1. Top.first \in Nat /\ false_block \in Nat
    BY <1>2, <1>4
  <2>2. QED
    BY <2>1, Terminators
<1> DEFINE t == CondBr(Top.first, false_block)
<1> HIDE DEF t, false_block, exit, branches, no_else
<1>7. /\ joined \in Seq(BasicBlock) /\ Len(joined) = n
      /\ \A c \in 1 .. n : IF c \in branches /\ blocks[c].term = NONE
                           THEN joined[c].term # NONE ELSE joined[c] = blocks[c]
  BY <1>2, JoinKeeps DEF BlockIds
<1> HIDE DEF joined, b
<1>8. /\ closed \in Seq(BasicBlock) /\ Len(closed) = n /\ closed[b].term # NONE
      /\ \A c \in 1 .. n : c # b => closed[c] = joined[c]
  <2>1. b \in 1 .. Len(joined) /\ t \in Term /\ NONE \notin Term /\ closed = Closed(joined, b, t)
    BY <1>4, <1>6, <1>7, Terminators DEF t
  <2> HIDE DEF closed
  <2>2. /\ closed \in Seq(BasicBlock) /\ Len(closed) = Len(joined) /\ closed[b].term = t
        /\ \A c \in 1 .. Len(joined) : c # b => closed[c] = joined[c]
    <3>1. joined \in Seq(BasicBlock)
      BY <1>7
    <3>2. QED
      BY <2>1, <3>1, CloseKeeps
  <2>3. QED
    BY <1>7, <2>1, <2>2
<1> HIDE DEF closed
<1>9. /\ blocks' \in Seq(BasicBlock) /\ Len(blocks') = exit /\ blocks'[exit].term = NONE
      /\ \A c \in 1 .. n : blocks'[c] = closed[c]
  BY <1>1, <1>8, AddKeeps DEF exit
<1>10. /\ exit \in 1 .. exit /\ \A c \in 1 .. exit : c = exit \/ c \in 1 .. n
  BY <1>2 DEF exit
<1>11. \A c \in 1 .. n : blocks'[c].term # NONE
  <2>1. ASSUME NEW c \in 1 .. n, c # b, blocks[c].term = NONE PROVE c \in branches
    BY <1>5, <2>1 DEF IsOpen
  <2>2. QED
    BY <1>7, <1>8, <1>9, <2>1
<1>12. \A c : IsOpen(blocks', c) <=> c = exit
  BY <1>9, <1>10, <1>11 DEF IsOpen
<1>13. Shape(stack') /\ Current' = exit /\ ret' = exit /\ Laid(stack', blocks', exit)
  BY <1>1, <1>12, BranchReturns
<1>14. Final
  BY <1>4, <1>7, <1>8, <1>9 DEF Final, BlockIds
<1>15. QED
  BY <1>1, <1>2, <1>9, <1>13, <1>14, Assemble

(* The block before a loop is closed; its body and its exit are new.         *)
LEMMA WhileKeeps ==
  ASSUME FlatShapes, FlatInv, GenerateWhileStatement
  PROVE  FlatInv' /\ Final
<1> DEFINE b == Top.block
           n == Len(blocks)
           loop == n + 1
           exit == n + 2
           mid == Emitted(b, Top.path)
           closed == Closed(mid, b, CondBr(loop, exit))
           one == Append(closed, NewBlock)
           f == [Top EXCEPT !.at = "body", !.first = loop, !.second = exit]
           g == Call(Top.node.kids[1].kind, Top.node.kids[1], Append(Top.path, 1), loop)
<1>1. /\ stack # <<>> /\ Top.proc = "while" /\ Top.at = "start"
      /\ blocks' = closed \o <<NewBlock, NewBlock>> /\ CallChild(f, 1, loop)
      /\ UNCHANGED <<body, done>>
  BY DEF GenerateWhileStatement, Running, Closed
<1>2. /\ b \in 1 .. n /\ blocks[b].term = NONE /\ Top.path \in Seq(Nat)
      /\ blocks \in Seq(BasicBlock) /\ FrameOK(Top) /\ Top \in Frame
      /\ n \in Nat /\ loop \in Nat /\ exit \in Nat
  BY <1>1, StartsOpen, Active
<1>3. /\ mid \in Seq(BasicBlock) /\ Len(mid) = n
      /\ \A c \in 1 .. n : c # b => mid[c] = blocks[c]
  BY <1>2, EmitKeeps DEF SameTerms, BlockIds
<1>4. CondBr(loop, exit) \in Term /\ NONE \notin Term /\ NONE \notin Nat
  BY <1>2, Terminators
<1>5. FrameOK(f) /\ f \in Frame /\ f.node = Top.node /\ f.proc = "while" /\ f.at = "body"
      /\ f.first = loop /\ f.second = exit /\ f.path = Top.path
  BY <1>1, <1>2 DEF FrameOK, Frame
<1>6. stack' = Callers \o <<f, g>> /\ ret' = ret
  BY <1>1, <1>5 DEF CallChild
<1> HIDE DEF f
<1>7. FrameOK(g) /\ g \in Frame /\ g.at = "start" /\ g.block = loop /\ Inside(f, g)
  BY <1>1, <1>2, <1>5, ChildCall
<1> HIDE DEF g
<1>8. stack' = Pushed(Pushed(Callers, f), g)
  BY <1>1, <1>5, <1>6, <1>7, TwoOnTop, Active
<1>9. /\ loop \in 1 .. loop /\ loop + 1 = exit /\ exit \in 1 .. exit /\ loop \in 1 .. exit
      /\ loop # exit
      /\ \A c \in 1 .. exit : c = exit \/ c = loop \/ c \in 1 .. n
      /\ \A c \in 1 .. n : c \in 1 .. loop
  <2>1. n \in Nat
    BY <1>2
  <2> HIDE DEF n
  <2>2. loop \in 1 .. loop /\ loop + 1 = exit /\ exit \in 1 .. exit
    BY <2>1
  <2>3. loop \in 1 .. exit /\ loop # exit
    BY <2>1
  <2>4. \A c \in 1 .. exit : c = exit \/ c = loop \/ c \in 1 .. n
    BY <2>1
  <2>5. \A c \in 1 .. n : c \in 1 .. loop
    BY <2>1
  <2>6. QED
    BY <2>2, <2>3, <2>4, <2>5
<1> DEFINE t == CondBr(loop, exit)
<1> HIDE DEF t, mid, b
<1>10. /\ closed \in Seq(BasicBlock) /\ Len(closed) = n /\ closed[b].term # NONE
       /\ \A c \in 1 .. n : c # b => closed[c] = mid[c]
  <2>1. b \in 1 .. Len(mid) /\ t \in Term /\ closed = Closed(mid, b, t)
    BY <1>2, <1>3, <1>4 DEF t
  <2> HIDE DEF closed
  <2>2. /\ closed \in Seq(BasicBlock) /\ Len(closed) = Len(mid) /\ closed[b].term = t
        /\ \A c \in 1 .. Len(mid) : c # b => closed[c] = mid[c]
    <3>1. mid \in Seq(BasicBlock)
      BY <1>3
    <3>2. QED
      BY <2>1, <3>1, CloseKeeps
  <2>3. QED
    BY <1>3, <1>4, <2>1, <2>2
<1> HIDE DEF closed
<1>11. /\ one \in Seq(BasicBlock) /\ Len(one) = loop /\ one[loop].term = NONE
       /\ \A c \in 1 .. n : one[c] = closed[c]
  <2>1. closed \in Seq(BasicBlock) /\ one = Append(closed, NewBlock)
    BY <1>10
  <2> HIDE DEF one
  <2>2. /\ one \in Seq(BasicBlock) /\ Len(one) = Len(closed) + 1
        /\ one[Len(closed) + 1].term = NONE
        /\ \A c \in 1 .. Len(closed) : one[c] = closed[c]
    BY <2>1, AddKeeps
  <2>3. QED
    BY <1>10, <2>2
<1>12. blocks' = Append(one, NewBlock)
  <2>1. NewBlock \in BasicBlock
    BY EmptySeq DEF NewBlock, BasicBlock
  <2> HIDE DEF NewBlock
  <2>2. closed \o <<NewBlock, NewBlock>> = Append(Append(closed, NewBlock), NewBlock)
    BY <1>10, <2>1
  <2>3. QED
    BY <1>1, <2>2
<1> HIDE DEF one, loop
<1>13. /\ blocks' \in Seq(BasicBlock) /\ Len(blocks') = exit /\ blocks'[exit].term = NONE
       /\ \A c \in 1 .. loop : blocks'[c] = one[c]
  BY <1>9, <1>11, <1>12, AddKeeps
<1> HIDE DEF exit
<1>14. \A c \in 1 .. n : blocks'[c] = closed[c]
  BY <1>9, <1>11, <1>13
<1>15. \A c \in 1 .. n : blocks'[c].term # NONE
  <2>1. \A c \in 1 .. n : c # b => blocks[c].term # NONE
    BY <1>1, BranchStarts DEF IsOpen, b
  <2>2. QED
    BY <1>3, <1>10, <1>14, <2>1
<1>16. \A c : IsOpen(blocks', c) <=> c = loop \/ c = exit
  <2>1. blocks'[loop].term = NONE
    BY <1>9, <1>11, <1>13
  <2>2. QED
    BY <1>9, <1>13, <1>15, <2>1 DEF IsOpen
<1>17. Relies(f, blocks', loop) /\ Held(f) = {loop, exit}
  BY <1>2, <1>4, <1>5, <1>9, <1>16 DEF Relies, Held
<1>18. Shape(stack') /\ Current' = loop /\ Laid(stack', blocks', loop)
  BY <1>1, <1>5, <1>7, <1>8, <1>16, <1>17, BranchCalls
<1>19. ret' \in Nat \cup {NONE}
  BY <1>6 DEF FlatInv, FlatTypes
<1>20. Final
  BY <1>2, <1>3, <1>10, <1>14 DEF Final, BlockIds
<1>21. QED
  BY <1>1, <1>13, <1>18, <1>19, <1>20, Assemble

(* The body of the loop is still in its first block. *)
LEMMA FinishWhileKeeps ==
  ASSUME FlatShapes, FlatInv, FinishWhileStatement
  PROVE  FlatInv' /\ Final
<1> DEFINE b == Top.first
           n == Len(blocks)
           exit == Top.second
           mid == Emitted(b, Top.path)
           t == CondBr(b, exit)
<1>1. /\ stack # <<>> /\ Top.proc = "while" /\ Top.at = "body"
      /\ blocks' = Closed(mid, b, t) /\ Return(exit) /\ UNCHANGED <<body, done>>
  BY DEF FinishWhileStatement, Running, Closed
<1>2. /\ blocks \in Seq(BasicBlock) /\ n \in Nat
      /\ Laid(stack, blocks, Current) /\ Len(stack) \in DOMAIN stack /\ Top \in Frame
  BY <1>1, Active
<1>3. Relies(Top, blocks, Current)
  BY <1>1, <1>2 DEF Laid, Parked, Top
<1>4. /\ b \in 1 .. n /\ blocks[b].term = NONE
      /\ exit \in 1 .. n /\ blocks[exit].term = NONE /\ exit # b
      /\ Top.path \in Seq(Nat)
  BY <1>1, <1>2, <1>3 DEF Relies, IsOpen, Laid, Frame
<1>5. \A c : IsOpen(blocks, c) => c = b \/ c = exit
  <2>1. \A k \in DOMAIN stack : Parked(stack[k]) => stack[k] = Top
    BY <1>1, TopBranch DEF Top
  <2>2. ASSUME NEW c, IsOpen(blocks, c) PROVE c \in {Current} \cup Held(Top)
    BY <1>2, <2>1, <2>2 DEF Laid, IsOpen
  <2>3. Current = b
    BY <1>1, <1>3 DEF Relies
  <2>4. QED
    BY <1>1, <2>2, <2>3 DEF Held
<1>6. t \in Term /\ NONE \notin Term
  <2>1. b \in Nat /\ exit \in Nat
    BY <1>2, <1>4
  <2>2. QED
    BY <2>1, Terminators
<1>7. /\ mid \in Seq(BasicBlock) /\ Len(mid) = n
      /\ \A c \in 1 .. n : mid[c].term = blocks[c].term /\ (c # b => mid[c] = blocks[c])
  BY <1>2, <1>4, EmitKeeps DEF SameTerms, BlockIds
<1> HIDE DEF t, mid, b, exit
<1>8. /\ blocks' \in Seq(BasicBlock) /\ Len(blocks') = n /\ blocks'[b].term = t
      /\ \A c \in 1 .. n : c # b => blocks'[c] = mid[c]
  <2>1. b \in 1 .. Len(mid) /\ mid \in Seq(BasicBlock) /\ blocks' = Closed(mid, b, t)
    BY <1>1, <1>4, <1>7
  <2>2. /\ blocks' \in Seq(BasicBlock) /\ Len(blocks') = Len(mid) /\ blocks'[b].term = t
        /\ \A c \in 1 .. Len(mid) : c # b => blocks'[c] = mid[c]
    BY <1>6, <2>1, CloseKeeps
  <2>3. QED
    BY <1>7, <2>2
<1>9. \A c : IsOpen(blocks', c) <=> c = exit
  BY <1>4, <1>5, <1>6, <1>7, <1>8 DEF IsOpen
<1>10. Shape(stack') /\ Current' = exit /\ ret' = exit /\ Laid(stack', blocks', exit)
  BY <1>1, <1>9, BranchReturns
<1>11. Final
  BY <1>4, <1>7, <1>8 DEF Final, BlockIds
<1>12. ret' \in Nat \cup {NONE}
  BY <1>2, <1>4, <1>10
<1>13. QED
  BY <1>1, <1>8, <1>10, <1>11, <1>12, Assemble

-----------------------------------------------------------------------------
(* The entry block and the call for the body. *)
LEMMA GenerateKeeps ==
  ASSUME FlatShapes, FlatInv, NEW b \in Statements, b.kind = "block", GenerateFunction(b)
  PROVE  FlatInv' /\ Final
<1> DEFINE g == Call("block", b, <<>>, 1)
<1>1. /\ body = NONE /\ body' = b /\ stack' = <<g>> /\ blocks' = <<NewBlock>>
      /\ UNCHANGED <<ret, done>>
  BY DEF GenerateFunction
<1>2. blocks = <<>> /\ ret = NONE /\ ~done
  BY <1>1 DEF FlatInv, FlatTypes
<1>3. g \in Frame /\ FrameOK(g) /\ g.at = "start" /\ g.block = 1 /\ g.node = b /\ g.proc = "block"
  BY EmptySeq DEF Call, Frame, FrameOK
<1> HIDE DEF g
<1>4. /\ stack' \in Seq(Frame) /\ DOMAIN stack' = {1} /\ stack'[1] = g /\ Len(stack') = 1
      /\ stack' # <<>>
  BY <1>1, <1>3
<1>5. Shape(stack') /\ Current' = 1
  <2>1. \A k \in DOMAIN stack' : 1 .. k - 1 = {}
    BY <1>4
  <2>2. Shape(stack')
    BY <1>3, <1>4, <2>1 DEF Shape
  <2>3. QED
    BY <1>3, <1>4, <2>2 DEF Current, Top
<1>6. NewBlock \in BasicBlock /\ NewBlock.term = NONE
  BY EmptySeq DEF NewBlock, BasicBlock
<1> HIDE DEF NewBlock
<1>7. /\ blocks' \in Seq(BasicBlock) /\ Len(blocks') = 1 /\ blocks'[1].term = NONE
      /\ 1 .. Len(blocks') = {1}
  BY <1>1, <1>6
<1>8. Laid(stack', blocks', 1)
  BY <1>3, <1>4, <1>7 DEF Laid, Parked, IsOpen
<1>9. FlatTypes'
  <2>1. body' \in Statements /\ body' # NONE
    BY <1>1 DEF FlatShapes
  <2>2. done' \in BOOLEAN /\ ~done' /\ ret' = NONE
    BY <1>1, <1>2 DEF FlatInv, FlatTypes
  <2>3. QED
    BY <1>7, <2>1, <2>2 DEF FlatTypes
<1>10. Final
  BY <1>2 DEF Final, BlockIds
<1>11. QED
  BY <1>1, <1>2, <1>5, <1>8, <1>9, <1>10 DEF FlatInv, BlocksTerminated

(* The block at the end of the body is the last one that is open.            *)
LEMMA FinishFunctionKeeps ==
  ASSUME FlatShapes, FlatInv, FinishFunction
  PROVE  FlatInv' /\ Final
<1>1. /\ stack = <<>> /\ body # NONE /\ ~done /\ done' = TRUE
      /\ blocks' = IF ret # NONE /\ blocks[ret].term = NONE
                   THEN Closed(blocks, ret, Ret) ELSE blocks
      /\ UNCHANGED <<body, stack, ret>>
  BY DEF FinishFunction, Closed
<1>2. /\ blocks \in Seq(BasicBlock) /\ Laid(stack, blocks, ret) /\ Shape(stack)
      /\ DOMAIN stack = {}
  BY <1>1, EmptySeq DEF FlatInv, FlatTypes, Current
<1>3. /\ ret # NONE => ret \in 1 .. Len(blocks) /\ blocks[ret].term = NONE
      /\ \A c \in 1 .. Len(blocks) : blocks[c].term = NONE => c = ret
  BY <1>2 DEF Laid, IsOpen
<1>4. /\ blocks' \in Seq(BasicBlock) /\ Len(blocks') = Len(blocks)
      /\ \A c \in 1 .. Len(blocks) : blocks'[c].term # NONE
      /\ Final
  <2>1. CASE ret = NONE
    <3>1. \A c \in 1 .. Len(blocks) : c # NONE
      BY Terminators
    <3>2. QED
      BY <1>1, <1>2, <1>3, <2>1, <3>1 DEF Final
  <2>2. CASE ret # NONE
    <3>1. Ret \in Term /\ NONE \notin Term /\ blocks' = Closed(blocks, ret, Ret)
      BY <1>1, <1>3, <2>2, Terminators
    <3>2. /\ blocks' \in Seq(BasicBlock) /\ Len(blocks') = Len(blocks) /\ blocks'[ret].term = Ret
          /\ \A c \in 1 .. Len(blocks) : c # ret => blocks'[c] = blocks[c]
      BY <1>2, <1>3, <2>2, <3>1, CloseKeeps
    <3>3. QED
      BY <1>3, <2>2, <3>1, <3>2 DEF Final, BlockIds
  <2>3. QED
    BY <2>1, <2>2
<1>5. FlatTypes'
  BY <1>1, <1>4 DEF FlatInv, FlatTypes
<1>6. BlocksTerminated'
  BY <1>4 DEF BlocksTerminated, BlockIds
<1>7. QED
  BY <1>1, <1>2, <1>4, <1>5, <1>6 DEF FlatInv

(* Before a function is generated. *)
LEMMA FlatInvInit == Init => FlatInv
<1> SUFFICES ASSUME Init PROVE FlatInv
  OBVIOUS
<1>1. Shape(<<>>) /\ <<>> \in Seq(BasicBlock)
  BY EmptySeq DEF Shape
<1>2. Laid(stack, blocks, Current)
  BY EmptySeq DEF Init, Laid, Current, IsOpen
<1>3. QED
  BY <1>1, <1>2 DEF Init, FlatInv, FlatTypes, BlocksTerminated

(* Every step of the generator on a flat body. *)
LEMMA FlatStep ==
  ASSUME FlatShapes, FlatInv, FlatNext
  PROVE  FlatInv' /\ Final
<1>1. ASSUME NEW b \in Statements, b.kind = "block", GenerateFunction(b)
      PROVE  FlatInv' /\ Final
  BY <1>1, GenerateKeeps
<1>2. CASE GenerateBody
  BY <1>2, ExpressionKeeps, ReturnKeeps, CompoundKeeps, ContinueKeeps, IfKeeps, ElseKeeps,
     FinishIfKeeps, WhileKeeps, FinishWhileKeeps, FinishFunctionKeeps DEF GenerateBody
<1>3. QED
  BY <1>1, <1>2 DEF FlatNext

(* A step that changes nothing. *)
LEMMA FlatStutter == FlatInv /\ UNCHANGED vars => FlatInv'
<1> SUFFICES ASSUME FlatInv, UNCHANGED <<body, stack, blocks, ret, done>> PROVE FlatInv'
  BY DEF vars
<1>1. Current' = Current
  BY DEF Current, Top
<1>2. QED
  BY <1>1 DEF FlatInv, FlatTypes, BlocksTerminated, BlockIds

(* The invariant of the generator on flat bodies. *)
THEOREM FlatInvariant ==
  ASSUME FlatShapes
  PROVE  FlatSpec => []FlatInv
<1>1. FlatInv /\ [FlatNext]_vars => FlatInv'
  BY FlatStep, FlatStutter
<1>2. QED
  BY <1>1, FlatInvInit, PTL DEF FlatSpec

(* Every flat body, however long, gets blocks that all end in a terminator.  *)
THEOREM FlatBlocksTerminated ==
  ASSUME FlatShapes
  PROVE  FlatSpec => []BlocksTerminated
<1>1. FlatInv => BlocksTerminated
  BY DEF FlatInv
<1>2. QED
  BY <1>1, FlatInvariant, PTL

(* In a flat body no instruction is put behind the terminator of a block,    *)
(* and no terminator is replaced: when generate_if_statement closes its own  *)
(* block, and generate_while_statement that of its body, they are open.      *)
THEOREM FlatClosedBlocksFinal ==
  ASSUME FlatShapes
  PROVE  FlatSpec => ClosedBlocksFinal
<1>1. FlatInv /\ [FlatNext]_vars => [Final]_vars
  BY FlatStep
<1>2. FlatSpec => [][Final]_vars
  BY <1>1, FlatInvariant, PTL DEF FlatSpec
<1>3. QED
  BY <1>2 DEF ClosedBlocksFinal, Final
-----------------------------------------------------------------------------
(* Any body, with branches and loops in one another. Which block is closed   *)
(* may be wrong there, but what the blocks contain is in order.              *)
TreeShapes ==
  /\ \A n \in Nodes :
       \/ n.kind \in {"expr", "return"}
       \/ n.kind = "block" /\ IsList(n.kids, Nodes)
       \/ /\ n.kind = "if"
          /\ Len(n.kids) \in {1, 2}
          /\ \A i \in 1 .. Len(n.kids) : n.kids[i] \in Nodes
       \/ n.kind = "while" /\ n.kids[1] \in Nodes
  /\ NONE \notin Nodes

TreeNext ==
  \/ \E b \in Nodes : b.kind = "block" /\ GenerateFunction(b)
  \/ GenerateBody

(* The IR generator on all bodies. *)
TreeSpec == Init /\ [][TreeNext]_vars

(* The statement with label q is the one with label p, or within it.         *)
Within(p, q) == Len(p) <= Len(q) /\ \A k \in 1 .. Len(p) : p[k] = q[k]

(* The statement with label q is within, and is not, the one with label p.   *)
Encloses(p, q) == Within(p, q) /\ Len(p) < Len(q)

(* The statement with label p stands before, or around, the one with label q. *)
Before(p, q) ==
  \/ Encloses(p, q)
  \/ \E n \in 1 .. Len(p) :
       n <= Len(q) /\ p[n] < q[n] /\ \A k \in 1 .. n - 1 : p[k] = q[k]

(* In a block what is behind an instruction is behind it in the source, or   *)
(* is the condition of a loop around it, which the loop goes back for.       *)
SourceOrder(bs) ==
  \A b \in 1 .. Len(bs) : \A j \in 1 .. Len(bs[b].instrs) : \A i \in 1 .. j - 1 :
    \/ Before(bs[b].instrs[i], bs[b].instrs[j])
    \/ Encloses(bs[b].instrs[j], bs[b].instrs[i])

InstructionsInOrder == SourceOrder(blocks)

-----------------------------------------------------------------------------
TreeFrame ==
  [proc : {"expr", "return", "block", "if", "while"},
   at : {"start", "called", "then", "else", "body"},
   node : Nodes, path : Seq(Nat), block : Nat \cup {NONE}, i : Nat \ {0},
   first : Nat \cup {NONE}, second : Nat \cup {NONE}]

(* A call where it can be, when there are n blocks. *)
CallOK(f, n) ==
  /\ f \in TreeFrame
  /\ f.proc = f.node.kind
  /\ f.at = "start" \/ <<f.proc, f.at>> \in {<<"block", "called">>, <<"if", "then">>,
                                             <<"if", "else">>, <<"while", "body">>}
  /\ f.block \in 1 .. n \/ (f.block = NONE /\ f.proc = "block")
  /\ f.at \in {"then", "else", "body"} => f.first \in 1 .. n
  /\ f.at \in {"else", "body"} => f.second \in 1 .. n

(* The child that a call is at. *)
Index(f) == IF f.proc = "block" THEN f.i ELSE IF f.at = "else" THEN 2 ELSE 1

(* The call g is within the child that f has called. *)
Under(f, g) == f.at # "start" /\ Within(Append(f.path, Index(f)), g.path)

Calls(st, n) ==
  /\ st \in Seq(TreeFrame)
  /\ \A k \in DOMAIN st : CallOK(st[k], n)
  /\ \A k \in DOMAIN st : \A j \in 1 .. k - 1 : Under(st[j], st[k])

(* The label that the source has next. *)
Cursor(f) ==
  IF f.at # "start" THEN Append(f.path, Index(f) + 1)
  ELSE IF f.proc = "block" THEN Append(f.path, f.i)
  ELSE f.path

(* All that has been generated is before label c. *)
Passed(bs, c) ==
  \A b \in 1 .. Len(bs) : \A i \in 1 .. Len(bs[b].instrs) : Before(bs[b].instrs[i], c)

(* The block at the beginning of an active loop has what is in the loop.     *)
InLoops(st, bs) ==
  \A k \in DOMAIN st : st[k].at = "body" =>
    \A i \in 1 .. Len(bs[st[k].first].instrs) :
      Encloses(st[k].path, bs[st[k].first].instrs[i])

OrderInv ==
  /\ body = NONE => stack = <<>> /\ blocks = <<>>
  /\ blocks \in Seq(BasicBlock)
  /\ ret \in BlockIds \cup {NONE}
  /\ Calls(stack, Len(blocks))
  /\ stack # <<>> => Passed(blocks, Cursor(Top))
  /\ InLoops(stack, blocks)
  /\ InstructionsInOrder

-----------------------------------------------------------------------------
(* The order of labels. *)
LEMMA WithinSelf == \A p \in Seq(Nat) : Within(p, p)
BY DEF Within

(* A statement is within the parents of its parent. *)
LEMMA WithinLonger ==
  ASSUME NEW p \in Seq(Nat), NEW q \in Seq(Nat), Within(p, q), NEW n \in Nat
  PROVE  /\ Append(q, n) \in Seq(Nat) /\ Len(Append(q, n)) = Len(q) + 1
         /\ Within(p, Append(q, n)) /\ Encloses(p, Append(q, n))
<1> DEFINE r == Append(q, n)
<1>1. /\ r \in Seq(Nat) /\ Len(r) = Len(q) + 1 /\ Len(p) \in Nat /\ Len(q) \in Nat
      /\ \A k \in 1 .. Len(q) : r[k] = q[k]
  BY AppendProperties
<1> HIDE DEF r
<1>2. QED
  BY <1>1 DEF Within, Encloses, r

(* Within is transitive. *)
LEMMA WithinTransitive ==
  ASSUME NEW p \in Seq(Nat), NEW q \in Seq(Nat), NEW r \in Seq(Nat), Within(p, q), Within(q, r)
  PROVE  Within(p, r)
BY DEF Within

(* What is within a child of p is within p. *)
LEMMA WithinChild ==
  ASSUME NEW p \in Seq(Nat), NEW n \in Nat, NEW q \in Seq(Nat), Within(Append(p, n), q)
  PROVE  Encloses(p, q) /\ q[Len(p) + 1] = n
<1> DEFINE r == Append(p, n)
<1>1. /\ r \in Seq(Nat) /\ Len(r) = Len(p) + 1 /\ Len(p) \in Nat /\ Len(q) \in Nat
      /\ r[Len(p) + 1] = n /\ \A k \in 1 .. Len(p) : r[k] = p[k]
  BY AppendProperties
<1>2. Within(r, q)
  OBVIOUS
<1> HIDE DEF r
<1>3. QED
  BY <1>1, <1>2 DEF Within, Encloses

(* What is before a statement is before all that is within it. *)
LEMMA BeforeWithin ==
  ASSUME NEW p \in Seq(Nat), NEW q \in Seq(Nat), NEW r \in Seq(Nat), Before(p, q), Within(q, r)
  PROVE  Before(p, r)
<1>1. Len(p) \in Nat /\ Len(q) \in Nat /\ Len(r) \in Nat
  OBVIOUS
<1>2. CASE Encloses(p, q)
  BY <1>1, <1>2 DEF Encloses, Within, Before
<1>3. CASE ~Encloses(p, q)
  <2>1. PICK n \in 1 .. Len(p) : n <= Len(q) /\ p[n] < q[n] /\ \A k \in 1 .. n - 1 : p[k] = q[k]
    BY <1>3 DEF Before
  <2>2. n <= Len(r) /\ r[n] = q[n] /\ \A k \in 1 .. n - 1 : r[k] = q[k]
    <3>1. Len(q) <= Len(r) /\ \A k \in 1 .. Len(q) : r[k] = q[k]
      BY DEF Within
    <3>2. n \in 1 .. Len(q) /\ \A k \in 1 .. n - 1 : k \in 1 .. Len(q)
      BY <1>1, <2>1
    <3>3. QED
      BY <1>1, <3>1, <3>2
  <2>3. QED
    BY <2>1, <2>2 DEF Before
<1>4. QED
  BY <1>2, <1>3

(* What is before something in a child of p is before the next child. *)
LEMMA BeforeNextChild ==
  ASSUME NEW l \in Seq(Nat), NEW p \in Seq(Nat), NEW n \in Nat, NEW c \in Seq(Nat),
         Before(l, c), Within(Append(p, n), c)
  PROVE  Before(l, Append(p, n + 1))
<1> DEFINE r == Append(p, n + 1)
           m == Len(p) + 1
<1>1. /\ r \in Seq(Nat) /\ Len(r) = m /\ m \in Nat \ {0} /\ Len(c) \in Nat /\ Len(l) \in Nat
      /\ r[m] = n + 1 /\ \A k \in 1 .. m - 1 : r[k] = p[k]
  BY AppendProperties
<1>2. c[m] = n /\ m <= Len(c) /\ \A k \in 1 .. m - 1 : c[k] = p[k]
  <2>1. Encloses(p, c) /\ c[m] = n
    BY WithinChild
  <2>2. QED
    BY <2>1 DEF Encloses, Within
<1>3. \A k \in 1 .. m - 1 : r[k] = c[k]
  BY <1>1, <1>2
<1>4. c[m] < r[m]
  BY <1>1, <1>2
<1> HIDE DEF r, m
<1>5. ASSUME Encloses(l, c) PROVE Before(l, r)
  <2>1. CASE Len(l) < m
    <3>1. \A k \in 1 .. Len(l) : l[k] = c[k]
      BY <1>5 DEF Encloses, Within
    <3>2. \A k \in 1 .. Len(l) : k \in 1 .. m - 1
      BY <1>1, <2>1
    <3>3. \A k \in 1 .. Len(l) : l[k] = r[k]
      BY <1>3, <3>1, <3>2
    <3>4. QED
      BY <1>1, <2>1, <3>3 DEF Encloses, Within, Before
  <2>2. CASE m <= Len(l)
    <3>1. m \in 1 .. Len(l) /\ l[m] < r[m] /\ \A k \in 1 .. m - 1 : l[k] = r[k]
      <4>1. \A k \in 1 .. Len(l) : l[k] = c[k]
        BY <1>5 DEF Encloses, Within
      <4>2. m \in 1 .. Len(l) /\ \A k \in 1 .. m - 1 : k \in 1 .. Len(l)
        BY <1>1, <2>2
      <4>3. QED
        BY <1>3, <1>4, <4>1, <4>2
    <3>2. m <= Len(r)
      BY <1>1
    <3>3. QED
      BY <3>1, <3>2 DEF Before
  <2>3. QED
    BY <1>1, <2>1, <2>2
<1>6. ASSUME ~Encloses(l, c) PROVE Before(l, r)
  <2>1. PICK k \in 1 .. Len(l) :
          k <= Len(c) /\ l[k] < c[k] /\ \A j \in 1 .. k - 1 : l[j] = c[j]
    BY <1>6 DEF Before
  <2>2. CASE k < m
    <3>1. k <= Len(r) /\ l[k] < r[k] /\ \A j \in 1 .. k - 1 : l[j] = r[j]
      BY <1>1, <1>3, <2>1, <2>2
    <3>2. QED
      BY <2>1, <3>1 DEF Before
  <2>3. CASE m <= k
    <3>1. l[m] < r[m]
      <4>1. CASE m = k
        <5>1. l[m] \in Nat /\ c[m] \in Nat /\ r[m] \in Nat
          BY <1>1, <1>2, <2>1, <4>1
        <5>2. l[m] < c[m]
          BY <2>1, <4>1
        <5>3. QED
          BY <1>4, <5>1, <5>2
      <4>2. CASE m # k
        BY <1>1, <1>4, <2>1, <2>3, <4>2
      <4>3. QED
        BY <4>1, <4>2
    <3>2. m \in 1 .. Len(l) /\ \A j \in 1 .. m - 1 : l[j] = r[j]
      <4>1. m \in 1 .. Len(l) /\ \A j \in 1 .. m - 1 : j \in 1 .. k - 1
        BY <1>1, <2>3
      <4>2. \A j \in 1 .. k - 1 : l[j] = c[j]
        BY <2>1
      <4>3. QED
        BY <1>3, <4>1, <4>2
    <3>3. m <= Len(r)
      BY <1>1
    <3>4. QED
      BY <3>1, <3>2, <3>3 DEF Before
  <2>4. QED
    BY <1>1, <2>1, <2>2, <2>3
<1>7. Before(l, r)
  BY <1>5, <1>6
<1>8. QED
  BY <1>7 DEF r

(* A statement is before its children, and what is within one of them before *)
(* the next.                                                                 *)
LEMMA BeforeChild ==
  ASSUME NEW p \in Seq(Nat), NEW n \in Nat
  PROVE  Before(p, Append(p, n))
BY WithinSelf, WithinLonger DEF Before

(* What is within a child is before the next child. *)
LEMMA ChildBeforeNext ==
  ASSUME NEW l \in Seq(Nat), NEW p \in Seq(Nat), NEW n \in Nat, Within(Append(p, n), l)
  PROVE  Before(l, Append(p, n + 1))
<1> DEFINE r == Append(p, n + 1)
           m == Len(p) + 1
<1>1. /\ r \in Seq(Nat) /\ Len(r) = m /\ m \in Nat \ {0} /\ Len(l) \in Nat
      /\ r[m] = n + 1 /\ \A k \in 1 .. m - 1 : r[k] = p[k]
  BY AppendProperties
<1>2. l[m] = n /\ m <= Len(l) /\ \A k \in 1 .. m - 1 : l[k] = p[k]
  <2>1. Encloses(p, l) /\ l[m] = n
    BY WithinChild
  <2>2. QED
    BY <2>1 DEF Encloses, Within
<1>3. m \in 1 .. Len(l) /\ l[m] < r[m] /\ \A k \in 1 .. m - 1 : l[k] = r[k]
  BY <1>1, <1>2
<1>4. m <= Len(r)
  BY <1>1
<1> HIDE DEF r, m
<1>5. Before(l, r)
  BY <1>3, <1>4 DEF Before
<1>6. QED
  BY <1>5 DEF r

-----------------------------------------------------------------------------
(* What a step does to the instructions: nothing, but for new blocks, which  *)
(* are empty; or it adds one, at the end of block b.                         *)
Same(bs, more) ==
  /\ more \in Seq(BasicBlock)
  /\ Len(bs) <= Len(more)
  /\ \A c \in 1 .. Len(bs) : more[c].instrs = bs[c].instrs
  /\ \A c \in 1 .. Len(more) : c > Len(bs) => more[c].instrs = <<>>

Adds(bs, more, b, l) ==
  /\ more \in Seq(BasicBlock)
  /\ b \in 1 .. Len(bs)
  /\ Len(bs) <= Len(more)
  /\ \A c \in 1 .. Len(bs) :
       more[c].instrs = IF c = b THEN Append(bs[b].instrs, l) ELSE bs[c].instrs
  /\ \A c \in 1 .. Len(more) : c > Len(bs) => more[c].instrs = <<>>

(* The helpers of the generator: an instruction put into a block, *)
LEMMA EmitAdds ==
  ASSUME blocks \in Seq(BasicBlock), NEW b \in 1 .. Len(blocks), NEW l \in Seq(Nat)
  PROVE  /\ Adds(blocks, Emitted(b, l), b, l) /\ Len(Emitted(b, l)) = Len(blocks)
         /\ Emitted(b, l) \in Seq(BasicBlock)
<1> DEFINE bs == Emitted(b, l)
           more == Append(blocks[b].instrs, l)
           r == [blocks[b] EXCEPT !.instrs = more]
<1>1. DOMAIN blocks = 1 .. Len(blocks) /\ Len(blocks) \in Nat /\ blocks[b] \in BasicBlock
  OBVIOUS
<1>2. more \in Seq(Seq(Nat))
  <2>1. blocks[b].instrs \in Seq(Seq(Nat))
    BY <1>1 DEF BasicBlock
  <2>2. QED
    BY <2>1, AppendProperties
<1>3. bs = [blocks EXCEPT ![b] = r]
  BY <1>1 DEF Emitted
<1> HIDE DEF more
<1>4. r \in BasicBlock /\ r.instrs = more
  BY <1>1, <1>2 DEF BasicBlock
<1> HIDE DEF r, bs
<1>5. /\ bs \in Seq(BasicBlock) /\ Len(bs) = Len(blocks) /\ bs[b] = r
      /\ \A c \in 1 .. Len(blocks) : c # b => bs[c] = blocks[c]
  BY <1>1, <1>3, <1>4, ExceptSeq
<1>6. bs[b].instrs = Append(blocks[b].instrs, l)
  BY <1>4, <1>5 DEF more
<1>7. Adds(blocks, bs, b, l)
  <2>1. \A c \in 1 .. Len(blocks) :
          bs[c].instrs = IF c = b THEN Append(blocks[b].instrs, l) ELSE blocks[c].instrs
    BY <1>5, <1>6
  <2>2. \A c \in 1 .. Len(bs) : ~(c > Len(blocks))
    BY <1>1, <1>5
  <2>3. QED
    BY <1>1, <1>5, <2>1, <2>2 DEF Adds
<1>8. QED
  BY <1>5, <1>7 DEF bs

(* a terminator, *)
LEMMA CloseSame ==
  ASSUME NEW bs \in Seq(BasicBlock), NEW b \in 1 .. Len(bs), NEW t \in Term
  PROVE  /\ Same(bs, Closed(bs, b, t)) /\ Len(Closed(bs, b, t)) = Len(bs)
         /\ Closed(bs, b, t) \in Seq(BasicBlock)
<1> DEFINE r == [bs[b] EXCEPT !.term = t]
           more == Closed(bs, b, t)
<1>1. bs[b] \in BasicBlock /\ DOMAIN bs = 1 .. Len(bs) /\ Len(bs) \in Nat
  OBVIOUS
<1>2. r \in BasicBlock /\ r.instrs = bs[b].instrs
  BY <1>1 DEF BasicBlock
<1>3. more = [bs EXCEPT ![b] = r]
  BY <1>1 DEF Closed
<1> HIDE DEF r, more
<1>4. /\ more \in Seq(BasicBlock) /\ Len(more) = Len(bs) /\ more[b] = r
      /\ \A c \in 1 .. Len(bs) : c # b => more[c] = bs[c]
  BY <1>1, <1>2, <1>3, ExceptSeq
<1>5. Same(bs, more)
  BY <1>1, <1>2, <1>4 DEF Same
<1>6. QED
  BY <1>4, <1>5 DEF more

(* a new block, *)
LEMMA AppendSame ==
  ASSUME NEW bs \in Seq(BasicBlock)
  PROVE  /\ Same(bs, Append(bs, NewBlock)) /\ Len(Append(bs, NewBlock)) = Len(bs) + 1
         /\ Append(bs, NewBlock) \in Seq(BasicBlock)
<1>1. NewBlock \in BasicBlock /\ NewBlock.instrs = <<>>
  BY EmptySeq DEF NewBlock, BasicBlock
<1> HIDE DEF NewBlock
<1> DEFINE more == Append(bs, NewBlock)
<1>2. /\ more \in Seq(BasicBlock) /\ Len(more) = Len(bs) + 1 /\ Len(bs) \in Nat
      /\ \A c \in 1 .. Len(bs) : more[c] = bs[c]
      /\ more[Len(bs) + 1] = NewBlock
  BY <1>1, AppendProperties
<1> HIDE DEF more
<1>3. \A c \in 1 .. Len(more) : c > Len(bs) => c = Len(bs) + 1
  BY <1>2
<1>4. Same(bs, more)
  BY <1>1, <1>2, <1>3 DEF Same
<1>5. QED
  BY <1>2, <1>4 DEF more

(* and the jumps to the exit of an if. *)
LEMMA JoinSame ==
  ASSUME blocks \in Seq(BasicBlock), NEW exit \in Nat, NEW branches
  PROVE  /\ Same(blocks, JoinTo(exit, branches))
         /\ Len(JoinTo(exit, branches)) = Len(blocks)
         /\ JoinTo(exit, branches) \in Seq(BasicBlock)
<1> DEFINE bs == JoinTo(exit, branches)
<1>1. bs \in Seq(BasicBlock) /\ Len(bs) = Len(blocks)
  BY JoinKeeps
<1>2. \A b \in BlockIds : bs[b].instrs = blocks[b].instrs
  <2>1. \A b \in BlockIds : blocks[b] \in BasicBlock
    BY DEF BlockIds
  <2>2. \A b \in BlockIds : [blocks[b] EXCEPT !.term = Br(exit)].instrs = blocks[b].instrs
    BY <2>1 DEF BasicBlock
  <2>3. QED
    BY <2>2 DEF JoinTo
<1> HIDE DEF bs
<1>3. Same(blocks, bs)
  BY <1>1, <1>2 DEF Same, BlockIds
<1>4. QED
  BY <1>1, <1>3 DEF bs

(* Two of these after one another. *)
LEMMA SameThenSame ==
  ASSUME NEW bs \in Seq(BasicBlock), NEW mid, NEW more, Same(bs, mid), Same(mid, more)
  PROVE  Same(bs, more)
<1>1. Len(bs) \in Nat /\ Len(mid) \in Nat /\ Len(more) \in Nat
  BY DEF Same
<1>2. \A c \in 1 .. Len(bs) : c \in 1 .. Len(mid)
  BY <1>1 DEF Same
<1>3. \A c \in 1 .. Len(more) : c \in 1 .. Len(mid) \/ c > Len(mid)
  BY <1>1
<1>4. QED
  BY <1>1, <1>2, <1>3 DEF Same

(* An instruction, then one of the others. *)
LEMMA AddsThenSame ==
  ASSUME NEW bs \in Seq(BasicBlock), NEW mid, NEW more, NEW b, NEW l,
         Adds(bs, mid, b, l), Same(mid, more)
  PROVE  Adds(bs, more, b, l)
<1>1. Len(bs) \in Nat /\ Len(mid) \in Nat /\ Len(more) \in Nat
  BY DEF Same, Adds
<1>2. \A c \in 1 .. Len(bs) : c \in 1 .. Len(mid)
  BY <1>1 DEF Adds
<1>3. \A c \in 1 .. Len(more) : c \in 1 .. Len(mid) \/ c > Len(mid)
  BY <1>1
<1>4. QED
  BY <1>1, <1>2, <1>3 DEF Same, Adds

(* A step that adds no instruction. *)
LEMMA SameOrder ==
  ASSUME NEW bs \in Seq(BasicBlock), NEW more, Same(bs, more), SourceOrder(bs)
  PROVE  /\ SourceOrder(more)
         /\ \A c : Passed(bs, c) => Passed(more, c)
<1>1. ASSUME NEW b \in 1 .. Len(more)
      PROVE  \/ b \in 1 .. Len(bs) /\ more[b].instrs = bs[b].instrs
             \/ more[b].instrs = <<>>
  BY DEF Same
<1>2. Len(<<>>) = 0
  OBVIOUS
<1>3. SourceOrder(more)
  <2> SUFFICES ASSUME NEW b \in 1 .. Len(more), NEW j \in 1 .. Len(more[b].instrs),
                      NEW i \in 1 .. j - 1
               PROVE  \/ Before(more[b].instrs[i], more[b].instrs[j])
                      \/ Encloses(more[b].instrs[j], more[b].instrs[i])
    BY DEF SourceOrder
  <2>1. more[b].instrs # <<>>
    BY <1>2
  <2>2. b \in 1 .. Len(bs) /\ more[b].instrs = bs[b].instrs
    BY <1>1, <2>1
  <2>3. QED
    BY <2>2 DEF SourceOrder
<1>4. \A c : Passed(bs, c) => Passed(more, c)
  BY <1>1, <1>2 DEF Passed
<1>5. QED
  BY <1>3, <1>4

(* The instructions of the block that is added to. *)
LEMMA AddedInstr ==
  ASSUME NEW bs \in Seq(BasicBlock), NEW more, NEW b, NEW l \in Seq(Nat), Adds(bs, more, b, l)
  PROVE  /\ b \in 1 .. Len(bs) /\ Len(bs[b].instrs) \in Nat
         /\ Len(more[b].instrs) = Len(bs[b].instrs) + 1
         /\ more[b].instrs[Len(bs[b].instrs) + 1] = l
         /\ \A i \in 1 .. Len(bs[b].instrs) : more[b].instrs[i] = bs[b].instrs[i]
<1>1. b \in 1 .. Len(bs) /\ bs[b].instrs \in Seq(Seq(Nat))
  <2>1. b \in 1 .. Len(bs) /\ bs[b] \in BasicBlock
    BY DEF Adds
  <2>2. QED
    BY <2>1 DEF BasicBlock
<1>2. more[b].instrs = Append(bs[b].instrs, l)
  BY <1>1 DEF Adds
<1>3. QED
  BY <1>1, <1>2, AppendProperties

(* The instruction that is added is behind all there are, or encloses those  *)
(* of its block.                                                             *)
Behind(bs, b, l) ==
  Passed(bs, l) \/ \A i \in 1 .. Len(bs[b].instrs) : Encloses(l, bs[b].instrs[i])

(* The order of the source, and what has been passed, when one is added. *)
LEMMA AddsOrder ==
  ASSUME NEW bs \in Seq(BasicBlock), NEW more, NEW b, NEW l \in Seq(Nat),
         Adds(bs, more, b, l), SourceOrder(bs), Behind(bs, b, l)
  PROVE  /\ SourceOrder(more)
         /\ \A c : Passed(bs, c) /\ Before(l, c) => Passed(more, c)
<1> DEFINE n == Len(bs[b].instrs)
<1>1. /\ b \in 1 .. Len(bs) /\ n \in Nat /\ Len(more[b].instrs) = n + 1
      /\ more[b].instrs[n + 1] = l
      /\ \A i \in 1 .. n : more[b].instrs[i] = bs[b].instrs[i]
  BY AddedInstr
<1>2. ASSUME NEW c \in 1 .. Len(more), c # b
      PROVE  \/ c \in 1 .. Len(bs) /\ more[c].instrs = bs[c].instrs
             \/ more[c].instrs = <<>>
  BY <1>2 DEF Adds
<1>3. Len(<<>>) = 0
  OBVIOUS
<1> HIDE DEF n
<1>4. \A i \in 1 .. n + 1 : i = n + 1 \/ i \in 1 .. n
  BY <1>1
<1>5. ASSUME NEW c \in 1 .. Len(more), NEW j \in 1 .. Len(more[c].instrs), NEW i \in 1 .. j - 1
      PROVE  \/ Before(more[c].instrs[i], more[c].instrs[j])
             \/ Encloses(more[c].instrs[j], more[c].instrs[i])
  <2>1. CASE c # b
    <3>1. c \in 1 .. Len(bs) /\ more[c].instrs = bs[c].instrs
      BY <1>2, <1>3, <1>5, <2>1
    <3>2. QED
      BY <3>1 DEF SourceOrder
  <2>2. CASE c = b /\ j \in 1 .. n
    <3>1. i \in 1 .. n
      BY <1>1, <2>2
    <3>2. more[c].instrs[i] = bs[b].instrs[i] /\ more[c].instrs[j] = bs[b].instrs[j]
      BY <1>1, <2>2, <3>1
    <3>3. QED
      BY <1>1, <2>2, <3>2 DEF SourceOrder, n
  <2>3. CASE c = b /\ j = n + 1
    <3>1. i \in 1 .. n
      BY <1>1, <2>3
    <3>2. more[c].instrs[i] = bs[b].instrs[i] /\ more[c].instrs[j] = l
      BY <1>1, <2>3, <3>1
    <3>3. QED
      BY <1>1, <3>1, <3>2 DEF Behind, Passed, n
  <2>4. QED
    BY <1>1, <1>4, <2>1, <2>2, <2>3
<1>6. ASSUME NEW c, Passed(bs, c), Before(l, c),
             NEW d \in 1 .. Len(more), NEW i \in 1 .. Len(more[d].instrs)
      PROVE  Before(more[d].instrs[i], c)
  <2>1. CASE d # b
    BY <1>2, <1>3, <1>6, <2>1 DEF Passed
  <2>2. CASE d = b
    BY <1>1, <1>4, <1>6, <2>2 DEF Passed, n
  <2>3. QED
    BY <2>1, <2>2
<1>7. SourceOrder(more)
  BY <1>5 DEF SourceOrder
<1>8. QED
  BY <1>6, <1>7 DEF Passed

(* What is before a call is before all that it is going to generate. *)
LEMMA PassedWithin ==
  ASSUME NEW bs \in Seq(BasicBlock), NEW c \in Seq(Nat), NEW d \in Seq(Nat),
         Passed(bs, c), Within(c, d)
  PROVE  Passed(bs, d)
<1>1. \A b \in 1 .. Len(bs) : bs[b].instrs \in Seq(Seq(Nat))
  <2>1. \A b \in 1 .. Len(bs) : bs[b] \in BasicBlock
    OBVIOUS
  <2>2. QED
    BY <2>1 DEF BasicBlock
<1>2. ASSUME NEW b \in 1 .. Len(bs), NEW i \in 1 .. Len(bs[b].instrs)
      PROVE  bs[b].instrs[i] \in Seq(Nat)
  <2>1. bs[b].instrs \in Seq(Seq(Nat))
    BY <1>1
  <2>2. QED
    BY <2>1, ElementOfSeq
<1>3. ASSUME NEW b \in 1 .. Len(bs), NEW i \in 1 .. Len(bs[b].instrs)
      PROVE  Before(bs[b].instrs[i], d)
  <2>1. bs[b].instrs[i] \in Seq(Nat) /\ Before(bs[b].instrs[i], c)
    BY <1>2 DEF Passed
  <2>2. QED
    BY <2>1, BeforeWithin
<1>4. QED
  BY <1>3 DEF Passed

(* What is passed within a child is passed before the next. *)
LEMMA PassedNext ==
  ASSUME NEW bs \in Seq(BasicBlock), NEW c \in Seq(Nat), NEW p \in Seq(Nat), NEW n \in Nat,
         Passed(bs, c), Within(Append(p, n), c)
  PROVE  Passed(bs, Append(p, n + 1))
<1>1. \A b \in 1 .. Len(bs) : bs[b].instrs \in Seq(Seq(Nat))
  <2>1. \A b \in 1 .. Len(bs) : bs[b] \in BasicBlock
    OBVIOUS
  <2>2. QED
    BY <2>1 DEF BasicBlock
<1>2. ASSUME NEW b \in 1 .. Len(bs), NEW i \in 1 .. Len(bs[b].instrs)
      PROVE  bs[b].instrs[i] \in Seq(Nat)
  <2>1. bs[b].instrs \in Seq(Seq(Nat))
    BY <1>1
  <2>2. QED
    BY <2>1, ElementOfSeq
<1>3. ASSUME NEW b \in 1 .. Len(bs), NEW i \in 1 .. Len(bs[b].instrs)
      PROVE  Before(bs[b].instrs[i], Append(p, n + 1))
  <2>1. bs[b].instrs[i] \in Seq(Nat) /\ Before(bs[b].instrs[i], c)
    BY <1>2 DEF Passed
  <2>2. QED
    BY <2>1, BeforeNextChild
<1>4. QED
  BY <1>3 DEF Passed

(* A block in the order of the source has no instruction twice. *)
LEMMA NoneTwice ==
  ASSUME NEW bs \in Seq(BasicBlock), SourceOrder(bs), NEW b \in 1 .. Len(bs),
         NEW j \in 1 .. Len(bs[b].instrs), NEW i \in 1 .. j - 1
  PROVE  bs[b].instrs[i] # bs[b].instrs[j]
<1>1. bs[b].instrs \in Seq(Seq(Nat))
  <2>1. bs[b] \in BasicBlock
    OBVIOUS
  <2>2. QED
    BY <2>1 DEF BasicBlock
<1>2. bs[b].instrs[i] \in Seq(Nat) /\ bs[b].instrs[j] \in Seq(Nat)
  BY <1>1
<1>3. \A l \in Seq(Nat) : ~Encloses(l, l)
  BY DEF Encloses
<1>4. \A l \in Seq(Nat) : ~Before(l, l)
  BY <1>3 DEF Before
<1>5. \/ Before(bs[b].instrs[i], bs[b].instrs[j])
      \/ Encloses(bs[b].instrs[j], bs[b].instrs[i])
  BY DEF SourceOrder
<1>6. QED
  BY <1>2, <1>3, <1>4, <1>5

-----------------------------------------------------------------------------
(* The active calls, with more blocks, and with one more call. *)
LEMMA CallsMore ==
  ASSUME NEW st, NEW n \in Nat, Calls(st, n), NEW m \in Nat, n <= m
  PROVE  Calls(st, m)
<1>1. \A f : CallOK(f, n) => CallOK(f, m)
  BY DEF CallOK
<1>2. QED
  BY <1>1 DEF Calls

(* One more call on top of the active ones. *)
LEMMA CallsPushed ==
  ASSUME NEW c, NEW n \in Nat, Calls(c, n), NEW f, CallOK(f, n),
         \A j \in DOMAIN c : Under(c[j], f), NEW st, st = Append(c, f)
  PROVE  /\ Calls(st, n) /\ Len(c) \in Nat /\ Len(st) = Len(c) + 1 /\ st # <<>>
         /\ DOMAIN st = 1 .. Len(c) + 1 /\ DOMAIN c = 1 .. Len(c)
         /\ st[Len(c) + 1] = f /\ \A k \in 1 .. Len(c) : st[k] = c[k]
<1> DEFINE m == Len(c) + 1
<1>1. /\ c \in Seq(TreeFrame) /\ f \in TreeFrame /\ Len(c) \in Nat /\ DOMAIN c = 1 .. Len(c)
  BY DEF Calls, CallOK
<1>2. /\ st \in Seq(TreeFrame) /\ Len(st) = m /\ DOMAIN st = 1 .. m /\ st[m] = f
      /\ \A k \in 1 .. Len(c) : st[k] = c[k]
  BY <1>1, AppendProperties
<1>3. st # <<>> /\ m \in Nat
  BY <1>1, <1>2
<1>4. \A k \in 1 .. m : /\ (k = m \/ k \in 1 .. Len(c))
                         /\ \A j \in 1 .. k - 1 : j \in 1 .. Len(c) /\ st[j] = c[j]
  BY <1>1, <1>2
<1> HIDE DEF m
<1>5. ASSUME NEW k \in 1 .. m
      PROVE  CallOK(st[k], n) /\ \A j \in 1 .. k - 1 : Under(st[j], st[k])
  <2>1. CASE k = m
    BY <1>1, <1>2, <1>4, <2>1
  <2>2. CASE k # m
    <3>1. k \in DOMAIN c /\ st[k] = c[k]
      BY <1>1, <1>2, <1>4, <2>2
    <3>2. QED
      BY <1>4, <3>1 DEF Calls
  <2>3. QED
    BY <2>1, <2>2
<1>6. Calls(st, n)
  BY <1>2, <1>5 DEF Calls
<1>7. QED
  BY <1>1, <1>2, <1>3, <1>6 DEF m

(* What every action of an active call starts from. *)
LEMMA ActiveCall ==
  ASSUME OrderInv, stack # <<>>
  PROVE  /\ blocks \in Seq(BasicBlock) /\ body # NONE /\ ret \in BlockIds \cup {NONE}
         /\ Len(blocks) \in Nat
         /\ Passed(blocks, Cursor(Top)) /\ InLoops(stack, blocks) /\ SourceOrder(blocks)
         /\ Calls(stack, Len(blocks)) /\ CallOK(Top, Len(blocks)) /\ Top \in TreeFrame
         /\ Calls(Callers, Len(blocks))
         /\ DOMAIN Callers = 1 .. Len(Callers) /\ Len(Callers) + 1 = Len(stack)
         /\ Len(Callers) \in Nat /\ DOMAIN stack = 1 .. Len(stack)
         /\ \A j \in DOMAIN Callers : Callers[j] = stack[j] /\ Under(Callers[j], Top)
         /\ Top = stack[Len(stack)] /\ Len(stack) \in DOMAIN stack
<1> DEFINE c == Callers
<1>1. /\ blocks \in Seq(BasicBlock) /\ body # NONE /\ ret \in BlockIds \cup {NONE}
      /\ Passed(blocks, Cursor(Top)) /\ InLoops(stack, blocks) /\ SourceOrder(blocks)
      /\ Calls(stack, Len(blocks)) /\ Len(blocks) \in Nat
  BY DEF OrderInv, InstructionsInOrder
<1>2. stack \in Seq(TreeFrame) /\ Len(stack) \in Nat \ {0} /\ DOMAIN stack = 1 .. Len(stack)
  BY <1>1, EmptySeq DEF Calls
<1>3. \A k \in 1 .. Len(stack) - 1 : stack[k] \in TreeFrame
  BY <1>2
<1>4. /\ c \in Seq(TreeFrame) /\ Len(c) = Len(stack) - 1 /\ DOMAIN c = 1 .. Len(stack) - 1
      /\ \A k \in 1 .. Len(stack) - 1 : c[k] = stack[k]
  BY <1>2, <1>3 DEF Callers
<1>5. \A k \in DOMAIN c : k \in DOMAIN stack /\ \A j \in 1 .. k - 1 : j \in DOMAIN c
  BY <1>2, <1>4
<1>6. Calls(c, Len(blocks))
  <2>1. \A k \in DOMAIN c : CallOK(c[k], Len(blocks))
    BY <1>1, <1>4, <1>5 DEF Calls
  <2>2. \A k \in DOMAIN c : \A j \in 1 .. k - 1 : Under(c[j], c[k])
    BY <1>1, <1>4, <1>5 DEF Calls
  <2>3. QED
    BY <1>4, <2>1, <2>2 DEF Calls
<1>7. Len(stack) \in DOMAIN stack /\ Top = stack[Len(stack)]
  BY <1>2 DEF Top
<1>8. CallOK(Top, Len(blocks)) /\ Top \in TreeFrame
  BY <1>1, <1>7 DEF Calls, CallOK
<1>9. \A j \in DOMAIN c : c[j] = stack[j] /\ Under(c[j], Top)
  BY <1>1, <1>4, <1>7 DEF Calls
<1> HIDE DEF c
<1>10. DOMAIN c = 1 .. Len(c) /\ Len(c) + 1 = Len(stack) /\ Len(c) \in Nat
  BY <1>2, <1>4
<1>11. QED
  BY <1>1, <1>2, <1>6, <1>7, <1>8, <1>9, <1>10 DEF c

(* The loops that stay active, when an instruction is added within them, and *)
(* when none is.                                                             *)
LEMMA LoopsSame ==
  ASSUME OrderInv, stack # <<>>, NEW more, Same(blocks, more)
  PROVE  InLoops(stack, more) /\ InLoops(Callers, more)
<1>1. ASSUME NEW k \in DOMAIN stack, stack[k].at = "body"
      PROVE  \A i \in 1 .. Len(more[stack[k].first].instrs) :
               Encloses(stack[k].path, more[stack[k].first].instrs[i])
  <2>1. CallOK(stack[k], Len(blocks)) /\ InLoops(stack, blocks)
    BY ActiveCall DEF Calls
  <2>2. stack[k].first \in 1 .. Len(blocks)
    BY <1>1, <2>1 DEF CallOK
  <2>3. more[stack[k].first].instrs = blocks[stack[k].first].instrs
    BY <2>2 DEF Same
  <2>4. QED
    BY <1>1, <2>1, <2>3 DEF InLoops
<1>2. \A j \in DOMAIN Callers : Callers[j] = stack[j] /\ j \in DOMAIN stack
  BY ActiveCall
<1>3. QED
  BY <1>1, <1>2 DEF InLoops

(* What is added within a call is within the loops around it. *)
LEMMA LoopsAdd ==
  ASSUME OrderInv, stack # <<>>, NEW more, NEW b, NEW l \in Seq(Nat),
         Adds(blocks, more, b, l), Within(Top.path, l)
  PROVE  InLoops(Callers, more)
<1>1. ASSUME NEW k \in DOMAIN Callers, Callers[k].at = "body"
      PROVE  \A i \in 1 .. Len(more[Callers[k].first].instrs) :
               Encloses(Callers[k].path, more[Callers[k].first].instrs[i])
  <2> DEFINE f == Callers[k]
             n == Len(blocks[b].instrs)
  <2>1. /\ CallOK(f, Len(blocks)) /\ f \in TreeFrame /\ Under(f, Top) /\ Top \in TreeFrame
        /\ f = stack[k] /\ k \in DOMAIN stack
        /\ InLoops(stack, blocks) /\ blocks \in Seq(BasicBlock)
    BY ActiveCall DEF Calls, CallOK
  <2>2. /\ n \in Nat /\ Len(more[b].instrs) = n + 1 /\ more[b].instrs[n + 1] = l
        /\ \A i \in 1 .. n : more[b].instrs[i] = blocks[b].instrs[i]
    BY <2>1, AddedInstr
  <2>3. f.first \in 1 .. Len(blocks)
    BY <1>1, <2>1 DEF CallOK
  <2>4. \A i \in 1 .. Len(blocks[f.first].instrs) :
          Encloses(f.path, blocks[f.first].instrs[i])
    BY <1>1, <2>1 DEF InLoops
  <2>5. Encloses(f.path, l)
    <3>1. f.path \in Seq(Nat) /\ Index(f) \in Nat /\ Top.path \in Seq(Nat)
      BY <2>1 DEF TreeFrame, Index
    <3>2. Within(Append(f.path, Index(f)), Top.path) /\ Append(f.path, Index(f)) \in Seq(Nat)
      BY <2>1, <3>1, AppendProperties DEF Under
    <3>3. Within(Append(f.path, Index(f)), l)
      BY <3>1, <3>2, WithinTransitive
    <3>4. QED
      BY <3>1, <3>3, WithinChild
  <2>6. f.first # b => more[f.first].instrs = blocks[f.first].instrs
    BY <2>3 DEF Adds
  <2> HIDE DEF f, n
  <2>7. ASSUME NEW i \in 1 .. Len(more[f.first].instrs)
        PROVE  Encloses(f.path, more[f.first].instrs[i])
    <3>1. CASE f.first # b
      BY <2>4, <2>6, <3>1
    <3>2. CASE f.first = b
      <4>1. i = n + 1 \/ i \in 1 .. n
        BY <2>2, <3>2
      <4>2. QED
        BY <2>2, <2>4, <2>5, <3>2, <4>1 DEF n
    <3>3. QED
      BY <3>1, <3>2
  <2>8. QED
    BY <2>7 DEF f
<1>2. QED
  BY <1>1 DEF InLoops

-----------------------------------------------------------------------------
(* What a step does to the instructions: each block stays, or gets one more  *)
(* instruction, which is behind all that have been generated, or is the      *)
(* condition of a loop around all that are in the block.                     *)
Grown ==
  /\ \A b \in BlockIds :
       \/ blocks'[b].instrs = blocks[b].instrs
       \/ \E l \in Seq(Nat) :
            blocks'[b].instrs = Append(blocks[b].instrs, l) /\ Behind(blocks, b, l)
  /\ \A b \in BlockIds' : b \notin BlockIds => blocks'[b].instrs = <<>>

(* The two kinds of steps, as Grown puts them. *)
LEMMA GrownSame ==
  ASSUME blocks \in Seq(BasicBlock), Same(blocks, blocks')
  PROVE  Grown
<1>1. \A b \in BlockIds' : b \notin BlockIds => b > Len(blocks)
  BY DEF BlockIds, Same
<1>2. QED
  BY <1>1 DEF Grown, Same, BlockIds

(* A step that adds an instruction. *)
LEMMA GrownAdds ==
  ASSUME blocks \in Seq(BasicBlock), NEW b, NEW l \in Seq(Nat),
         Adds(blocks, blocks', b, l), Behind(blocks, b, l)
  PROVE  Grown
<1>1. \A c \in BlockIds' : c \notin BlockIds => c > Len(blocks)
  BY DEF BlockIds, Adds
<1>2. QED
  BY <1>1 DEF Grown, Adds, BlockIds

(* The parts of the invariant after a step of an active call. *)
LEMMA OrderAssembled ==
  ASSUME OrderInv, stack # <<>>, body' = body,
         blocks' \in Seq(BasicBlock), SourceOrder(blocks'),
         ret' \in (1 .. Len(blocks')) \cup {NONE},
         Calls(stack', Len(blocks')), InLoops(stack', blocks'),
         stack' # <<>> => Passed(blocks', Cursor(stack'[Len(stack')]))
  PROVE  OrderInv'
<1>1. body' # NONE
  BY ActiveCall
<1>2. QED
  BY <1>1 DEF OrderInv, InstructionsInOrder, BlockIds, Top

(* The label of a call and the place the call is at. *)
LEMMA CursorWithin ==
  ASSUME OrderInv, stack # <<>>
  PROVE  /\ Top.path \in Seq(Nat) /\ Cursor(Top) \in Seq(Nat)
         /\ Within(Top.path, Cursor(Top)) /\ Top.i \in Nat
<1>1. Top.path \in Seq(Nat) /\ Top.i \in Nat /\ Index(Top) \in Nat /\ Index(Top) + 1 \in Nat
  BY ActiveCall DEF TreeFrame, Index
<1>2. QED
  BY <1>1, WithinSelf, WithinLonger DEF Cursor

(* What is in the running call is before the next child of its caller. *)
LEMMA CallerCursor ==
  ASSUME OrderInv, stack # <<>>, Callers # <<>>
  PROVE  LET p == Callers[Len(Callers)]
         IN  Passed(blocks, Cursor(p)) /\ Before(Top.path, Cursor(p))
<1> DEFINE p == Callers[Len(Callers)]
<1>1. p \in TreeFrame /\ Under(p, Top)
  <2>1. Calls(Callers, Len(blocks)) /\ \A j \in DOMAIN Callers : Under(Callers[j], Top)
    BY ActiveCall
  <2>2. Len(Callers) \in DOMAIN Callers
    BY <2>1, EmptySeq DEF Calls
  <2>3. QED
    BY <2>1, <2>2 DEF Calls, CallOK
<1>2. /\ p.path \in Seq(Nat) /\ Index(p) \in Nat /\ Append(p.path, Index(p)) \in Seq(Nat)
      /\ Within(Append(p.path, Index(p)), Top.path)
      /\ Cursor(p) = Append(p.path, Index(p) + 1)
  <2>1. p.path \in Seq(Nat) /\ Index(p) \in Nat
    BY <1>1 DEF TreeFrame, Index
  <2>2. QED
    BY <1>1, <2>1, AppendProperties DEF Under, Cursor
<1> HIDE DEF p
<1>3. Within(Append(p.path, Index(p)), Cursor(Top))
  BY <1>2, CursorWithin, WithinTransitive
<1>4. Passed(blocks, Append(p.path, Index(p) + 1))
  BY <1>2, <1>3, CursorWithin, ActiveCall, PassedNext
<1>5. Before(Top.path, Append(p.path, Index(p) + 1))
  BY <1>2, CursorWithin, ChildBeforeNext
<1>6. QED
  BY <1>2, <1>4, <1>5 DEF p

(* The running call returns, having generated nothing. *)
LEMMA ReturnSame ==
  ASSUME OrderInv, stack # <<>>, body' = body, NEW r, Return(r),
         r \in (1 .. Len(blocks')) \cup {NONE}, Same(blocks, blocks')
  PROVE  OrderInv' /\ Grown
<1>1. stack' = Callers /\ ret' = r
  BY DEF Return
<1>2. /\ blocks' \in Seq(BasicBlock) /\ blocks \in Seq(BasicBlock) /\ SourceOrder(blocks)
      /\ Len(blocks) \in Nat /\ Len(blocks') \in Nat /\ Len(blocks) <= Len(blocks')
  BY ActiveCall DEF Same
<1>3. SourceOrder(blocks') /\ \A c : Passed(blocks, c) => Passed(blocks', c)
  BY <1>2, SameOrder
<1>4. Calls(stack', Len(blocks'))
  BY <1>1, <1>2, ActiveCall, CallsMore
<1>5. InLoops(stack', blocks')
  BY <1>1, LoopsSame
<1>6. stack' # <<>> => Passed(blocks', Cursor(stack'[Len(stack')]))
  BY <1>1, <1>3, CallerCursor
<1>7. QED
  BY <1>1, <1>2, <1>3, <1>4, <1>5, <1>6, OrderAssembled, GrownSame

(* The running call returns, having generated its statement. *)
LEMMA ReturnAdds ==
  ASSUME OrderInv, stack # <<>>, body' = body, NEW r, Return(r),
         r \in (1 .. Len(blocks')) \cup {NONE},
         NEW b, Adds(blocks, blocks', b, Top.path), Behind(blocks, b, Top.path)
  PROVE  OrderInv' /\ Grown
<1>1. stack' = Callers /\ ret' = r
  BY DEF Return
<1>2. /\ blocks' \in Seq(BasicBlock) /\ blocks \in Seq(BasicBlock) /\ SourceOrder(blocks)
      /\ Len(blocks) \in Nat /\ Len(blocks') \in Nat /\ Len(blocks) <= Len(blocks')
  BY ActiveCall DEF Adds
<1> DEFINE l == Top.path
<1>3. l \in Seq(Nat) /\ Within(Top.path, l) /\ Adds(blocks, blocks', b, l) /\ Behind(blocks, b, l)
  BY CursorWithin, WithinSelf
<1>4. stack' # <<>> => Passed(blocks, Cursor(stack'[Len(stack')]))
                       /\ Before(l, Cursor(stack'[Len(stack')]))
  BY <1>1, CallerCursor
<1>5. InLoops(stack', blocks')
  BY <1>1, <1>3, LoopsAdd
<1> HIDE DEF l
<1>6. SourceOrder(blocks') /\ \A c : Passed(blocks, c) /\ Before(l, c) => Passed(blocks', c)
  BY <1>2, <1>3, AddsOrder
<1>7. Calls(stack', Len(blocks'))
  BY <1>1, <1>2, ActiveCall, CallsMore
<1>8. Grown
  BY <1>2, <1>3, GrownAdds
<1>9. OrderInv'
  BY <1>1, <1>2, <1>4, <1>5, <1>6, <1>7, OrderAssembled
<1>10. QED
  BY <1>8, <1>9

(* The running call goes on, with other local variables. *)
LEMMA CallOn ==
  ASSUME OrderInv, stack # <<>>, body' = body, ret' = ret,
         blocks' \in Seq(BasicBlock), Len(blocks) <= Len(blocks'), SourceOrder(blocks'),
         NEW f, CallOK(f, Len(blocks')), f.path = Top.path, f.at = "start",
         stack' = Append(Callers, f), InLoops(Callers, blocks'), Passed(blocks', Cursor(f))
  PROVE  OrderInv'
<1>1. /\ Len(blocks) \in Nat /\ Len(blocks') \in Nat /\ Calls(Callers, Len(blocks))
      /\ ret \in (1 .. Len(blocks)) \cup {NONE}
      /\ \A j \in DOMAIN Callers : Under(Callers[j], Top)
  BY ActiveCall DEF BlockIds
<1>2. Calls(Callers, Len(blocks')) /\ ret' \in (1 .. Len(blocks')) \cup {NONE}
  BY <1>1, CallsMore
<1>3. \A j \in DOMAIN Callers : Under(Callers[j], f)
  BY <1>1 DEF Under
<1>4. /\ Calls(stack', Len(blocks')) /\ Len(Callers) \in Nat /\ Len(stack') = Len(Callers) + 1
      /\ DOMAIN stack' = 1 .. Len(Callers) + 1 /\ DOMAIN Callers = 1 .. Len(Callers)
      /\ stack'[Len(Callers) + 1] = f /\ \A k \in 1 .. Len(Callers) : stack'[k] = Callers[k]
  <2> DEFINE n == Len(blocks')
  <2>1. n \in Nat /\ Calls(Callers, n) /\ CallOK(f, n)
    BY <1>1, <1>2
  <2> HIDE DEF n
  <2>2. Calls(stack', n)
    BY <1>3, <2>1, CallsPushed
  <2>3. /\ Len(Callers) \in Nat /\ Len(stack') = Len(Callers) + 1
        /\ DOMAIN stack' = 1 .. Len(Callers) + 1 /\ DOMAIN Callers = 1 .. Len(Callers)
        /\ stack'[Len(Callers) + 1] = f /\ \A k \in 1 .. Len(Callers) : stack'[k] = Callers[k]
    BY <1>3, <2>1, CallsPushed
  <2>4. QED
    BY <2>2, <2>3 DEF n
<1>5. InLoops(stack', blocks')
  <2>1. \A k \in DOMAIN stack' : k = Len(Callers) + 1 \/ k \in DOMAIN Callers
    BY <1>4
  <2>2. ASSUME NEW k \in DOMAIN stack', stack'[k].at = "body",
                NEW i \in 1 .. Len(blocks'[stack'[k].first].instrs)
        PROVE  Encloses(stack'[k].path, blocks'[stack'[k].first].instrs[i])
    <3>1. k \in DOMAIN Callers /\ stack'[k] = Callers[k]
      BY <1>4, <2>1, <2>2
    <3>2. QED
      BY <2>2, <3>1 DEF InLoops
  <2>3. QED
    BY <2>2 DEF InLoops
<1>6. Passed(blocks', Cursor(stack'[Len(stack')]))
  BY <1>4
<1>7. QED
  BY <1>2, <1>4, <1>5, <1>6, OrderAssembled

(* The running call, now f, calls generate_statement on a child. *)
LEMMA CallDown ==
  ASSUME OrderInv, stack # <<>>, body' = body, ret' = ret,
         blocks' \in Seq(BasicBlock), Len(blocks) <= Len(blocks'), SourceOrder(blocks'),
         NEW f, CallOK(f, Len(blocks')), f.path = Top.path, f.at # "start",
         f.at = "body" => blocks'[f.first].instrs = <<>>,
         NEW g, CallOK(g, Len(blocks')), g.path = Append(Top.path, Index(f)), g.at = "start",
         stack' = Callers \o <<f, g>>, InLoops(Callers, blocks'),
         Passed(blocks', g.path)
  PROVE  OrderInv'
<1> DEFINE mid == Append(Callers, f)
<1>1. /\ Len(blocks) \in Nat /\ Len(blocks') \in Nat /\ Calls(Callers, Len(blocks))
      /\ ret \in (1 .. Len(blocks)) \cup {NONE}
      /\ \A j \in DOMAIN Callers : Under(Callers[j], Top)
      /\ f \in TreeFrame /\ g \in TreeFrame
  BY ActiveCall DEF BlockIds, CallOK
<1>2. Calls(Callers, Len(blocks')) /\ ret' \in (1 .. Len(blocks')) \cup {NONE}
  BY <1>1, CallsMore
<1>3. \A j \in DOMAIN Callers : Under(Callers[j], f)
  BY <1>1 DEF Under
<1>4. /\ Calls(mid, Len(blocks')) /\ Len(Callers) \in Nat /\ Len(mid) = Len(Callers) + 1
      /\ DOMAIN mid = 1 .. Len(Callers) + 1 /\ DOMAIN Callers = 1 .. Len(Callers)
      /\ mid[Len(Callers) + 1] = f /\ \A k \in 1 .. Len(Callers) : mid[k] = Callers[k]
  <2> DEFINE n == Len(blocks')
  <2>1. n \in Nat /\ Calls(Callers, n) /\ CallOK(f, n) /\ mid = Append(Callers, f)
    BY <1>1, <1>2
  <2> HIDE DEF n, mid
  <2>2. Calls(mid, n)
    BY <1>3, <2>1, CallsPushed
  <2>3. /\ Len(Callers) \in Nat /\ Len(mid) = Len(Callers) + 1
        /\ DOMAIN mid = 1 .. Len(Callers) + 1 /\ DOMAIN Callers = 1 .. Len(Callers)
        /\ mid[Len(Callers) + 1] = f /\ \A k \in 1 .. Len(Callers) : mid[k] = Callers[k]
    BY <1>3, <2>1, CallsPushed
  <2>4. QED
    BY <2>2, <2>3 DEF n
<1>5. stack' = Append(mid, g)
  BY <1>1 DEF Calls
<1>6. /\ f.path \in Seq(Nat) /\ Index(f) \in Nat
      /\ g.path \in Seq(Nat) /\ Within(f.path, g.path) /\ Within(g.path, g.path)
      /\ Under(f, g)
  <2>1. f.path \in Seq(Nat) /\ Index(f) \in Nat /\ g.path \in Seq(Nat)
    BY <1>1 DEF TreeFrame, Index
  <2>2. Within(f.path, g.path) /\ Within(g.path, g.path)
    BY <2>1, WithinSelf, WithinLonger
  <2>3. QED
    BY <2>1, <2>2 DEF Under
<1>7. \A j \in DOMAIN mid : Under(mid[j], g)
  <2>1. \A j \in DOMAIN mid : j = Len(Callers) + 1 \/ j \in DOMAIN Callers
    BY <1>4
  <2>2. ASSUME NEW j \in DOMAIN Callers PROVE Under(Callers[j], g)
    <3>1. Callers[j] \in TreeFrame /\ Under(Callers[j], f)
      BY <1>2, <1>3 DEF Calls, CallOK
    <3>2. /\ Callers[j].path \in Seq(Nat) /\ Index(Callers[j]) \in Nat
          /\ Append(Callers[j].path, Index(Callers[j])) \in Seq(Nat)
      <4>1. Callers[j].path \in Seq(Nat) /\ Index(Callers[j]) \in Nat
        BY <3>1 DEF TreeFrame, Index
      <4>2. QED
        BY <4>1, AppendProperties
    <3>3. QED
      BY <1>6, <3>1, <3>2, WithinTransitive DEF Under
  <2>3. QED
    BY <1>4, <1>6, <2>1, <2>2
<1> HIDE DEF mid
<1>8. /\ Calls(stack', Len(blocks')) /\ Len(stack') = Len(mid) + 1
      /\ DOMAIN stack' = 1 .. Len(mid) + 1
      /\ stack'[Len(mid) + 1] = g /\ \A k \in 1 .. Len(mid) : stack'[k] = mid[k]
  <2> DEFINE n == Len(blocks')
             st == stack'
  <2>1. n \in Nat /\ Calls(mid, n) /\ CallOK(g, n) /\ st = Append(mid, g)
    BY <1>1, <1>4, <1>5
  <2> HIDE DEF n, st
  <2>2. Calls(st, n)
    BY <1>7, <2>1, CallsPushed
  <2>3. /\ Len(st) = Len(mid) + 1 /\ DOMAIN st = 1 .. Len(mid) + 1
        /\ st[Len(mid) + 1] = g /\ \A k \in 1 .. Len(mid) : st[k] = mid[k]
    BY <1>7, <2>1, CallsPushed
  <2>4. QED
    BY <2>2, <2>3 DEF n, st
<1>9. InLoops(stack', blocks')
  <2>1. \A k \in DOMAIN stack' :
          \/ k = Len(mid) + 1
          \/ k = Len(Callers) + 1 /\ stack'[k] = f
          \/ k \in DOMAIN Callers /\ stack'[k] = Callers[k]
    BY <1>4, <1>8
  <2>2. stack'[Len(mid) + 1].at # "body"
    BY <1>8
  <2>3. Len(<<>>) = 0
    OBVIOUS
  <2>4. ASSUME NEW k \in DOMAIN stack', stack'[k].at = "body"
        PROVE  \A i \in 1 .. Len(blocks'[stack'[k].first].instrs) :
                 Encloses(stack'[k].path, blocks'[stack'[k].first].instrs[i])
    <3>1. CASE k = Len(Callers) + 1 /\ stack'[k] = f
      BY <2>3, <2>4, <3>1
    <3>2. CASE k \in DOMAIN Callers /\ stack'[k] = Callers[k]
      BY <2>4, <3>2 DEF InLoops
    <3>3. QED
      BY <2>1, <2>2, <2>4, <3>1, <3>2
  <2>5. QED
    BY <2>4 DEF InLoops
<1>10. Passed(blocks', Cursor(stack'[Len(stack')]))
  <2>1. Cursor(g) \in Seq(Nat) /\ Within(g.path, Cursor(g))
    <3>1. g.i \in Nat
      BY <1>1 DEF TreeFrame
    <3>2. QED
      BY <1>6, <3>1, WithinLonger DEF Cursor
  <2>2. Passed(blocks', Cursor(g))
    BY <1>6, <2>1, PassedWithin
  <2>3. QED
    BY <1>8, <2>2
<1>11. QED
  BY <1>2, <1>8, <1>9, <1>10, OrderAssembled

-----------------------------------------------------------------------------
(* A call of generate_statement on a node. *)
LEMMA NewCall ==
  ASSUME TreeShapes, NEW kid \in Nodes, NEW p \in Seq(Nat), NEW k \in Nat,
         NEW n \in Nat, NEW b \in 1 .. n
  PROVE  LET g == Call(kid.kind, kid, Append(p, k), b)
         IN  CallOK(g, n) /\ g.path = Append(p, k) /\ g.at = "start"
<1>1. kid.kind \in {"expr", "return", "block", "if", "while"}
  BY DEF TreeShapes
<1> DEFINE q == Append(p, k)
<1>2. q \in Seq(Nat) /\ b \in Nat
  BY AppendProperties
<1> HIDE DEF q
<1>3. Call(kid.kind, kid, q, b) \in TreeFrame
  BY <1>1, <1>2 DEF Call, TreeFrame
<1>4. QED
  BY <1>2, <1>3 DEF Call, CallOK, q

(* A statement that starts and is no list. *)
LEMMA StatementStarts ==
  ASSUME OrderInv, stack # <<>>, Top.at = "start", Top.proc # "block"
  PROVE  /\ Top.block \in 1 .. Len(blocks) /\ Top.path \in Seq(Nat)
         /\ Passed(blocks, Top.path) /\ Behind(blocks, Top.block, Top.path)
         /\ Adds(blocks, Emitted(Top.block, Top.path), Top.block, Top.path)
         /\ Len(Emitted(Top.block, Top.path)) = Len(blocks)
         /\ Emitted(Top.block, Top.path) \in Seq(BasicBlock)
<1>1. /\ Top.block \in 1 .. Len(blocks) /\ Cursor(Top) = Top.path
      /\ Passed(blocks, Top.path) /\ blocks \in Seq(BasicBlock)
  BY ActiveCall DEF CallOK, Cursor
<1>2. QED
  BY <1>1, CursorWithin, EmitAdds DEF Behind

(* The statements, one after the other: an expression statement, *)
LEMMA ExpressionOrder ==
  ASSUME OrderInv, GenerateExpressionStatement
  PROVE  OrderInv' /\ Grown
<1>1. /\ stack # <<>> /\ Top.proc = "expr" /\ Top.at = "start"
      /\ blocks' = Emitted(Top.block, Top.path) /\ Return(Top.block) /\ body' = body
  BY DEF GenerateExpressionStatement, Running
<1>2. /\ Top.block \in 1 .. Len(blocks') /\ Behind(blocks, Top.block, Top.path)
      /\ Adds(blocks, blocks', Top.block, Top.path)
  BY <1>1, StatementStarts
<1>3. QED
  BY <1>1, <1>2, ReturnAdds

(* a return statement, which also closes the block, *)
LEMMA ReturnOrder ==
  ASSUME OrderInv, GenerateReturnStatement
  PROVE  OrderInv' /\ Grown
<1> DEFINE b == Top.block
           mid == Emitted(b, Top.path)
<1>1. /\ stack # <<>> /\ Top.proc = "return" /\ Top.at = "start"
      /\ blocks' = Closed(mid, b, Ret) /\ Return(NONE) /\ body' = body
  BY DEF GenerateReturnStatement, Running, Closed
<1>2. /\ b \in 1 .. Len(mid) /\ Behind(blocks, b, Top.path)
      /\ Adds(blocks, mid, b, Top.path) /\ mid \in Seq(BasicBlock)
      /\ blocks \in Seq(BasicBlock)
  BY <1>1, StatementStarts, ActiveCall
<1> HIDE DEF b, mid
<1>3. Same(mid, blocks')
  BY <1>1, <1>2, CloseSame, Terminators
<1>4. Adds(blocks, blocks', b, Top.path)
  BY <1>2, <1>3, AddsThenSame
<1>5. QED
  BY <1>1, <1>2, <1>4, ReturnAdds

(* Nothing is generated. *)
LEMMA SameSelf ==
  ASSUME blocks \in Seq(BasicBlock), blocks' = blocks
  PROVE  Same(blocks, blocks')
BY DEF Same

(* a child of a list, which is a declaration or called, or the end of the list, *)
LEMMA CompoundOrder ==
  ASSUME TreeShapes, OrderInv, GenerateCompoundStatement
  PROVE  OrderInv' /\ Grown
<1> DEFINE b == Top.block
           kids == Top.node.kids
<1>1. stack # <<>> /\ Top.proc = "block" /\ Top.at = "start" /\ body' = body
  BY DEF GenerateCompoundStatement, Running
<1>2. /\ blocks \in Seq(BasicBlock) /\ SourceOrder(blocks) /\ Len(blocks) \in Nat
      /\ CallOK(Top, Len(blocks)) /\ Top \in TreeFrame
      /\ Top.i \in Nat /\ Top.path \in Seq(Nat)
      /\ b \in (1 .. Len(blocks)) \cup {NONE}
      /\ Top.node \in Nodes /\ Top.node.kind = "block"
      /\ Passed(blocks, Append(Top.path, Top.i))
      /\ Append(Top.path, Top.i) \in Seq(Nat)
  <2>1. /\ blocks \in Seq(BasicBlock) /\ SourceOrder(blocks) /\ Len(blocks) \in Nat
        /\ CallOK(Top, Len(blocks)) /\ Top \in TreeFrame /\ Passed(blocks, Cursor(Top))
    BY <1>1, ActiveCall
  <2>2. Top.i \in Nat /\ Top.path \in Seq(Nat) /\ Cursor(Top) \in Seq(Nat)
    BY <1>1, CursorWithin
  <2>3. Cursor(Top) = Append(Top.path, Top.i)
    BY <1>1 DEF Cursor
  <2>4. Top.node \in Nodes /\ Top.node.kind = "block" /\ b \in (1 .. Len(blocks)) \cup {NONE}
    BY <1>1, <2>1 DEF CallOK, TreeFrame
  <2>5. QED
    BY <2>1, <2>2, <2>3, <2>4
<1>3. CASE b = NONE \/ Top.i > Len(kids)
  <2>1. Return(b) /\ blocks' = blocks
    BY <1>1, <1>3 DEF GenerateCompoundStatement
  <2>2. Same(blocks, blocks')
    BY <1>2, <2>1, SameSelf
  <2>3. b \in (1 .. Len(blocks')) \cup {NONE}
    BY <1>2, <2>1
  <2>4. QED
    BY <1>1, <2>1, <2>2, <2>3, ReturnSame
<1>4. CASE /\ ~(b = NONE \/ Top.i > Len(kids))
           /\ kids[Top.i].kind = "decl"
  <2> DEFINE f == [Top EXCEPT !.i = @ + 1]
             l == Append(Top.path, Top.i)
  <2>1. blocks' = Emitted(b, l) /\ stack' = Append(Callers, f) /\ ret' = ret
    BY <1>1, <1>4 DEF GenerateCompoundStatement
  <2>2. f.path = Top.path /\ f.at = "start" /\ CallOK(f, Len(blocks))
        /\ Cursor(f) = Append(Top.path, Top.i + 1)
    <3> DEFINE j == Top.i + 1
    <3>1. j \in Nat /\ f = [Top EXCEPT !.i = j]
      BY <1>2
    <3> HIDE DEF f, j
    <3>2. f \in TreeFrame /\ f.i = j /\ f.path = Top.path /\ f.at = "start" /\ f.proc = "block"
      <4>1. j \in Nat \ {0} /\ Top \in TreeFrame
        BY <1>2 DEF j
      <4>2. QED
        BY <1>1, <3>1, <4>1 DEF TreeFrame
    <3>3. CallOK(f, Len(blocks))
      BY <1>1, <1>2, <3>1, <3>2 DEF CallOK, TreeFrame
    <3>4. QED
      BY <3>2, <3>3 DEF Cursor, j
  <2>3. l \in Seq(Nat) /\ Within(l, l) /\ Within(Top.path, l)
        /\ Before(l, Append(Top.path, Top.i + 1))
    BY <1>2, WithinSelf, WithinLonger, ChildBeforeNext
  <2>4. Passed(blocks, Append(Top.path, Top.i + 1))
    BY <1>2, <2>3, PassedNext
  <2>5. Behind(blocks, b, l)
    BY <1>2 DEF Behind
  <2> HIDE DEF f, l
  <2>6. /\ Adds(blocks, blocks', b, l) /\ Len(blocks') = Len(blocks)
        /\ blocks' \in Seq(BasicBlock)
    BY <1>2, <1>4, <2>1, <2>3, EmitAdds
  <2>7. InLoops(Callers, blocks')
    BY <1>1, <2>3, <2>6, LoopsAdd
  <2>8. SourceOrder(blocks') /\ Passed(blocks', Cursor(f))
    BY <1>2, <2>2, <2>3, <2>4, <2>5, <2>6, AddsOrder
  <2>9. Grown
    BY <1>2, <2>3, <2>5, <2>6, GrownAdds
  <2>10. Len(blocks) <= Len(blocks') /\ CallOK(f, Len(blocks'))
    BY <1>2, <2>2, <2>6
  <2>11. OrderInv'
    BY <1>1, <2>1, <2>2, <2>6, <2>7, <2>8, <2>10, CallOn
  <2>12. QED
    BY <2>9, <2>11
<1>5. CASE /\ ~(b = NONE \/ Top.i > Len(kids))
           /\ kids[Top.i].kind # "decl"
  <2> DEFINE f == [Top EXCEPT !.at = "called"]
             kid == kids[Top.i]
             g == Call(kid.kind, kid, Append(Top.path, Top.i), b)
  <2>1. stack' = Callers \o <<f, g>> /\ ret' = ret /\ blocks' = blocks
    <3>1. CallChild(f, Top.i, b) /\ blocks' = blocks
      BY <1>1, <1>5 DEF GenerateCompoundStatement
    <3>2. f.node = Top.node /\ f.path = Top.path
      BY <1>2 DEF TreeFrame
    <3>3. QED
      BY <3>1, <3>2 DEF CallChild
  <2>2. /\ CallOK(f, Len(blocks)) /\ f.path = Top.path /\ f.at = "called"
        /\ Index(f) = Top.i
    BY <1>1, <1>2 DEF CallOK, TreeFrame, Index
  <2>3. kid \in Nodes
    <3>1. IsList(kids, Nodes)
      BY <1>2 DEF TreeShapes
    <3>2. Top.i \in 1 .. Len(kids)
      <4>1. Len(kids) \in Nat /\ Top.i <= Len(kids)
        BY <1>2, <1>5, <3>1 DEF IsList
      <4>2. Top.i # 0
        BY <1>2 DEF TreeFrame
      <4>3. QED
        BY <1>2, <4>1, <4>2
    <3>3. QED
      BY <1>5, <3>1, <3>2 DEF IsList
  <2>4. CallOK(g, Len(blocks)) /\ g.path = Append(Top.path, Top.i) /\ g.at = "start"
    <3>1. Top.path \in Seq(Nat) /\ Top.i \in Nat /\ Len(blocks) \in Nat /\ b \in 1 .. Len(blocks)
      BY <1>2, <1>5
    <3> HIDE DEF kid
    <3>2. QED
      BY <2>3, <3>1, NewCall
  <2>5. Same(blocks, blocks')
    BY <1>2, <2>1, SameSelf
  <2>6. InLoops(Callers, blocks')
    BY <1>1, <2>5, LoopsSame
  <2> HIDE DEF f, g, b, kids
  <2>7. /\ blocks' \in Seq(BasicBlock) /\ Len(blocks) <= Len(blocks') /\ SourceOrder(blocks')
        /\ CallOK(f, Len(blocks')) /\ CallOK(g, Len(blocks'))
        /\ Passed(blocks', g.path)
    BY <1>2, <2>1, <2>2, <2>4
  <2>8. OrderInv'
    BY <1>1, <2>1, <2>2, <2>4, <2>6, <2>7, CallDown
  <2>9. QED
    BY <1>2, <2>5, <2>8, GrownSame
<1>6. QED
  BY <1>3, <1>4, <1>5

(* the list after a child has returned, *)
LEMMA ContinueOrder ==
  ASSUME OrderInv, ContinueCompoundStatement
  PROVE  OrderInv' /\ Grown
<1> DEFINE j == Top.i + 1
           f == [Top EXCEPT !.at = "start", !.i = j, !.block = ret]
<1>1. /\ stack # <<>> /\ Top.proc = "block" /\ Top.at = "called" /\ body' = body
      /\ stack' = Append(Callers, f) /\ blocks' = blocks /\ ret' = ret
  BY DEF ContinueCompoundStatement, Running
<1>2. /\ blocks \in Seq(BasicBlock) /\ SourceOrder(blocks) /\ Len(blocks) \in Nat
      /\ CallOK(Top, Len(blocks)) /\ Top \in TreeFrame /\ Passed(blocks, Cursor(Top))
      /\ ret \in (1 .. Len(blocks)) \cup {NONE}
  BY <1>1, ActiveCall DEF BlockIds
<1>3. Top.i \in Nat \ {0} /\ j \in Nat \ {0} /\ ret \in Nat \cup {NONE}
  BY <1>2 DEF TreeFrame
<1> HIDE DEF j
<1>4. /\ f \in TreeFrame /\ f.i = j /\ f.path = Top.path /\ f.at = "start"
      /\ f.proc = "block" /\ f.block = ret /\ f.node = Top.node
  BY <1>1, <1>2, <1>3 DEF TreeFrame
<1>5. Cursor(f) = Cursor(Top)
  BY <1>1, <1>4 DEF Cursor, Index, j
<1> HIDE DEF f
<1>6. CallOK(f, Len(blocks))
  BY <1>1, <1>2, <1>4 DEF CallOK
<1>7. Same(blocks, blocks')
  BY <1>1, <1>2, SameSelf
<1>8. InLoops(Callers, blocks')
  BY <1>1, <1>7, LoopsSame
<1>9. /\ blocks' \in Seq(BasicBlock) /\ Len(blocks) <= Len(blocks') /\ SourceOrder(blocks')
      /\ CallOK(f, Len(blocks')) /\ Passed(blocks', Cursor(f))
  BY <1>1, <1>2, <1>5, <1>6
<1>10. OrderInv'
  BY <1>1, <1>4, <1>8, <1>9, CallOn
<1>11. QED
  BY <1>2, <1>7, <1>10, GrownSame

(* The instructions of the condition, then the call on the first child.      *)
LEMMA StatementCalls ==
  ASSUME OrderInv, stack # <<>>, body' = body, ret' = ret,
         Top.at = "start", Top.proc # "block",
         Adds(blocks, blocks', Top.block, Top.path), SourceOrder(blocks),
         NEW f, CallOK(f, Len(blocks')), f.path = Top.path, f.at # "start", Index(f) = 1,
         f.at = "body" => f.first > Len(blocks),
         NEW g, CallOK(g, Len(blocks')), g.path = Append(Top.path, 1), g.at = "start",
         stack' = Callers \o <<f, g>>
  PROVE  OrderInv' /\ Grown
<1> DEFINE l == Top.path
           c == Append(l, 1)
<1>1. /\ l \in Seq(Nat) /\ c \in Seq(Nat) /\ Within(l, c) /\ Within(Top.path, l)
      /\ Before(l, c)
  <2>1. l \in Seq(Nat) /\ 1 \in Nat
    BY CursorWithin
  <2>2. QED
    BY <2>1, WithinSelf, WithinLonger, BeforeChild
<1>2. /\ Passed(blocks, l) /\ Behind(blocks, Top.block, l) /\ blocks \in Seq(BasicBlock)
      /\ Adds(blocks, blocks', Top.block, l) /\ g.path = c
  BY StatementStarts, ActiveCall
<1> HIDE DEF l, c
<1>3. Passed(blocks, c)
  BY <1>1, <1>2, PassedWithin
<1>4. SourceOrder(blocks') /\ Passed(blocks', c)
  BY <1>1, <1>2, <1>3, AddsOrder
<1>5. InLoops(Callers, blocks')
  BY <1>1, <1>2, LoopsAdd
<1>6. Grown
  BY <1>1, <1>2, GrownAdds
<1>7. /\ blocks' \in Seq(BasicBlock) /\ Len(blocks) <= Len(blocks')
      /\ f.at = "body" => blocks'[f.first].instrs = <<>>
  <2>1. f.at = "body" => f.first \in 1 .. Len(blocks') /\ f.first > Len(blocks)
    BY DEF CallOK
  <2>2. QED
    BY <1>2, <2>1 DEF Adds
<1>8. Passed(blocks', g.path) /\ g.path = Append(Top.path, Index(f))
  BY <1>2, <1>4
<1>9. OrderInv'
  BY <1>4, <1>5, <1>7, <1>8, CallDown
<1>10. QED
  BY <1>6, <1>9

(* an if, with the call on its first branch, *)
LEMMA IfOrder ==
  ASSUME TreeShapes, OrderInv, GenerateIfStatement
  PROVE  OrderInv' /\ Grown
<1> DEFINE n == Len(blocks) + 1
           mid == Emitted(Top.block, Top.path)
           f == [Top EXCEPT !.at = "then", !.first = n]
           kid == Top.node.kids[1]
           g == Call(kid.kind, kid, Append(Top.path, 1), n)
<1>1. /\ stack # <<>> /\ Top.proc = "if" /\ Top.at = "start" /\ body' = body
      /\ blocks' = Append(mid, NewBlock) /\ CallChild(f, 1, n)
  BY DEF GenerateIfStatement, Running
<1>2. /\ blocks \in Seq(BasicBlock) /\ SourceOrder(blocks) /\ Len(blocks) \in Nat
      /\ CallOK(Top, Len(blocks)) /\ Top \in TreeFrame /\ Top.path \in Seq(Nat)
      /\ Adds(blocks, mid, Top.block, Top.path) /\ Len(mid) = Len(blocks)
      /\ mid \in Seq(BasicBlock)
  BY <1>1, ActiveCall, StatementStarts
<1>3. f.node = Top.node /\ f.path = Top.path
  BY <1>2 DEF TreeFrame
<1>4. stack' = Callers \o <<f, g>> /\ ret' = ret
  BY <1>1, <1>3 DEF CallChild
<1>5. kid \in Nodes
  <2>1. Top.node \in Nodes /\ Top.node.kind = "if"
    BY <1>1, <1>2 DEF CallOK, TreeFrame
  <2>2. Len(Top.node.kids) \in {1, 2} /\ \A i \in 1 .. Len(Top.node.kids) : Top.node.kids[i] \in Nodes
    BY <2>1 DEF TreeShapes
  <2>3. QED
    BY <2>2
<1> HIDE DEF mid, kid
<1>6. Same(mid, blocks') /\ Len(blocks') = n /\ n \in Nat /\ n \in 1 .. n
  BY <1>1, <1>2, AppendSame
<1>7. Adds(blocks, blocks', Top.block, Top.path)
  BY <1>2, <1>6, AddsThenSame
<1>8. CallOK(g, n) /\ g.path = Append(Top.path, 1) /\ g.at = "start"
  <2>1. n \in Nat /\ n \in 1 .. n
    BY <1>6
  <2> HIDE DEF n
  <2>2. QED
    BY <1>2, <1>5, <2>1, NewCall
<1>9. /\ CallOK(f, n) /\ f.at = "then" /\ Index(f) = 1
  <2>1. n \in Nat /\ \A b \in 1 .. Len(blocks) : b \in 1 .. n
    BY <1>2
  <2>2. n \in 1 .. n
    BY <1>6
  <2> HIDE DEF n
  <2>3. f \in TreeFrame /\ f.at = "then" /\ f.first = n /\ f.proc = "if" /\ f.block = Top.block
    BY <1>1, <1>2, <2>1 DEF TreeFrame
  <2>4. Top.block \in 1 .. Len(blocks) /\ f.node.kind = "if"
    BY <1>1, <1>2, <1>3 DEF CallOK
  <2> HIDE DEF f
  <2>5. QED
    BY <2>1, <2>2, <2>3, <2>4 DEF CallOK, Index
<1> HIDE DEF f, g, n
<1>10. QED
  BY <1>1, <1>2, <1>3, <1>4, <1>6, <1>7, <1>8, <1>9, StatementCalls

(* a while, with the call on its body, *)
LEMMA WhileOrder ==
  ASSUME TreeShapes, OrderInv, GenerateWhileStatement
  PROVE  OrderInv' /\ Grown
<1> DEFINE m == Len(blocks) + 1
           n == Len(blocks) + 2
           emitted == Emitted(Top.block, Top.path)
           closed == Closed(emitted, Top.block, CondBr(m, n))
           one == Append(closed, NewBlock)
           two == Append(one, NewBlock)
           f == [Top EXCEPT !.at = "body", !.first = m, !.second = n]
           kid == Top.node.kids[1]
           g == Call(kid.kind, kid, Append(Top.path, 1), m)
<1>1. /\ stack # <<>> /\ Top.proc = "while" /\ Top.at = "start" /\ body' = body
      /\ blocks' = closed \o <<NewBlock, NewBlock>> /\ CallChild(f, 1, m)
  BY DEF GenerateWhileStatement, Running, Closed
<1>2. /\ blocks \in Seq(BasicBlock) /\ SourceOrder(blocks) /\ Len(blocks) \in Nat
      /\ CallOK(Top, Len(blocks)) /\ Top \in TreeFrame /\ Top.path \in Seq(Nat)
      /\ Top.block \in 1 .. Len(blocks)
      /\ Adds(blocks, emitted, Top.block, Top.path) /\ Len(emitted) = Len(blocks)
      /\ emitted \in Seq(BasicBlock)
  BY <1>1, ActiveCall, StatementStarts
<1>3. f.node = Top.node /\ f.path = Top.path
  BY <1>2 DEF TreeFrame
<1>4. stack' = Callers \o <<f, g>> /\ ret' = ret
  BY <1>1, <1>3 DEF CallChild
<1>5. kid \in Nodes
  BY <1>1, <1>2 DEF CallOK, TreeFrame, TreeShapes
<1>6. /\ m \in Nat /\ n \in Nat /\ m \in 1 .. n /\ n \in 1 .. n /\ m > Len(blocks)
      /\ \A b \in 1 .. Len(blocks) : b \in 1 .. n
  BY <1>2
<1> HIDE DEF emitted, kid, m, n
<1>7. /\ Same(emitted, closed) /\ closed \in Seq(BasicBlock) /\ Len(closed) = Len(blocks)
  <2>1. CondBr(m, n) \in Term
    BY <1>6, Terminators
  <2>2. QED
    BY <1>2, <2>1, CloseSame
<1> HIDE DEF closed
<1>8. Same(closed, one) /\ one \in Seq(BasicBlock) /\ Len(one) = Len(blocks) + 1
  BY <1>7, AppendSame
<1>9. blocks' = two
  <2>1. NewBlock \in BasicBlock
    BY EmptySeq DEF NewBlock, BasicBlock
  <2> HIDE DEF NewBlock
  <2>2. QED
    BY <1>1, <1>7, <2>1
<1> HIDE DEF one
<1>10. Same(one, blocks') /\ Len(blocks') = n
  BY <1>2, <1>8, <1>9, AppendSame DEF n
<1>11. Adds(blocks, blocks', Top.block, Top.path)
  <2>1. Adds(blocks, closed, Top.block, Top.path)
    BY <1>2, <1>7, AddsThenSame
  <2>2. Adds(blocks, one, Top.block, Top.path)
    BY <1>2, <1>8, <2>1, AddsThenSame
  <2>3. QED
    BY <1>2, <1>10, <2>2, AddsThenSame
<1>12. CallOK(g, n) /\ g.path = Append(Top.path, 1) /\ g.at = "start"
  <2>1. Top.path \in Seq(Nat) /\ n \in Nat /\ m \in 1 .. n
    BY <1>2, <1>6
  <2>2. QED
    BY <1>5, <2>1, NewCall
<1>13. /\ CallOK(f, n) /\ f.at = "body" /\ Index(f) = 1 /\ f.first = m
  <2>1. /\ f \in TreeFrame /\ f.at = "body" /\ f.first = m /\ f.second = n
        /\ f.proc = "while" /\ f.block = Top.block
    BY <1>1, <1>2, <1>6 DEF TreeFrame
  <2>2. f.node.kind = "while"
    BY <1>1, <1>2, <1>3 DEF CallOK
  <2> HIDE DEF f
  <2>3. QED
    BY <1>2, <1>6, <2>1, <2>2 DEF CallOK, Index
<1> HIDE DEF f, g
<1>14. QED
  BY <1>1, <1>2, <1>3, <1>4, <1>6, <1>10, <1>11, <1>12, <1>13, StatementCalls

(* the second branch of an if, *)
LEMMA ElseOrder ==
  ASSUME TreeShapes, OrderInv, GenerateElse
  PROVE  OrderInv' /\ Grown
<1> DEFINE n == Len(blocks) + 1
           f == [Top EXCEPT !.at = "else", !.second = n]
           kid == Top.node.kids[2]
           g == Call(kid.kind, kid, Append(Top.path, 2), n)
<1>1. /\ stack # <<>> /\ Top.proc = "if" /\ Top.at = "then" /\ body' = body
      /\ Len(Top.node.kids) = 2
      /\ blocks' = Append(blocks, NewBlock) /\ CallChild(f, 2, n)
  BY DEF GenerateElse, Running
<1>2. /\ blocks \in Seq(BasicBlock) /\ SourceOrder(blocks) /\ Len(blocks) \in Nat
      /\ CallOK(Top, Len(blocks)) /\ Top \in TreeFrame /\ Top.path \in Seq(Nat)
      /\ Passed(blocks, Cursor(Top))
  BY <1>1, ActiveCall, CursorWithin
<1>3. Cursor(Top) = Append(Top.path, 2)
  BY <1>1 DEF Cursor, Index
<1>4. f.node = Top.node /\ f.path = Top.path
  BY <1>2 DEF TreeFrame
<1>5. stack' = Callers \o <<f, g>> /\ ret' = ret
  BY <1>1, <1>4 DEF CallChild
<1>6. kid \in Nodes
  <2>1. Top.node \in Nodes /\ Top.node.kind = "if"
    BY <1>1, <1>2 DEF CallOK, TreeFrame
  <2>2. \A i \in 1 .. Len(Top.node.kids) : Top.node.kids[i] \in Nodes
    BY <2>1 DEF TreeShapes
  <2>3. 2 \in 1 .. Len(Top.node.kids)
    BY <1>1
  <2>4. QED
    BY <2>2, <2>3
<1>7. /\ n \in Nat /\ n \in 1 .. n /\ Len(blocks) <= n
      /\ \A b \in 1 .. Len(blocks) : b \in 1 .. n
  BY <1>2
<1>8. Same(blocks, blocks') /\ Len(blocks') = n /\ blocks' \in Seq(BasicBlock)
  BY <1>1, <1>2, AppendSame
<1> HIDE DEF n, kid
<1>9. CallOK(g, n) /\ g.path = Append(Top.path, 2) /\ g.at = "start"
  <2>1. Top.path \in Seq(Nat) /\ n \in Nat /\ n \in 1 .. n
    BY <1>2, <1>7
  <2>2. QED
    BY <1>6, <2>1, NewCall
<1>10. CallOK(f, n) /\ f.at = "else" /\ Index(f) = 2
  <2>1. /\ f \in TreeFrame /\ f.at = "else" /\ f.second = n /\ f.first = Top.first
        /\ f.proc = "if" /\ f.block = Top.block
    BY <1>1, <1>2, <1>7 DEF TreeFrame
  <2>2. /\ f.node.kind = "if" /\ Top.first \in 1 .. Len(blocks)
        /\ Top.block \in 1 .. Len(blocks)
    BY <1>1, <1>2, <1>4 DEF CallOK
  <2> HIDE DEF f
  <2>3. QED
    BY <1>7, <2>1, <2>2 DEF CallOK, Index
<1> HIDE DEF f, g
<1>11. SourceOrder(blocks') /\ Passed(blocks', Append(Top.path, 2))
  BY <1>2, <1>3, <1>8, SameOrder
<1>12. InLoops(Callers, blocks')
  BY <1>1, <1>8, LoopsSame
<1>13. OrderInv'
  BY <1>1, <1>4, <1>5, <1>7, <1>8, <1>9, <1>10, <1>11, <1>12, CallDown
<1>14. QED
  BY <1>2, <1>8, <1>13, GrownSame

(* the end of an if, *)
LEMMA FinishIfOrder ==
  ASSUME OrderInv, FinishIfStatement
  PROVE  OrderInv' /\ Grown
<1> DEFINE n == Len(blocks) + 1
           no_else == Len(Top.node.kids) = 1
           false_block == IF no_else THEN n ELSE Top.second
           t == CondBr(Top.first, false_block)
           joined == JoinTo(n, {Top.first, Top.second})
           closed == Closed(joined, Top.block, t)
<1>1. /\ stack # <<>> /\ Top.proc = "if" /\ Top.at = IF no_else THEN "then" ELSE "else"
      /\ body' = body /\ blocks' = Append(closed, NewBlock) /\ Return(n)
  BY DEF FinishIfStatement, Running, Closed
<1>2. /\ blocks \in Seq(BasicBlock) /\ Len(blocks) \in Nat /\ CallOK(Top, Len(blocks))
  BY <1>1, ActiveCall
<1>3. n \in Nat
  BY <1>2
<1>4. t \in Term
  <2>1. Top.first \in Nat /\ (~no_else => Top.second \in Nat)
    BY <1>1, <1>2 DEF CallOK
  <2>2. false_block \in Nat
    BY <1>3, <2>1
  <2> HIDE DEF false_block
  <2>3. QED
    BY <2>1, <2>2, Terminators
<1>5. Top.block \in 1 .. Len(blocks)
  BY <1>1, <1>2 DEF CallOK
<1> HIDE DEF t
<1>6. Same(blocks, joined) /\ Len(joined) = Len(blocks) /\ joined \in Seq(BasicBlock)
  BY <1>2, <1>3, JoinSame
<1> HIDE DEF joined
<1>7. Same(joined, closed) /\ Len(closed) = Len(blocks) /\ closed \in Seq(BasicBlock)
  BY <1>4, <1>5, <1>6, CloseSame
<1> HIDE DEF closed
<1>8. Same(closed, blocks') /\ Len(blocks') = n
  BY <1>1, <1>7, AppendSame
<1>9. Same(blocks, blocks')
  BY <1>2, <1>6, <1>7, <1>8, SameThenSame
<1>10. n \in (1 .. Len(blocks')) \cup {NONE}
  BY <1>2, <1>8
<1> HIDE DEF n
<1>11. QED
  BY <1>1, <1>9, <1>10, ReturnSame

(* the end of a while, whose condition is put behind its body, *)
LEMMA FinishWhileOrder ==
  ASSUME OrderInv, FinishWhileStatement
  PROVE  OrderInv' /\ Grown
<1> DEFINE b == Top.first
           mid == Emitted(b, Top.path)
<1>1. /\ stack # <<>> /\ Top.proc = "while" /\ Top.at = "body" /\ body' = body
      /\ blocks' = Closed(mid, b, CondBr(b, Top.second)) /\ Return(Top.second)
  BY DEF FinishWhileStatement, Running, Closed
<1>2. /\ blocks \in Seq(BasicBlock) /\ Len(blocks) \in Nat /\ Top.path \in Seq(Nat)
      /\ b \in 1 .. Len(blocks) /\ Top.second \in 1 .. Len(blocks)
  BY <1>1, ActiveCall, CursorWithin DEF CallOK
<1>3. Behind(blocks, b, Top.path)
  <2>1. InLoops(stack, blocks) /\ Len(stack) \in DOMAIN stack /\ Top = stack[Len(stack)]
    BY <1>1, ActiveCall
  <2>2. QED
    BY <1>1, <2>1 DEF InLoops, Behind
<1>4. Adds(blocks, mid, b, Top.path) /\ Len(mid) = Len(blocks) /\ mid \in Seq(BasicBlock)
  BY <1>2, EmitAdds
<1> HIDE DEF b, mid
<1>5. CondBr(b, Top.second) \in Term
  BY <1>2, Terminators
<1>6. Same(mid, blocks') /\ Len(blocks') = Len(blocks)
  BY <1>1, <1>2, <1>4, <1>5, CloseSame
<1>7. Adds(blocks, blocks', b, Top.path)
  BY <1>2, <1>4, <1>6, AddsThenSame
<1>8. Top.second \in (1 .. Len(blocks')) \cup {NONE}
  BY <1>2, <1>6
<1>9. QED
  BY <1>1, <1>3, <1>7, <1>8, ReturnAdds

(* the end of the function, *)
LEMMA FinishFunctionOrder ==
  ASSUME OrderInv, FinishFunction
  PROVE  OrderInv' /\ Grown
<1>1. /\ stack = <<>> /\ body # NONE /\ UNCHANGED <<body, stack, ret>>
      /\ blocks' = IF ret # NONE /\ blocks[ret].term = NONE THEN Closed(blocks, ret, Ret)
                   ELSE blocks
  BY DEF FinishFunction, Closed
<1>2. /\ blocks \in Seq(BasicBlock) /\ ret \in (1 .. Len(blocks)) \cup {NONE}
      /\ Calls(stack, Len(blocks)) /\ SourceOrder(blocks)
  BY DEF OrderInv, BlockIds, InstructionsInOrder
<1>3. Same(blocks, blocks') /\ Len(blocks') = Len(blocks) /\ blocks' \in Seq(BasicBlock)
  <2>1. CASE ret # NONE /\ blocks[ret].term = NONE
    BY <1>1, <1>2, <2>1, CloseSame, Terminators
  <2>2. CASE ~(ret # NONE /\ blocks[ret].term = NONE)
    BY <1>1, <1>2, <2>2, SameSelf
  <2>3. QED
    BY <2>1, <2>2
<1>4. SourceOrder(blocks')
  BY <1>2, <1>3, SameOrder
<1>5. InLoops(stack', blocks')
  BY <1>1, EmptySeq DEF InLoops
<1>6. OrderInv'
  BY <1>1, <1>2, <1>3, <1>4, <1>5 DEF OrderInv, BlockIds, InstructionsInOrder
<1>7. QED
  BY <1>2, <1>3, <1>6, GrownSame

(* and its beginning. *)
LEMMA FunctionOrder ==
  ASSUME TreeShapes, OrderInv, NEW b \in Nodes, b.kind = "block", GenerateFunction(b)
  PROVE  OrderInv' /\ Grown
<1> DEFINE f == Call("block", b, <<>>, 1)
<1>1. /\ stack = <<>> /\ blocks = <<>> /\ body' = b /\ ret' = ret /\ b # NONE
      /\ stack' = <<f>> /\ blocks' = <<NewBlock>> /\ ret \in (1 .. Len(blocks)) \cup {NONE}
  BY DEF GenerateFunction, OrderInv, TreeShapes, BlockIds
<1>2. NewBlock \in BasicBlock /\ NewBlock.instrs = <<>>
  BY EmptySeq DEF NewBlock, BasicBlock
<1> HIDE DEF NewBlock
<1>3. /\ blocks' \in Seq(BasicBlock) /\ Len(blocks') = 1 /\ ret' = NONE
      /\ \A c \in 1 .. Len(blocks') : blocks'[c].instrs = <<>>
  <2>1. Len(blocks) = 0
    BY <1>1
  <2>2. QED
    BY <1>1, <1>2, <2>1
<1>4. f \in TreeFrame /\ CallOK(f, 1) /\ f.at = "start"
  <2>1. <<>> \in Seq(Nat) /\ 1 \in Nat
    OBVIOUS
  <2>2. QED
    BY <2>1 DEF Call, TreeFrame, CallOK
<1> HIDE DEF f
<1>5. /\ stack' \in Seq(TreeFrame) /\ DOMAIN stack' = 1 .. 1 /\ stack'[1] = f
      /\ Len(stack') = 1
  BY <1>1, <1>4
<1>6. Calls(stack', Len(blocks'))
  BY <1>3, <1>4, <1>5 DEF Calls
<1>7. InLoops(stack', blocks')
  BY <1>4, <1>5 DEF InLoops
<1>8. Len(<<>>) = 0
  OBVIOUS
<1>9. SourceOrder(blocks') /\ Passed(blocks', Cursor(Top'))
  BY <1>3, <1>8 DEF SourceOrder, Passed
<1>10. OrderInv'
  BY <1>1, <1>3, <1>6, <1>7, <1>9 DEF OrderInv, InstructionsInOrder, BlockIds
<1>11. Grown
  <2>1. BlockIds = {}
    BY <1>1, <1>8 DEF BlockIds
  <2>2. QED
    BY <1>3, <2>1 DEF Grown, BlockIds
<1>12. QED
  BY <1>10, <1>11

(* Before a function is generated. *)
LEMMA OrderInit == Init => OrderInv
<1> SUFFICES ASSUME Init PROVE OrderInv
  OBVIOUS
<1>1. <<>> \in Seq(BasicBlock) /\ <<>> \in Seq(TreeFrame) /\ Len(<<>>) = 0
  BY EmptySeq
<1>2. Calls(stack, Len(blocks))
  BY <1>1, EmptySeq DEF Init, Calls
<1>3. InLoops(stack, blocks) /\ SourceOrder(blocks)
  BY <1>1, EmptySeq DEF Init, InLoops, SourceOrder
<1>4. QED
  BY <1>1, <1>2, <1>3 DEF Init, OrderInv, InstructionsInOrder

(* Every step of the generator on any body. *)
LEMMA OrderStep ==
  ASSUME TreeShapes, OrderInv, TreeNext
  PROVE  OrderInv' /\ Grown
<1>1. ASSUME NEW b \in Nodes, b.kind = "block", GenerateFunction(b)
      PROVE  OrderInv' /\ Grown
  BY <1>1, FunctionOrder
<1>2. CASE GenerateBody
  BY <1>2, ExpressionOrder, ReturnOrder, CompoundOrder, ContinueOrder, IfOrder, ElseOrder,
     FinishIfOrder, WhileOrder, FinishWhileOrder, FinishFunctionOrder DEF GenerateBody
<1>3. QED
  BY <1>1, <1>2 DEF TreeNext

(* A step that changes nothing. *)
LEMMA OrderStutter == OrderInv /\ UNCHANGED vars => OrderInv'
<1> SUFFICES ASSUME OrderInv, UNCHANGED <<body, stack, blocks, ret, done>> PROVE OrderInv'
  BY DEF vars
<1>1. Top' = Top
  BY DEF Top
<1>2. QED
  BY <1>1 DEF OrderInv, InstructionsInOrder, BlockIds

(* The invariant of the generator on all bodies. *)
THEOREM TreeInvariant ==
  ASSUME TreeShapes
  PROVE  TreeSpec => []OrderInv
<1>1. OrderInv /\ [TreeNext]_vars => OrderInv'
  BY OrderStep, OrderStutter
<1>2. QED
  BY <1>1, OrderInit, PTL DEF TreeSpec

(* In the blocks of any body, branches and loops in one another included,    *)
(* instructions are in the order of the source; only the condition of a loop *)
(* comes behind what the loop contains. By NoneTwice none is there twice.    *)
THEOREM TreeInstructionsInOrder ==
  ASSUME TreeShapes
  PROVE  TreeSpec => []InstructionsInOrder
<1>1. OrderInv => InstructionsInOrder
  BY DEF OrderInv
<1>2. QED
  BY <1>1, TreeInvariant, PTL

(* The generator goes through any body once and in order: what a step adds   *)
(* to a block is of a statement behind all those that have instructions in   *)
(* any block, or of the condition of a loop that has only its own in this    *)
(* one; and a new block has none.                                            *)
THEOREM TreeGeneratedForward ==
  ASSUME TreeShapes
  PROVE  TreeSpec => [][Grown]_vars
<1>1. OrderInv /\ [TreeNext]_vars => [Grown]_vars
  BY OrderStep
<1>2. QED
  BY <1>1, TreeInvariant, PTL DEF TreeSpec
===============================================================================
