--------------------------- MODULE TokStreamProofs ---------------------------
(***************************************************************************)
(* Proofs about TokStream for every set of texts and every value of the    *)
(* bounds: the inductive invariant, what follows from it, and that the     *)
(* buffered stream implements the cursor of TokCursor.                     *)
(***************************************************************************)
EXTENDS TokStream, NaturalNumbers, SequenceTheorems

USE TokensAssumption, TokStreamAssumption

-----------------------------------------------------------------------------
(* Whatever lex() hands over is a token, at the end of the text too. *)
LEMMA TokenAtType ==
  ASSUME NEW t \in Texts, NEW i \in Nat \ {0}
  PROVE  TokenAt(t, i) \in Token
<1>1. t \in Seq(Types)
  OBVIOUS
<1>2. CASE i <= Len(t)
  <2>1. t[i] \in Types
    BY <1>1, <1>2, ElementOfSeq
  <2>2. QED
    BY <1>2, <2>1 DEF TokenAt, Token, Position
<1>3. CASE ~(i <= Len(t))
  BY <1>3 DEF TokenAt, Token, Position
<1>4. QED
  BY <1>2, <1>3

(* The token no call has returned yet is a token as well. *)
LEMMA NoTokenType == NoToken \in Token
  BY DEF NoToken, TokenAt, Token, Position

(* The calls of lex() that fill the buffer up to entry i leave it in step    *)
(* with the text, at least i long, and keep what was in it.                  *)
LEMMA FillKeepsStep ==
  ASSUME StreamInv, NEW i \in Nat, Fill(i), g_text' = g_text
  PROVE  /\ token_buffer' \in Seq(Token)
         /\ lexed' = Len(token_buffer')
         /\ Len(token_buffer') = IF Len(token_buffer) < i THEN i ELSE Len(token_buffer)
         /\ \A k \in 1 .. Len(token_buffer') : token_buffer'[k] = TokenAt(g_text, k)
         /\ \A k \in 1 .. Len(token_buffer) : token_buffer'[k] = token_buffer[k]
<1> DEFINE more == [k \in 1 .. Missing(i) |-> TokenAt(g_text, lexed + k)]
<1>1. /\ token_buffer \in Seq(Token)
      /\ Len(token_buffer) \in Nat
      /\ lexed = Len(token_buffer)
      /\ g_text \in Texts
      /\ Missing(i) \in Nat
  BY LenProperties DEF StreamInv, TypeOK, BufferInStep, Missing
<1>2. /\ more \in Seq(Token)
      /\ Len(more) = Missing(i)
  <2>1. \A k \in 1 .. Missing(i) : TokenAt(g_text, lexed + k) \in Token
    BY <1>1, TokenAtType
  <2>2. more \in Seq(Token)
    BY <1>1, <2>1, IsASeq
  <2>3. QED
    BY <1>1, <2>2
<1>3. token_buffer' = token_buffer \o more
  BY DEF Fill, Filled
<1> HIDE DEF more
<1>4. /\ token_buffer' \in Seq(Token)
      /\ Len(token_buffer') = Len(token_buffer) + Missing(i)
      /\ \A k \in 1 .. Len(token_buffer') :
           token_buffer'[k] = IF k <= Len(token_buffer) THEN token_buffer[k]
                              ELSE more[k - Len(token_buffer)]
  BY <1>1, <1>2, <1>3, ConcatProperties
<1>5. ASSUME NEW k \in 1 .. Len(token_buffer')
      PROVE  token_buffer'[k] = TokenAt(g_text, k)
  <2>1. CASE k <= Len(token_buffer)
    BY <1>1, <1>4, <2>1 DEF StreamInv, BufferInStep
  <2>2. CASE ~(k <= Len(token_buffer))
    <3>1. k - Len(token_buffer) \in 1 .. Missing(i)
      BY <1>1, <1>4, <2>2
    <3>2. more[k - Len(token_buffer)] = TokenAt(g_text, lexed + (k - Len(token_buffer)))
      BY <3>1 DEF more
    <3>3. lexed + (k - Len(token_buffer)) = k
      BY <1>1, <1>4
    <3>4. QED
      BY <1>4, <2>2, <3>2, <3>3
  <2>3. QED
    BY <2>1, <2>2
<1>6. lexed' = Len(token_buffer')
  BY <1>1, <1>4 DEF Fill
<1>7. Len(token_buffer') = IF Len(token_buffer) < i THEN i ELSE Len(token_buffer)
  BY <1>1, <1>4 DEF Missing
<1>8. QED
  BY <1>1, <1>4, <1>5, <1>6, <1>7

-----------------------------------------------------------------------------
(* Popping a checkpoint leaves a stack of the remaining ones. *)
LEMMA PoppedIsPrefix ==
  ASSUME checkpoints \in Seq(Nat), checkpoints # <<>>
  PROVE  /\ Popped \in Seq(Nat)
         /\ Len(Popped) = Len(checkpoints) - 1
         /\ \A k \in 1 .. Len(Popped) : Popped[k] = checkpoints[k]
         /\ Len(checkpoints) \in Nat \ {0}
         /\ checkpoints[Len(checkpoints)] \in Nat
<1> DEFINE n == Len(checkpoints)
<1>1. /\ n \in Nat \ {0}
      /\ \A k \in 1 .. n : checkpoints[k] \in Nat
  BY EmptySeq, LenProperties, ElementOfSeq
<1>2. /\ Popped \in Seq(Nat)
      /\ Len(Popped) = IF 1 <= n - 1 THEN (n - 1) - 1 + 1 ELSE 0
      /\ \A k \in 1 .. (n - 1) - 1 + 1 : Popped[k] = checkpoints[1 + k - 1]
  <2>1. \A k \in 1 .. n - 1 : checkpoints[k] \in Nat
    BY <1>1
  <2>2. 1 \in Int /\ n - 1 \in Int
    BY <1>1
  <2>3. QED
    BY <2>1, <2>2, SubSeqProperties DEF Popped
<1>3. checkpoints[n] \in Nat
  BY <1>1
<1> HIDE DEF n
<1>4. /\ Len(Popped) = n - 1
      /\ \A k \in 1 .. Len(Popped) : Popped[k] = checkpoints[k]
  BY <1>1, <1>2
<1>5. QED
  BY <1>1, <1>2, <1>3, <1>4 DEF n

(* After the buffer has been filled up to entry i, and for a head and a      *)
(* stack of checkpoints that lie within it, the invariant holds again.       *)
LEMMA FillKeepsInv ==
  ASSUME StreamInv, NEW i \in Nat \ {0}, Fill(i), g_text' = g_text,
         UNCHANGED checkpoints,
         token_head_index' \in Nat,
         token_head_index <= token_head_index', token_head_index' <= i,
         returned' = token_buffer'[i]
  PROVE  StreamInv'
<1>1. /\ token_buffer' \in Seq(Token)
      /\ lexed' = Len(token_buffer')
      /\ Len(token_buffer') = IF Len(token_buffer) < i THEN i ELSE Len(token_buffer)
      /\ \A k \in 1 .. Len(token_buffer') : token_buffer'[k] = TokenAt(g_text, k)
  BY FillKeepsStep
<1>2. /\ g_text \in Texts
      /\ token_head_index \in Nat
      /\ checkpoints \in Seq(Nat)
      /\ Len(checkpoints) \in Nat
      /\ \A k \in 1 .. Len(checkpoints) : checkpoints[k] \in Nat
      /\ Len(token_buffer) \in Nat
      /\ Len(token_buffer') \in Nat
  BY <1>1, LenProperties, ElementOfSeq DEF StreamInv, TypeOK
<1>3. i \in 1 .. Len(token_buffer')
  BY <1>1, <1>2
<1>4. TypeOK'
  <2>1. returned' \in Token
    BY <1>1, <1>3, ElementOfSeq
  <2>2. QED
    BY <1>1, <1>2, <2>1 DEF TypeOK
<1>5. BufferInStep'
  BY <1>1, <1>2 DEF BufferInStep
<1>6. HeadInBuffer'
  BY <1>1, <1>2, <1>3 DEF HeadInBuffer, StreamInv
<1>7. CheckpointsNest'
  BY <1>2 DEF CheckpointsNest, StreamInv
<1>8. QED
  BY <1>4, <1>5, <1>6, <1>7 DEF StreamInv

(* Every initial state satisfies the inductive invariant. *)
LEMMA InitStreamInv == Init => StreamInv
  BY NoTokenType, EmptySeq DEF Init, StreamInv, TypeOK, BufferInStep,
     HeadInBuffer, CheckpointsNest

(* Every step preserves the inductive invariant. *)
LEMMA NextStreamInv == StreamInv /\ [Next]_vars => StreamInv'
<1> SUFFICES ASSUME StreamInv, [Next]_vars
             PROVE  StreamInv'
  OBVIOUS
<1>0. /\ token_head_index \in Nat
      /\ checkpoints \in Seq(Nat)
      /\ Len(checkpoints) \in Nat
      /\ \A k \in 1 .. Len(checkpoints) : checkpoints[k] \in Nat
      /\ token_buffer \in Seq(Token)
      /\ Len(token_buffer) \in Nat
  BY LenProperties, ElementOfSeq DEF StreamInv, TypeOK
<1>1. ASSUME NEW t \in Texts, TokstreamInit(t)
      PROVE  StreamInv'
  BY <1>0, <1>1, NoTokenType, EmptySeq
     DEF TokstreamInit, StreamInv, TypeOK, BufferInStep, HeadInBuffer, CheckpointsNest
<1>2. CASE TokNext
  BY <1>0, <1>2, FillKeepsInv DEF TokNext
<1>3. ASSUME NEW n \in 1 .. MaxLook, TokPeekNth(n)
      PROVE  StreamInv'
  <2>1. token_head_index + n \in Nat \ {0}
    BY <1>0
  <2>2. QED
    BY <1>0, <1>3, <2>1, FillKeepsInv DEF TokPeekNth
<1>4. ASSUME NEW wanted, TokExpectN(wanted)
      PROVE  StreamInv'
  BY <1>0, <1>4, FillKeepsInv DEF TokExpectN
<1>5. CASE TokstreamCheckpoint
  <2>1. /\ checkpoints' \in Seq(Nat)
        /\ Len(checkpoints') = Len(checkpoints) + 1
        /\ \A k \in 1 .. Len(checkpoints) : checkpoints'[k] = checkpoints[k]
        /\ checkpoints'[Len(checkpoints) + 1] = token_head_index
    BY <1>0, <1>5, AppendProperties DEF TokstreamCheckpoint
  <2>2. UNCHANGED <<g_text, lexed, token_buffer, token_head_index, returned>>
    BY <1>5 DEF TokstreamCheckpoint
  <2>3. TypeOK' /\ BufferInStep'
    BY <2>1, <2>2 DEF StreamInv, TypeOK, BufferInStep
  <2>4. HeadInBuffer'
    BY <1>0, <2>1, <2>2, SMTT(20) DEF StreamInv, HeadInBuffer
  <2>5. CheckpointsNest'
    <3>1. \A k \in 1 .. Len(checkpoints') : checkpoints'[k] <= token_head_index
      <4>1. \A k \in 1 .. Len(checkpoints) : checkpoints[k] <= token_head_index
        BY DEF StreamInv, CheckpointsNest
      <4>2. \A k \in 1 .. Len(checkpoints') : k = Len(checkpoints) + 1 \/ k \in 1 .. Len(checkpoints)
        BY <1>0, <2>1
      <4>3. token_head_index \in Nat
        BY <1>0
      <4>4. QED
        BY <2>1, <4>1, <4>2, <4>3
    <3>2. ASSUME NEW j \in 1 .. Len(checkpoints'), NEW k \in 1 .. Len(checkpoints'), j <= k
          PROVE  checkpoints'[j] <= checkpoints'[k]
      <4>1. CASE k = Len(checkpoints) + 1
        BY <2>1, <3>1, <4>1
      <4>2. CASE k # Len(checkpoints) + 1
        <5>1. j \in 1 .. Len(checkpoints) /\ k \in 1 .. Len(checkpoints)
          BY <1>0, <2>1, <3>2, <4>2
        <5>2. QED
          BY <2>1, <3>2, <5>1 DEF StreamInv, CheckpointsNest
      <4>3. QED
        BY <4>1, <4>2
    <3>3. QED
      BY <2>2, <3>1, <3>2 DEF CheckpointsNest
  <2>6. QED
    BY <2>3, <2>4, <2>5 DEF StreamInv
<1>6. ASSUME checkpoints # <<>>, checkpoints' = Popped,
             token_head_index' \in {token_head_index, checkpoints[Len(checkpoints)]},
             UNCHANGED <<g_text, lexed, token_buffer, returned>>
      PROVE  StreamInv'
  <2>0. /\ Popped \in Seq(Nat)
        /\ Len(checkpoints') = Len(checkpoints) - 1
        /\ \A k \in 1 .. Len(checkpoints') : checkpoints'[k] = checkpoints[k]
        /\ Len(checkpoints) \in 1 .. Len(checkpoints)
    BY <1>0, <1>6, PoppedIsPrefix
  <2>1. /\ token_head_index' \in Nat
        /\ token_head_index' <= Len(token_buffer)
        /\ \A k \in 1 .. Len(checkpoints) : checkpoints[k] <= token_head_index'
    BY <1>0, <1>6, <2>0 DEF StreamInv, HeadInBuffer, CheckpointsNest
  <2>2. 1 .. Len(checkpoints') \subseteq 1 .. Len(checkpoints)
    BY <1>0, <2>0
  <2>3. TypeOK' /\ BufferInStep'
    BY <1>6, <2>0, <2>1 DEF StreamInv, TypeOK, BufferInStep
  <2>4. HeadInBuffer'
    BY <1>6, <2>0, <2>1, <2>2 DEF StreamInv, HeadInBuffer
  <2>5. CheckpointsNest'
    BY <2>0, <2>1, <2>2 DEF StreamInv, CheckpointsNest
  <2>6. QED
    BY <2>3, <2>4, <2>5 DEF StreamInv
<1>7. CASE TokstreamRestore \/ CommitSpeculation
  BY <1>6, <1>7 DEF TokstreamRestore, CommitSpeculation
<1>8. CASE UNCHANGED vars
  BY <1>8 DEF vars, StreamInv, TypeOK, BufferInStep, HeadInBuffer, CheckpointsNest
<1>9. QED
  BY <1>1, <1>2, <1>3, <1>4, <1>5, <1>7, <1>8 DEF Next

(* In every reachable state the buffer is in step with the text, and the     *)
(* head and the checkpoints lie within it: token_buffer is never read out of *)
(* bounds and no token is lexed twice or skipped.                            *)
THEOREM StreamInvariant == Spec => []StreamInv
  BY InitStreamInv, NextStreamInv, PTL DEF Spec

(* Every variable keeps its type. *)
THEOREM StreamTypes == Spec => []TypeOK
<1>1. StreamInv => TypeOK
  BY DEF StreamInv
<1>2. QED
  BY <1>1, StreamInvariant, PTL

(* The buffer is always exactly what the lexer produced for this file. *)
THEOREM StreamBufferInStep == Spec => []BufferInStep
<1>1. StreamInv => BufferInStep
  BY DEF StreamInv
<1>2. QED
  BY <1>1, StreamInvariant, PTL

(* No head and no checkpoint is ever ahead of the buffer. *)
THEOREM StreamHeadInBuffer == Spec => []HeadInBuffer
<1>1. StreamInv => HeadInBuffer
  BY DEF StreamInv
<1>2. QED
  BY <1>1, StreamInvariant, PTL

-----------------------------------------------------------------------------
(* A token handed to the parser stays what it was until the next file. *)
THEOREM StreamTokensStay == Spec => TokensStay
<1> DEFINE Step ==
      \/ \E t \in Texts : TokstreamInit(t)
      \/ /\ Len(token_buffer) <= Len(token_buffer')
         /\ \A i \in 1 .. Len(token_buffer) : token_buffer'[i] = token_buffer[i]
<1>1. StreamInv /\ [Next]_vars => [Step]_vars
  <2> SUFFICES ASSUME StreamInv, Next
               PROVE  Step
    OBVIOUS
  <2>0. /\ token_head_index \in Nat
        /\ Len(token_buffer) \in Nat
    BY LenProperties DEF StreamInv, TypeOK
  <2>1. ASSUME NEW i \in Nat, Fill(i), g_text' = g_text
        PROVE  Step
    BY <2>0, <2>1, FillKeepsStep
  <2>2. CASE \E t \in Texts : TokstreamInit(t)
    BY <2>2
  <2>3. CASE TokNext
    BY <2>0, <2>1, <2>3 DEF TokNext
  <2>4. ASSUME NEW n \in 1 .. MaxLook, TokPeekNth(n)
        PROVE  Step
    <3>1. token_head_index + n \in Nat
      BY <2>0
    <3>2. QED
      BY <2>1, <2>4, <3>1 DEF TokPeekNth
  <2>5. ASSUME NEW wanted, TokExpectN(wanted)
        PROVE  Step
    BY <2>0, <2>1, <2>5 DEF TokExpectN
  <2>6. CASE TokstreamCheckpoint \/ TokstreamRestore \/ CommitSpeculation
    BY <2>0, <2>6 DEF TokstreamCheckpoint, TokstreamRestore, CommitSpeculation
  <2>7. QED
    BY <2>2, <2>3, <2>4, <2>5, <2>6 DEF Next
<1>2. QED
  BY <1>1, StreamInvariant, PTL DEF Spec, TokensStay

-----------------------------------------------------------------------------
(* What lex() pushes for tokens a .. b is a list of lexical errors. *)
LEMMA LexErrorsType ==
  ASSUME NEW t \in Texts, NEW a \in Nat \ {0}, NEW b \in Nat
  PROVE  /\ LexErrors(t, a, b) \in Seq(Error)
         /\ \A k \in DOMAIN LexErrors(t, a, b) : LexErrors(t, a, b)[k].kind = "lex"
<1> DEFINE bad == {k \in a .. b : TokenAt(t, k).type = INVALID}
           pushed == [n \in 1 .. Cardinality(bad) |->
                        [kind |-> "lex", at |-> TokenAt(t, Nth(bad, n)).at]]
<1>1. bad \in SUBSET Nat /\ IsFiniteSet(bad)
  BY NthOfInterval, FS_Subset
<1>2. Cardinality(bad) \in Nat
  BY <1>1, FS_CardinalityType
<1>3. \A n \in 1 .. Cardinality(bad) : Nth(bad, n) \in Nat \ {0}
  <2>1. \A k \in bad : k \in Nat \ {0}
    OBVIOUS
  <2> HIDE DEF bad
  <2>2. QED
    BY <1>1, <2>1, NthOfSet
<1> HIDE DEF bad
<1>4. \A n \in 1 .. Cardinality(bad) :
        [kind |-> "lex", at |-> TokenAt(t, Nth(bad, n)).at] \in Error
  BY <1>3, TokenAtType DEF Token, Error
<1>5. pushed \in Seq(Error)
  BY <1>2, <1>4, IsASeq
<1>6. \A n \in DOMAIN pushed : pushed[n].kind = "lex"
  OBVIOUS
<1>7. LexErrors(t, a, b) = pushed
  BY DEF LexErrors, bad
<1>8. QED
  BY <1>5, <1>6, <1>7

(* Lexing in two goes reports what one go does. *)
LEMMA LexErrorsJoin ==
  ASSUME NEW t \in Texts, NEW a \in Nat, NEW b \in Nat, a <= b
  PROVE  LexErrors(t, 1, b) = LexErrors(t, 1, a) \o LexErrors(t, a + 1, b)
<1> DEFINE S == {k \in 1 .. a : TokenAt(t, k).type = INVALID}
           T == {k \in a + 1 .. b : TokenAt(t, k).type = INVALID}
           U == {k \in 1 .. b : TokenAt(t, k).type = INVALID}
           err(k) == [kind |-> "lex", at |-> TokenAt(t, k).at]
<1>1. S \in SUBSET Nat /\ IsFiniteSet(S)
  BY NthOfInterval, FS_Subset
<1>2. T \in SUBSET Nat /\ IsFiniteSet(T)
  <2>1. T \in SUBSET (1 .. b)
    OBVIOUS
  <2> HIDE DEF T
  <2>2. QED
    BY <2>1, NthOfInterval, FS_Subset
<1>3. U = S \cup T
  OBVIOUS
<1>4. \A s \in S, r \in T : s < r
  OBVIOUS
<1>5. /\ LexErrors(t, 1, a) = [n \in 1 .. Cardinality(S) |-> err(Nth(S, n))]
      /\ LexErrors(t, a + 1, b) = [n \in 1 .. Cardinality(T) |-> err(Nth(T, n))]
      /\ LexErrors(t, 1, b) = [n \in 1 .. Cardinality(U) |-> err(Nth(U, n))]
  BY DEF LexErrors
<1>6. LexErrors(t, 1, a) \in Seq(Error) /\ LexErrors(t, a + 1, b) \in Seq(Error)
  BY LexErrorsType, SMTT(20)
<1> HIDE DEF S, T, U
<1>7. /\ Cardinality(S) \in Nat /\ Cardinality(T) \in Nat
      /\ Cardinality(U) = Cardinality(S) + Cardinality(T)
      /\ \A n \in 1 .. Cardinality(S) : Nth(U, n) = Nth(S, n)
      /\ \A n \in 1 .. Cardinality(T) : Nth(U, Cardinality(S) + n) = Nth(T, n)
  <2>1. /\ Cardinality(S) \in Nat /\ Cardinality(T) \in Nat
        /\ Cardinality(S \cup T) = Cardinality(S) + Cardinality(T)
        /\ \A n \in 1 .. Cardinality(S) : Nth(S \cup T, n) = Nth(S, n)
        /\ \A n \in 1 .. Cardinality(T) : Nth(S \cup T, Cardinality(S) + n) = Nth(T, n)
    BY ONLY <1>1, <1>2, <1>4, NthOfUnion
  <2>2. QED
    BY <1>3, <2>1
<1> HIDE DEF err
<1>8. \A n \in 1 .. Cardinality(S) : err(Nth(U, n)) = err(Nth(S, n))
  BY <1>7
<1>9. \A n \in 1 .. Cardinality(T) : err(Nth(U, Cardinality(S) + n)) = err(Nth(T, n))
  BY <1>7
<1> DEFINE p == LexErrors(t, 1, a)
           q == LexErrors(t, a + 1, b)
<1>10. /\ p \in Seq(Error) /\ Len(p) = Cardinality(S)
       /\ q \in Seq(Error) /\ Len(q) = Cardinality(T)
  BY <1>5, <1>6, <1>7, LenProperties
<1>11. /\ \A n \in 1 .. Cardinality(S) : p[n] = err(Nth(S, n))
       /\ \A n \in 1 .. Cardinality(T) : q[n] = err(Nth(T, n))
  BY <1>5
<1> HIDE DEF p, q
<1>12. /\ p \o q \in Seq(Error)
       /\ Len(p \o q) = Cardinality(U)
       /\ \A n \in 1 .. Cardinality(U) :
             (p \o q)[n] = IF n <= Cardinality(S) THEN p[n] ELSE q[n - Cardinality(S)]
  <2>1. /\ p \o q \in Seq(Error)
        /\ Len(p \o q) = Len(p) + Len(q)
        /\ \A n \in 1 .. Len(p) + Len(q) :
              (p \o q)[n] = IF n <= Len(p) THEN p[n] ELSE q[n - Len(p)]
    BY <1>10, ConcatProperties
  <2>2. QED
    BY <1>7, <1>10, <2>1
<1>13. ASSUME NEW n \in 1 .. Cardinality(U) PROVE (p \o q)[n] = err(Nth(U, n))
  <2>1. CASE n <= Cardinality(S)
    <3>1. n \in 1 .. Cardinality(S)
      BY <1>7, <2>1
    <3>2. QED
      BY <1>8, <1>11, <1>12, <2>1, <3>1
  <2>2. CASE ~(n <= Cardinality(S))
    <3> DEFINE j == n - Cardinality(S)
    <3>1. j \in 1 .. Cardinality(T) /\ Cardinality(S) + j = n
      BY <1>7, <2>2
    <3>2. (p \o q)[n] = q[j]
      BY <1>12, <2>2
    <3> HIDE DEF j
    <3>3. q[j] = err(Nth(U, n))
      BY <1>9, <1>11, <3>1
    <3>4. QED
      BY <3>2, <3>3
  <2>3. QED
    BY <2>1, <2>2
<1>14. p \o q = [n \in 1 .. Cardinality(U) |-> err(Nth(U, n))]
  <2>1. p \o q \in [1 .. Cardinality(U) -> Error]
    BY <1>12, LenProperties
  <2>2. QED
    BY <1>13, <2>1
<1>15. QED
  BY <1>5, <1>14 DEF p, q

(* Lexical errors pushed behind g join those of g; another one does not. *)
LEMMA LexDiagnosticsGrow ==
  ASSUME NEW g \in Seq(Error)
  PROVE  /\ \A r \in Seq(Error) :
              (\A k \in DOMAIN r : r[k].kind = "lex")
                => LexDiagnostics(g \o r) = LexDiagnostics(g) \o r
         /\ \A e \in Error :
              e.kind # "lex" => LexDiagnostics(Append(g, e)) = LexDiagnostics(g)
<1> DEFINE Lexical(s) == {k \in DOMAIN s : s[k].kind = "lex"}
<1>0. Len(g) \in Nat /\ DOMAIN g = 1 .. Len(g)
  BY LenProperties
<1>1. ASSUME NEW r \in Seq(Error)
      PROVE  /\ g \o r \in Seq(Error) /\ Len(r) \in Nat
             /\ DOMAIN (g \o r) = 1 .. Len(g) + Len(r) /\ DOMAIN r = 1 .. Len(r)
             /\ \A k \in 1 .. Len(g) : (g \o r)[k] = g[k]
             /\ \A k \in 1 .. Len(r) : (g \o r)[k + Len(g)] = r[k]
  <2>1. Len(r) \in Nat /\ DOMAIN r = 1 .. Len(r)
    BY LenProperties
  <2>2. /\ g \o r \in Seq(Error)
        /\ DOMAIN (g \o r) = 1 .. Len(g) + Len(r)
        /\ \A k \in 1 .. Len(g) + Len(r) :
              (g \o r)[k] = IF k <= Len(g) THEN g[k] ELSE r[k - Len(g)]
    BY ConcatProperties, LenProperties
  <2>3. ASSUME NEW k \in 1 .. Len(r) PROVE (g \o r)[k + Len(g)] = r[k]
    <3> DEFINE j == k + Len(g)
    <3>1. j \in 1 .. Len(g) + Len(r) /\ ~(j <= Len(g)) /\ j - Len(g) = k
      BY <1>0, <2>1
    <3> HIDE DEF j
    <3>2. (g \o r)[j] = r[k]
      BY <2>2, <3>1
    <3>3. QED
      BY <3>2 DEF j
  <2>4. \A k \in 1 .. Len(g) : (g \o r)[k] = g[k]
    BY <1>0, <2>1, <2>2
  <2>5. QED
    BY <2>1, <2>2, <2>3, <2>4
<1>2. ASSUME NEW r \in Seq(Error), \A k \in DOMAIN r : r[k].kind = "lex"
      PROVE  LexDiagnostics(g \o r) = LexDiagnostics(g) \o r
  <2>1. Lexical(g \o r) = Lexical(g) \cup Shifted(DOMAIN r, Len(g))
    <3>1. ASSUME NEW k \in Lexical(g \o r)
          PROVE  k \in Lexical(g) \cup Shifted(DOMAIN r, Len(g))
      <4>1. k \in 1 .. Len(g) + Len(r) /\ (g \o r)[k].kind = "lex" /\ Len(r) \in Nat
        BY <1>1
      <4>2. CASE k <= Len(g)
        BY <1>0, <1>1, <4>1, <4>2
      <4>3. CASE ~(k <= Len(g))
        <5>1. k - Len(g) \in 1 .. Len(r) /\ k - Len(g) + Len(g) = k
          BY <1>0, <4>1, <4>3
        <5>2. QED
          BY <1>1, <5>1 DEF Shifted
      <4>4. QED
        BY <4>2, <4>3
    <3>2. Lexical(g) \subseteq Lexical(g \o r)
      BY <1>0, <1>1
    <3>3. ASSUME NEW k \in DOMAIN r PROVE k + Len(g) \in Lexical(g \o r)
      <4>1. k + Len(g) \in 1 .. Len(g) + Len(r)
        BY <1>0, <1>1
      <4>2. QED
        BY <1>1, <1>2, <4>1
    <3> HIDE DEF Lexical
    <3>4. Shifted(DOMAIN r, Len(g)) \subseteq Lexical(g \o r)
      BY <3>3 DEF Shifted
    <3>5. QED
      BY <3>1, <3>2, <3>4
  <2>2. Lexical(g) \in SUBSET DOMAIN g
    OBVIOUS
  <2>3. /\ LexDiagnostics(g) = Selected(g, Lexical(g))
        /\ LexDiagnostics(g \o r) = Selected(g \o r, Lexical(g \o r))
    BY DEF LexDiagnostics
  <2> HIDE DEF Lexical
  <2>4. Selected(g \o r, Lexical(g) \cup Shifted(DOMAIN r, Len(g)))
          = Selected(g, Lexical(g)) \o r
    BY <2>2, SelectedOfConcat
  <2>5. QED
    BY <2>1, <2>3, <2>4
<1>3. ASSUME NEW e \in Error, e.kind # "lex"
      PROVE  LexDiagnostics(Append(g, e)) = LexDiagnostics(g)
  <2> DEFINE r == <<e>>
  <2>1. r \in Seq(Error) /\ Len(r) = 1 /\ r[1] = e
    OBVIOUS
  <2>2. Append(g, e) = g \o r
    BY AppendIsConcat
  <2> HIDE DEF r
  <2>3. Lexical(g \o r) = Lexical(g)
    <3>1. DOMAIN (g \o r) = 1 .. Len(g) + 1 /\ (g \o r)[1 + Len(g)] = e
      <4>1. 1 \in 1 .. Len(r)
        BY <2>1
      <4>2. QED
        BY <1>1, <2>1, <4>1
    <3>2. \A k \in 1 .. Len(g) + 1 : k \in 1 .. Len(g) \/ k = 1 + Len(g)
      BY <1>0
    <3>3. \A k \in 1 .. Len(g) : (g \o r)[k] = g[k] /\ k \in 1 .. Len(g) + 1
      BY <1>0, <1>1, <2>1
    <3>4. QED
      BY <1>0, <1>3, <3>1, <3>2, <3>3
  <2>4. Lexical(g) \in SUBSET DOMAIN g
    OBVIOUS
  <2>5. /\ LexDiagnostics(g) = Selected(g, Lexical(g))
        /\ LexDiagnostics(g \o r) = Selected(g \o r, Lexical(g \o r))
    BY DEF LexDiagnostics
  <2> HIDE DEF Lexical
  <2>6. Selected(g \o r, Lexical(g)) = Selected(g, Lexical(g))
    BY <2>1, <2>4, SelectedOfLonger
  <2>7. QED
    BY <2>2, <2>3, <2>5, <2>6
<1>4. QED
  BY <1>2, <1>3

(* The diagnostics are a sequence of them, the lexical ones in step with the *)
(* buffer.                                                                   *)
ErrorsInv == g_errors \in Seq(Error) /\ LexErrorsOnce

(* What the calls of lex() that fill the buffer up to entry i push is what   *)
(* keeps the lexical errors in step with it.                                 *)
LEMMA FillReports ==
  ASSUME StreamInv, ErrorsInv, NEW i \in Nat, Fill(i), g_text' = g_text
  PROVE  /\ Reported(i) \in Seq(Error)
         /\ LexDiagnostics(Reported(i)) = LexErrors(g_text, 1, Len(token_buffer'))
<1> DEFINE a == Len(token_buffer)
           b == Len(token_buffer')
           r == LexErrors(g_text, a + 1, b)
<1>1. a \in Nat /\ b \in Nat /\ a <= b /\ g_text \in Texts /\ lexed = a
  BY FillKeepsStep, LenProperties DEF StreamInv, TypeOK, BufferInStep
<1>2. Reported(i) = g_errors \o r
  <2>1. lexed + Missing(i) = b
    BY <1>1, FillKeepsStep DEF Missing
  <2>2. QED
    BY <1>1, <2>1 DEF Reported
<1> HIDE DEF a, b
<1>3. r \in Seq(Error) /\ \A k \in DOMAIN r : r[k].kind = "lex"
  <2>1. a + 1 \in Nat \ {0}
    BY <1>1
  <2>2. QED
    BY <1>1, <2>1, LexErrorsType
<1>4. LexErrors(g_text, 1, b) = LexErrors(g_text, 1, a) \o r
  BY <1>1, LexErrorsJoin
<1> HIDE DEF r
<1>5. LexDiagnostics(g_errors \o r) = LexErrors(g_text, 1, a) \o r
  <2>1. LexDiagnostics(g_errors \o r) = LexDiagnostics(g_errors) \o r
    BY <1>3, LexDiagnosticsGrow DEF ErrorsInv
  <2>2. QED
    BY <2>1 DEF ErrorsInv, LexErrorsOnce, a
<1>6. g_errors \o r \in Seq(Error)
  BY <1>3, ConcatProperties DEF ErrorsInv
<1>7. QED
  BY <1>2, <1>4, <1>5, <1>6 DEF b

(* At the start, of a run or of a file, nothing is lexed and nothing pushed. *)
LEMMA NothingReported ==
  ASSUME NEW t \in Texts
  PROVE  /\ <<>> \in Seq(Error)
         /\ LexDiagnostics(<<>>) = LexErrors(t, 1, Len(<<>>))
<1>1. <<>> \in Seq(Error) /\ Len(<<>>) = 0
  OBVIOUS
<1>2. {k \in DOMAIN <<>> : <<>>[k].kind = "lex"} = {}
  OBVIOUS
<1>3. {k \in 1 .. 0 : TokenAt(t, k).type = INVALID} = {}
  OBVIOUS
<1>4. Cardinality({}) = 0
  BY FS_EmptySet
<1>5. LexDiagnostics(<<>>) = [n \in 1 .. 0 |-> <<>>[Nth({}, n)]]
  BY <1>2, <1>4 DEF LexDiagnostics, Selected
<1>6. LexErrors(t, 1, 0)
        = [n \in 1 .. 0 |-> [kind |-> "lex", at |-> TokenAt(t, Nth({}, n)).at]]
  BY <1>3, <1>4 DEF LexErrors
<1>7. LexDiagnostics(<<>>) = LexErrors(t, 1, 0)
  BY <1>5, <1>6
<1>8. QED
  BY <1>1, <1>7

(* Where tok_expect_n reports is a position. *)
LEMMA PreviousPositionType ==
  ASSUME StreamInv', token_head_index' \in Nat
  PROVE  PreviousPosition \in Position
<1>1. CASE token_head_index' >= 2
  <2>1. /\ token_buffer' \in Seq(Token) /\ Len(token_buffer') \in Nat
        /\ token_head_index' \in Nat /\ token_head_index' <= Len(token_buffer')
    BY LenProperties DEF StreamInv, TypeOK, HeadInBuffer
  <2>2. token_head_index' - 1 \in 1 .. Len(token_buffer')
    <3> DEFINE h == token_head_index'
               n == Len(token_buffer')
    <3>1. h \in Nat /\ n \in Nat /\ h >= 2 /\ h <= n
      BY <1>1, <2>1
    <3> HIDE DEF h, n
    <3>2. h - 1 \in 1 .. n
      BY <3>1
    <3>3. QED
      BY <3>2 DEF h, n
  <2>3. token_buffer'[token_head_index' - 1] \in Token
    BY <2>1, <2>2, ElementOfSeq
  <2>4. QED
    BY <1>1, <2>3 DEF PreviousPosition, Token
<1>2. CASE ~(token_head_index' >= 2)
  BY <1>2 DEF PreviousPosition, Position
<1>3. QED
  BY <1>1, <1>2

(* Every step preserves it. *)
LEMMA NextErrorsInv == StreamInv /\ ErrorsInv /\ [Next]_vars => ErrorsInv'
<1> SUFFICES ASSUME StreamInv, ErrorsInv, [Next]_vars
             PROVE  ErrorsInv'
  OBVIOUS
<1>0. StreamInv' /\ token_head_index \in Nat
  BY NextStreamInv DEF StreamInv, TypeOK
<1>1. ASSUME NEW t \in Texts, TokstreamInit(t)
      PROVE  ErrorsInv'
  BY <1>1, NothingReported DEF TokstreamInit, ErrorsInv, LexErrorsOnce
<1>2. ASSUME NEW i \in Nat, Fill(i), g_text' = g_text, g_errors' = Reported(i)
      PROVE  ErrorsInv'
  <2>1. /\ Reported(i) \in Seq(Error)
        /\ LexDiagnostics(Reported(i)) = LexErrors(g_text, 1, Len(token_buffer'))
    BY <1>2, FillReports
  <2>2. QED
    BY <1>2, <2>1 DEF ErrorsInv, LexErrorsOnce
<1>3. CASE TokNext
  BY <1>0, <1>2, <1>3 DEF TokNext
<1>4. ASSUME NEW n \in 1 .. MaxLook, TokPeekNth(n)
      PROVE  ErrorsInv'
  <2>1. token_head_index + n \in Nat
    BY <1>0
  <2>2. QED
    BY <1>2, <1>4, <2>1 DEF TokPeekNth
<1>5. ASSUME NEW wanted, TokExpectN(wanted)
      PROVE  ErrorsInv'
  <2> DEFINE i == token_head_index + 1
             e == [kind |-> "expected", at |-> PreviousPosition]
  <2>1. i \in Nat /\ Fill(i) /\ g_text' = g_text /\ token_head_index' = i
    BY <1>0, <1>5 DEF TokExpectN
  <2>2. g_errors' \in {Reported(i), Append(Reported(i), e)}
    BY <1>5 DEF TokExpectN
  <2>3. e \in Error /\ e.kind # "lex"
    BY <1>0, <2>1, PreviousPositionType DEF Error
  <2> HIDE DEF i, e
  <2>4. CASE g_errors' = Reported(i)
    BY <1>2, <2>1, <2>4
  <2>5. CASE g_errors' = Append(Reported(i), e)
    <3>1. /\ Reported(i) \in Seq(Error)
          /\ LexDiagnostics(Reported(i)) = LexErrors(g_text, 1, Len(token_buffer'))
      BY <2>1, FillReports
    <3>2. g_errors' \in Seq(Error)
      BY <2>3, <2>5, <3>1, AppendProperties
    <3>3. LexDiagnostics(g_errors') = LexDiagnostics(Reported(i))
      BY <2>3, <2>5, <3>1, LexDiagnosticsGrow
    <3>4. QED
      BY <2>1, <3>1, <3>2, <3>3 DEF ErrorsInv, LexErrorsOnce
  <2>6. QED
    BY <2>2, <2>4, <2>5
<1>6. CASE TokstreamCheckpoint \/ TokstreamRestore \/ CommitSpeculation \/ UNCHANGED vars
  BY <1>6 DEF TokstreamCheckpoint, TokstreamRestore, CommitSpeculation, vars, ErrorsInv,
     LexErrorsOnce
<1>7. QED
  BY <1>1, <1>3, <1>4, <1>5, <1>6 DEF Next

(* However often tokens are peeked at, read again after a restore or         *)
(* expected in vain, every character lex() did not recognize is reported     *)
(* once, in source order.                                                    *)
THEOREM StreamLexErrorsOnce == Spec => []LexErrorsOnce
<1>1. Init => ErrorsInv
  BY NothingReported DEF Init, ErrorsInv, LexErrorsOnce
<1>2. ErrorsInv => LexErrorsOnce
  BY DEF ErrorsInv
<1>3. QED
  BY <1>1, <1>2, NextErrorsInv, StreamInvariant, PTL DEF Spec

-----------------------------------------------------------------------------
(* Both specifications read the text in the same way. *)
LEMMA SameText ==
  ASSUME NEW t, NEW i
  PROVE  TokenAt(t, i) = Cursor!TokenAt(t, i)
  BY DEF TokenAt, Cursor!TokenAt

(* They count in the same way as well. *)
LEMMA SameCardinality ==
  ASSUME NEW S
  PROVE  Cardinality(S) = Cursor!Cardinality(S)
  BY DEF Cardinality, Cursor!Cardinality, IsFiniteSet, Cursor!IsFiniteSet

(* So they report the same characters. *)
LEMMA SameLexErrors ==
  ASSUME NEW t, NEW first, NEW final
  PROVE  LexErrors(t, first, final) = Cursor!LexErrors(t, first, final)
  BY SameCardinality, SameText
     DEF LexErrors, Cursor!LexErrors, Nth, Cursor!Nth, Below, Cursor!Below

(* Filling the buffer up to entry i is what the cursor calls reaching it. *)
LEMMA FillIsReach ==
  ASSUME StreamInv, NEW i \in Nat
  PROVE  /\ Reported(i) = Cursor!Report(i)
         /\ Fill(i) /\ g_text' = g_text => Len(token_buffer') = Cursor!Reach(i)
<1>1. Len(token_buffer) \in Nat /\ lexed = Len(token_buffer)
  BY LenProperties DEF StreamInv, TypeOK, BufferInStep
<1>2. lexed + Missing(i) = Cursor!Reach(i)
  BY <1>1 DEF Missing, Cursor!Reach
<1>3. Reported(i) = Cursor!Report(i)
  BY <1>1, <1>2, SameLexErrors DEF Reported, Cursor!Report
<1>4. Fill(i) /\ g_text' = g_text => Len(token_buffer') = Cursor!Reach(i)
  BY FillKeepsStep DEF Cursor!Reach
<1>5. QED
  BY <1>3, <1>4

(* Every step of the buffered stream is a step of the cursor, or none. *)
LEMMA StepImplementsCursor ==
  StreamInv /\ [Next]_vars => [Cursor!Next]_(Cursor!vars)
<1> SUFFICES ASSUME StreamInv, [Next]_vars
             PROVE  Cursor!Next \/ UNCHANGED Cursor!vars
  OBVIOUS
<1>0. /\ token_head_index \in Nat
      /\ token_head_index <= Len(token_buffer)
      /\ Len(token_buffer) \in Nat
      /\ \A k \in 1 .. Len(token_buffer) : token_buffer[k] = TokenAt(g_text, k)
  BY LenProperties DEF StreamInv, TypeOK, HeadInBuffer, BufferInStep
<1>a. ASSUME NEW i \in Nat \ {0}, Fill(i), g_text' = g_text
      PROVE  /\ Len(token_buffer') = Cursor!Reach(i)
             /\ Reported(i) = Cursor!Report(i)
             /\ \A k \in 1 .. i : token_buffer'[k] = TokenAt(g_text, k)
  <2>1. /\ Len(token_buffer') = IF Len(token_buffer) < i THEN i ELSE Len(token_buffer)
        /\ \A k \in 1 .. Len(token_buffer') : token_buffer'[k] = TokenAt(g_text, k)
    BY <1>a, FillKeepsStep
  <2>2. 1 .. i \subseteq 1 .. Len(token_buffer')
    BY <1>0, <2>1
  <2>3. QED
    BY <1>a, <2>1, <2>2, FillIsReach
<1>1. ASSUME NEW t \in Texts, TokstreamInit(t)
      PROVE  Cursor!Next
  <2>1. Cursor!Open(t)
    BY <1>1, EmptySeq, SameText DEF TokstreamInit, Cursor!Open, NoToken, Cursor!NoToken
  <2>2. QED
    BY <2>1 DEF Cursor!Next
<1>2. ASSUME TokNext
      PROVE  Cursor!Next
  <2>1. token_head_index + 1 \in Nat \ {0}
    BY <1>0
  <2>2. Cursor!Deliver
    BY <1>2, <1>a, <2>1, SameText DEF TokNext, Cursor!Deliver
  <2>3. QED
    BY <2>2 DEF Cursor!Next
<1>3. ASSUME NEW n \in 1 .. MaxLook, TokPeekNth(n)
      PROVE  Cursor!Next
  <2>1. token_head_index + n \in Nat \ {0}
    BY <1>0
  <2>2. Cursor!LookAhead(n)
    BY <1>3, <1>a, <2>1, SameText DEF TokPeekNth, Cursor!LookAhead
  <2>3. QED
    BY <2>2 DEF Cursor!Next
<1>4. ASSUME NEW wanted \in SUBSET (Types \cup {EOF}) \ {{}}, TokExpectN(wanted)
      PROVE  Cursor!Next
  <2> DEFINE i == token_head_index + 1
             where == IF token_head_index = 0 THEN 0 ELSE TokenAt(g_text, token_head_index).at
  <2>1. /\ i \in Nat \ {0}
        /\ Fill(i) /\ g_text' = g_text
        /\ token_head_index' = i
    BY <1>0, <1>4 DEF TokExpectN
  <2>2. /\ Len(token_buffer') = Cursor!Reach(i)
        /\ Reported(i) = Cursor!Report(i)
        /\ \A k \in 1 .. i : token_buffer'[k] = TokenAt(g_text, k)
    BY <1>a, <2>1
  <2>3. PreviousPosition = where
    <3>1. CASE token_head_index = 0
      BY <2>1, <3>1 DEF PreviousPosition
    <3>2. CASE token_head_index # 0
      <4>1. token_head_index' - 1 = token_head_index /\ token_head_index \in 1 .. i
        BY <1>0, <2>1, <3>2
      <4>2. QED
        BY <1>0, <2>1, <2>2, <3>2, <4>1 DEF PreviousPosition
    <3>3. QED
      BY <3>1, <3>2
  <2>4. token_buffer'[i] = TokenAt(g_text, i)
    BY <2>1, <2>2
  <2>5. Cursor!DeliverExpecting(wanted)
    BY <1>4, <2>1, <2>2, <2>3, <2>4, SameText DEF TokExpectN, Cursor!DeliverExpecting
  <2>6. QED
    BY <2>5 DEF Cursor!Next
<1>5. ASSUME TokstreamCheckpoint
      PROVE  Cursor!Next
  BY <1>5 DEF TokstreamCheckpoint, Cursor!Next, Cursor!Mark
<1>6. ASSUME TokstreamRestore
      PROVE  Cursor!Next
  <2>1. Cursor!Unmark(TRUE)
    BY <1>6 DEF TokstreamRestore, Cursor!Unmark, Popped
  <2>2. QED
    BY <2>1 DEF Cursor!Next
<1>7. ASSUME CommitSpeculation
      PROVE  Cursor!Next
  <2>1. Cursor!Unmark(FALSE)
    BY <1>7 DEF CommitSpeculation, Cursor!Unmark, Popped
  <2>2. QED
    BY <2>1 DEF Cursor!Next
<1>8. CASE UNCHANGED vars
  BY <1>8 DEF vars, Cursor!vars
<1>9. QED
  BY <1>1, <1>2, <1>3, <1>4, <1>5, <1>6, <1>7, <1>8 DEF Next

(* The stream delivers the tokens of the text in order, lookahead consumes   *)
(* nothing, a restore replays the same tokens, and diagnostics are the ones  *)
(* a stream without a buffer would give.                                     *)
THEOREM StreamImplementsCursor == Spec => ImplementsCursor
<1>1. Init => Cursor!Init
  BY EmptySeq, SameText DEF Init, Cursor!Init, NoToken, Cursor!NoToken
<1>2. QED
  BY <1>1, StepImplementsCursor, StreamInvariant, PTL DEF Spec, Cursor!Spec, ImplementsCursor
=============================================================================
