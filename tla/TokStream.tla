------------------------------ MODULE TokStream ------------------------------
(***************************************************************************)
(* The token stream (Lexer/tokstream.c): tokens are lexed on demand into a *)
(* buffer that only grows, the parser reads it at token_head_index, looks  *)
(* ahead, and goes back to a checkpoint when a speculative parse fails     *)
(* (external_declaration and assignment_expression in Parser/parser.c).    *)
(* compile_unit (Driver/main.c) starts it afresh for every input file.     *)
(*                                                                         *)
(* Bounds for TLC: MaxHead tokens consumed in a row, MaxLook tokens of     *)
(* lookahead, MaxMarks nested checkpoints, MaxErrors diagnostics.          *)
(***************************************************************************)
EXTENDS Tokens

CONSTANTS MaxHead, MaxLook, MaxMarks, MaxErrors

ASSUME TokStreamAssumption ==
  /\ MaxHead \in Nat
  /\ MaxLook \in Nat
  /\ MaxMarks \in Nat
  /\ MaxErrors \in Nat

VARIABLES
  g_text,            (* the text given to tokstream_init                    *)
  lexed,             (* calls of lex() since init_lexer: the lexer's place  *)
  token_buffer,      (* the tokens lexed so far                             *)
  token_head_index,  (* how many of them the parser has consumed            *)
  checkpoints,       (* the checkpoints the parser's active calls hold      *)
  g_errors,          (* diagnostics pushed, in order (Driver/error.c)       *)
  returned           (* the token the last call returned                    *)

vars == <<g_text, lexed, token_buffer, token_head_index, checkpoints, g_errors,
          returned>>

NoToken == TokenAt(<<>>, 1)

Init ==
  /\ g_text \in Texts
  /\ lexed = 0
  /\ token_buffer = <<>>
  /\ token_head_index = 0
  /\ checkpoints = <<>>
  /\ g_errors = <<>>
  /\ returned = NoToken

-----------------------------------------------------------------------------
(* How many tokens are missing before buffer[i] exists. *)
Missing(i) == IF Len(token_buffer) < i THEN i - Len(token_buffer) ELSE 0

(* token_buffer after the calls of lex() that make entry i exist. *)
Filled(i) ==
  token_buffer \o [k \in 1 .. Missing(i) |-> TokenAt(g_text, lexed + k)]

(* Mutant: characters are reported when their token is read, not lexed. *)
ReportedOnRead(i) == g_errors \o LexErrors(g_text, i, i)

(* g_errors after those calls. *)
Reported(i) == g_errors \o LexErrors(g_text, lexed + 1, lexed + Missing(i))

Fill(i) ==
  /\ token_buffer' = Filled(i)
  /\ lexed' = lexed + Missing(i)

-----------------------------------------------------------------------------
(* Mutants: the buffer, or the head, of the previous file is kept. *)
TokstreamInitKeepsBuffer(t) ==
  /\ checkpoints = <<>>
  /\ g_text' = t
  /\ lexed' = 0
  /\ token_head_index' = 0
  /\ g_errors' = <<>>
  /\ returned' = NoToken
  /\ UNCHANGED <<token_buffer, checkpoints>>

TokstreamInitKeepsHead(t) ==
  /\ checkpoints = <<>>
  /\ g_text' = t
  /\ lexed' = 0
  /\ token_buffer' = <<>>
  /\ g_errors' = <<>>
  /\ returned' = NoToken
  /\ UNCHANGED <<token_head_index, checkpoints>>

(* compile_unit moves to the next file: init_errors, init_lexer and          *)
(* tokstream_init. No parser call is active then, so no checkpoint survives. *)
TokstreamInit(t) ==
  /\ checkpoints = <<>>
  /\ g_text' = t
  /\ lexed' = 0
  /\ token_buffer' = <<>>
  /\ token_head_index' = 0
  /\ g_errors' = <<>>
  /\ returned' = NoToken
  /\ UNCHANGED checkpoints

TokNext ==
  /\ token_head_index < MaxHead
  /\ Fill(token_head_index + 1)
  /\ g_errors' = Reported(token_head_index + 1)
  /\ returned' = token_buffer'[token_head_index + 1]
  /\ token_head_index' = token_head_index + 1
  /\ UNCHANGED <<g_text, checkpoints>>

TokPeekNth(n) ==
  /\ Fill(token_head_index + n)
  /\ g_errors' = Reported(token_head_index + n)
  /\ returned' = token_buffer'[token_head_index + n]
  /\ UNCHANGED <<g_text, token_head_index, checkpoints>>

(* Mutant: the position of the offending token itself. *)
PreviousPositionOffByOne ==
  IF token_head_index' >= 2 THEN token_buffer'[token_head_index'].at ELSE 0

(* Where tok_expect_n reports: the token before the one just consumed, read  *)
(* after tok_next has advanced the head.                                     *)
PreviousPosition ==
  IF token_head_index' >= 2 THEN token_buffer'[token_head_index' - 1].at ELSE 0

(* The token is consumed and returned whether or not its type is wanted.     *)
TokExpectN(wanted) ==
  LET i   == token_head_index + 1
      tok == token_buffer'[i]
  IN  /\ token_head_index < MaxHead
      /\ Len(g_errors) < MaxErrors
      /\ Fill(i)
      /\ token_head_index' = i
      /\ returned' = tok
      /\ g_errors' = IF tok.type \in wanted
                     THEN Reported(i)
                     ELSE Append(Reported(i),
                                 [kind |-> "expected", at |-> PreviousPosition])
      /\ UNCHANGED <<g_text, checkpoints>>

(* The parser calls nest, so its checkpoints form a stack. *)
TokstreamCheckpoint ==
  /\ Len(checkpoints) < MaxMarks
  /\ checkpoints' = Append(checkpoints, token_head_index)
  /\ UNCHANGED <<g_text, lexed, token_buffer, token_head_index, g_errors, returned>>

Popped == SubSeq(checkpoints, 1, Len(checkpoints) - 1)

(* Mutants: one token too far back; the tokens behind the checkpoint are     *)
(* dropped.                                                                  *)
TokstreamRestoreTooFar ==
  /\ checkpoints # <<>>
  /\ token_head_index' = checkpoints[Len(checkpoints)] - 1
  /\ checkpoints' = Popped
  /\ UNCHANGED <<g_text, lexed, token_buffer, g_errors, returned>>

TokstreamRestoreTruncates ==
  /\ checkpoints # <<>>
  /\ token_head_index' = checkpoints[Len(checkpoints)]
  /\ token_buffer' = SubSeq(token_buffer, 1, checkpoints[Len(checkpoints)])
  /\ lexed' = checkpoints[Len(checkpoints)]
  /\ checkpoints' = Popped
  /\ UNCHANGED <<g_text, g_errors, returned>>

TokstreamRestore ==
  /\ checkpoints # <<>>
  /\ token_head_index' = checkpoints[Len(checkpoints)]
  /\ checkpoints' = Popped
  /\ UNCHANGED <<g_text, lexed, token_buffer, g_errors, returned>>

(* assignment_expression returns its assignment: the checkpoint is dropped. *)
CommitSpeculation ==
  /\ checkpoints # <<>>
  /\ checkpoints' = Popped
  /\ UNCHANGED <<g_text, lexed, token_buffer, token_head_index, g_errors, returned>>

Next ==
  \/ \E t \in Texts : TokstreamInit(t)
  \/ TokNext
  \/ \E n \in 1 .. MaxLook : TokPeekNth(n)
  \/ \E wanted \in SUBSET (Types \cup {EOF}) \ {{}} : TokExpectN(wanted)
  \/ TokstreamCheckpoint
  \/ TokstreamRestore
  \/ CommitSpeculation

Spec == Init /\ [][Next]_vars

-----------------------------------------------------------------------------
(* Every variable has its type. *)
TypeOK ==
  /\ g_text \in Texts
  /\ lexed \in Nat
  /\ token_buffer \in Seq(Token)
  /\ token_head_index \in Nat
  /\ checkpoints \in Seq(Nat)
  /\ returned \in Token

(* The buffer is exactly what lex() produced, in order: no token is lexed    *)
(* twice, skipped, or left over from the previous file.                      *)
BufferInStep ==
  /\ lexed = Len(token_buffer)
  /\ \A i \in 1 .. Len(token_buffer) : token_buffer[i] = TokenAt(g_text, i)

(* tok_next lexes at most one token before it reads token_buffer[head]: that *)
(* is in bounds only because neither the head nor a checkpoint ever gets     *)
(* ahead of what has been lexed.                                             *)
HeadInBuffer ==
  /\ token_head_index <= Len(token_buffer)
  /\ \A k \in 1 .. Len(checkpoints) : checkpoints[k] <= Len(token_buffer)

(* A speculative parse only ever moves back to where an enclosing one        *)
(* started, never forward over tokens nobody consumed.                       *)
CheckpointsNest ==
  /\ \A k \in 1 .. Len(checkpoints) : checkpoints[k] <= token_head_index
  /\ \A j, k \in 1 .. Len(checkpoints) : j <= k => checkpoints[j] <= checkpoints[k]

(* The inductive invariant. *)
StreamInv ==
  /\ TypeOK
  /\ BufferInStep
  /\ HeadInBuffer
  /\ CheckpointsNest

(* The diagnostics that lex() pushed. *)
LexDiagnostics(errors) ==
  Selected(errors, {k \in DOMAIN errors : errors[k].kind = "lex"})

(* However often a token is read again after a restore, its bad character    *)
(* is reported once, in source order.                                        *)
LexErrorsOnce ==
  LexDiagnostics(g_errors) = LexErrors(g_text, 1, Len(token_buffer))

(* Within a unit the buffer is only extended: a token pointer held by the    *)
(* AST stays the token it was when it was handed out.                        *)
TokensStay ==
  [][\/ \E t \in Texts : TokstreamInit(t)
     \/ /\ Len(token_buffer) <= Len(token_buffer')
        /\ \A i \in 1 .. Len(token_buffer) : token_buffer'[i] = token_buffer[i]]_vars

(* The buffered stream implements the bufferless cursor.                     *)
Cursor ==
  INSTANCE TokCursor WITH
    text <- g_text, cursor <- token_head_index, seen <- Len(token_buffer),
    marks <- checkpoints, errors <- g_errors, last <- returned,
    MaxCursor <- MaxHead

ImplementsCursor == Cursor!Spec
=============================================================================
