------------------------------ MODULE TokCursor ------------------------------
(***************************************************************************)
(* What the token stream promises to the parser, without a buffer: a       *)
(* cursor into a fixed, endless sequence of tokens. Looking ahead moves    *)
(* nothing, going back to a mark makes the same tokens come again, and a   *)
(* bad character is reported when its token is first asked for, once.      *)
(***************************************************************************)
EXTENDS Tokens

CONSTANTS MaxCursor, MaxLook, MaxMarks, MaxErrors

VARIABLES
  text,      (* the source text of the compilation unit                     *)
  cursor,    (* number of tokens consumed                                   *)
  seen,      (* number of tokens ever asked for                             *)
  marks,     (* the positions the parser may still return to                *)
  errors,    (* the diagnostics, in the order they were pushed              *)
  last       (* the token the last operation returned                       *)

vars == <<text, cursor, seen, marks, errors, last>>

NoToken == TokenAt(<<>>, 1)

Init ==
  /\ text \in Texts
  /\ cursor = 0
  /\ seen = 0
  /\ marks = <<>>
  /\ errors = <<>>
  /\ last = NoToken

(* Asking for token i examines every token up to it that is still unseen.   *)
Reach(i) == IF seen < i THEN i ELSE seen

Report(i) == errors \o LexErrors(text, seen + 1, Reach(i))

Open(t) ==
  /\ marks = <<>>
  /\ text' = t
  /\ cursor' = 0
  /\ seen' = 0
  /\ errors' = <<>>
  /\ last' = NoToken
  /\ UNCHANGED marks

Deliver ==
  /\ cursor < MaxCursor
  /\ cursor' = cursor + 1
  /\ last' = TokenAt(text, cursor + 1)
  /\ seen' = Reach(cursor + 1)
  /\ errors' = Report(cursor + 1)
  /\ UNCHANGED <<text, marks>>

(* A mismatch is reported at the token before the offending one.            *)
DeliverExpecting(wanted) ==
  LET tok   == TokenAt(text, cursor + 1)
      where == IF cursor = 0 THEN 0 ELSE TokenAt(text, cursor).at
  IN  /\ cursor < MaxCursor
      /\ Len(errors) < MaxErrors
      /\ cursor' = cursor + 1
      /\ last' = tok
      /\ seen' = Reach(cursor + 1)
      /\ errors' = IF tok.type \in wanted
                   THEN Report(cursor + 1)
                   ELSE Append(Report(cursor + 1), [kind |-> "expected", at |-> where])
      /\ UNCHANGED <<text, marks>>

LookAhead(n) ==
  /\ last' = TokenAt(text, cursor + n)
  /\ seen' = Reach(cursor + n)
  /\ errors' = Report(cursor + n)
  /\ UNCHANGED <<text, cursor, marks>>

Mark ==
  /\ Len(marks) < MaxMarks
  /\ marks' = Append(marks, cursor)
  /\ UNCHANGED <<text, cursor, seen, errors, last>>

Unmark(back) ==
  /\ marks # <<>>
  /\ marks' = SubSeq(marks, 1, Len(marks) - 1)
  /\ cursor' = IF back THEN marks[Len(marks)] ELSE cursor
  /\ UNCHANGED <<text, seen, errors, last>>

Next ==
  \/ \E t \in Texts : Open(t)
  \/ Deliver
  \/ \E wanted \in SUBSET (Types \cup {EOF}) \ {{}} : DeliverExpecting(wanted)
  \/ \E n \in 1 .. MaxLook : LookAhead(n)
  \/ Mark
  \/ \E back \in BOOLEAN : Unmark(back)

Spec == Init /\ [][Next]_vars
=============================================================================
