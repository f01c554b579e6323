----------------------------- MODULE Diagnostics -----------------------------
(***************************************************************************)
(* What emit_errors (Driver/error.c) puts under a source line for a        *)
(* diagnostic: the marker ^~~~ below the part of the text between two      *)
(* positions, cut at the end of the first line. Positions are the lexer's, *)
(* and the spans of syntax trees are put together from those of tokens.    *)
(***************************************************************************)
EXTENDS Lexer, Selection

Breaks == {i \in 0 .. Len(text) - 1 : CharAt(i) = Newline}

HasLine(row) == row <= Cardinality(Breaks)

(* get_line: the offset a line begins at, and its length. *)
LineStart(row) == IF row = 0 THEN 0 ELSE 1 + Nth(Breaks, row)

LineEnd(from) == Min({b \in Breaks : b >= from} \cup {Len(text)})
LineLength(row) == LineEnd(LineStart(row)) - LineStart(row)

(* Mutant: the column of the end is taken for one on the first line. *)
EndColumnAnyRow(error) == error.end.col

EndColumn(error) ==
  IF error.end.row = error.start.row THEN error.end.col ELSE LineLength(error.start.row)

(* emit_errors: the offset of the character above '^', and the length of the *)
(* marker; nothing for a line that is not there.                             *)
Marker(error) ==
  LET length == LineLength(error.start.row)
      start  == Min({error.start.col, length})
      end    == Min({length, IF EndColumn(error) <= start THEN start + 1 ELSE EndColumn(error)})
      at(column, n) == [first |-> LineStart(error.start.row) + column, length |-> n]
  IN  IF ~HasLine(error.start.row) THEN NUL
      ELSE IF end > start THEN at(start, end - start)
      ELSE at(Max({length, 1}) - 1, 1)

-----------------------------------------------------------------------------
(* A diagnostic for the tokens i to j marks them, from the first character   *)
(* on, and nothing beside them but what is on their first line.              *)
MarksTokens(i, j) ==
  Marker([start |-> tokens[i].start, end |-> tokens[j].end]) =
    [first  |-> tokens[i].first,
     length |-> Min({tokens[j].after, LineEnd(tokens[i].first)}) - tokens[i].first]

(* The lexer's own diagnostics, one after the other, mark the characters no  *)
(* rule matches, each once, and nothing else; and those that later phases    *)
(* push for a span of tokens mark that span.                                 *)
MarkersTrue ==
  LET Invalid(t) == t.type = "INVALID"
      bad == Selected(tokens, {k \in DOMAIN tokens : Invalid(tokens[k])})
      Spans == {k \in DOMAIN tokens : tokens[k].type # "EOF"}
  IN  /\ [k \in DOMAIN errors |-> Marker(errors[k])]
           = [k \in DOMAIN bad |-> [first |-> bad[k].first, length |-> 1]]
      /\ \A k \in DOMAIN tokens : Invalid(tokens[k]) <=> CharAt(tokens[k].first) \notin Recognized
      /\ \A i, j \in Spans : i <= j => MarksTokens(i, j)
===============================================================================
