-------------------------------- MODULE Lexer --------------------------------
(***************************************************************************)
(* The lexer (Lexer/lexer.c). lex() is a loop: every iteration looks at    *)
(* the character at g_lex_index and either skips white space or finishes a *)
(* token, so every action below is one iteration. The parser asks for      *)
(* tokens until it has seen the end of the text, and may ask again.        *)
(*                                                                         *)
(* A text is a sequence of one-character strings; the type of a keyword or *)
(* of an operator is its name in token_type_error_names. The text of an    *)
(* identifier or a literal is the slice of the source the token spans.     *)
(*                                                                         *)
(* Bound for TLC: MaxEof calls of lex() at the end of the text.            *)
(***************************************************************************)
EXTENDS Integers, Sequences, FiniteSets, SequencesExt

CONSTANTS
  Letters,   (* characters for which isalpha holds, and '_'                 *)
  Digits,    (* characters for which isdigit holds                          *)
  Newline,   (* '\n'                                                        *)
  Blanks,    (* the other characters for which isspace holds                *)
  Texts,     (* the source texts                                            *)
  Garbage,   (* a position_t that was never written                         *)
  MaxEof

VARIABLES
  text,         (* the NUL-terminated source                                *)
  g_lex_index,  (* offset of the next character, from 0                     *)
  g_lex_row,
  g_lex_col,
  tokens,       (* the tokens lex() has returned, in order                  *)
  errors        (* the spans with which lex() called push_error             *)

vars == <<text, g_lex_index, g_lex_row, g_lex_col, tokens, errors>>

Keywords == {"int", "void", "return", "if", "else", "while", "for"}

SingleChars == {"(", ")", "{", "}", "[", "]", ";", ",", "?", ":", "~"}

(* For a character that may start a longer operator, the second characters   *)
(* its branch tests and the operator each of them makes.                     *)
SecondChar ==
  [ c \in {"-", "+", "<", ">", "&", "|", "*", "/", "%", "^", "=", "!"} |->
      CASE c = "-" -> [d \in {">", "=", "-"} |->
                         CASE d = ">" -> "->" [] d = "=" -> "-=" [] d = "-" -> "--"]
        [] c = "+" -> [d \in {"=", "+"} |-> IF d = "=" THEN "+=" ELSE "++"]
        [] c = "<" -> [d \in {"=", "<"} |-> IF d = "=" THEN "<=" ELSE "<<"]
        [] c = ">" -> [d \in {"=", ">"} |-> IF d = "=" THEN ">=" ELSE ">>"]
        [] c = "&" -> [d \in {"=", "&"} |-> IF d = "=" THEN "&=" ELSE "&&"]
        [] c = "|" -> [d \in {"=", "|"} |-> IF d = "=" THEN "|=" ELSE "||"]
        [] OTHER   -> [d \in {"="} |->
                         CASE c = "*" -> "*=" [] c = "/" -> "/=" [] c = "%" -> "%="
                           [] c = "^" -> "^=" [] c = "=" -> "==" [] c = "!" -> "!="] ]

(* Mutant: '>>=' is forgotten. *)
ThirdCharLeftOnly == [op \in {"<<"} |-> "<<="]

(* The shifts, the only two-character operators that look one further.       *)
ThirdChar == [op \in {"<<", ">>"} |-> IF op = "<<" THEN "<<=" ELSE ">>="]

(* The character that ends a text. *)
NUL == "NUL"

(* The classes are told apart by the character alone, and a text is a C        *)
(* string: the NUL is its end and no character of it.                        *)
ASSUME LexerAssumption ==
  /\ Letters \cap Digits = {}
  /\ ({Newline} \cup Blanks) \cap (Letters \cup Digits) = {}
  /\ Newline \notin Blanks \cup SingleChars \cup DOMAIN SecondChar \cup {"."}
  /\ NUL \notin Letters \cup Digits \cup Blanks \cup {Newline}
  /\ Texts \subseteq Seq(STRING \ {NUL})
  /\ MaxEof \in Nat \ {0}

-----------------------------------------------------------------------------
(* text[i], with the terminating NUL as a character of its own. *)
CharAt(i) == IF i < Len(text) THEN text[i + 1] ELSE NUL

Here == CharAt(g_lex_index)

(* The string that characters make. *)
Joined(chars) == FoldLeft(LAMBDA s, c : s \o c, "", chars)

(* The characters of the text from one offset up to another. *)
Spelled(from, to) == Joined(SubSeq(text, from + 1, to))

(* The end of the longest run of characters of a class from offset i on.     *)
RunEnd(i, class) ==
  CHOOSE j \in i .. Len(text) :
    /\ \A k \in i .. j - 1 : CharAt(k) \in class
    /\ CharAt(j) \notin class

(* Mutant: the character behind the token is swallowed. *)
EmitSwallowing(type, n) ==
  /\ tokens' = Append(tokens,
       [type |-> type, first |-> g_lex_index, after |-> g_lex_index + n,
        start |-> [row |-> g_lex_row, col |-> g_lex_col],
        end   |-> [row |-> g_lex_row, col |-> g_lex_col + n]])
  /\ g_lex_index' = g_lex_index + n + 1
  /\ g_lex_col' = g_lex_col + n + 1
  /\ UNCHANGED <<text, g_lex_row>>

(* Return a token of n characters that starts here. *)
Emit(type, n) ==
  /\ tokens' = Append(tokens,
       [type |-> type, first |-> g_lex_index, after |-> g_lex_index + n,
        start |-> [row |-> g_lex_row, col |-> g_lex_col],
        end   |-> [row |-> g_lex_row, col |-> g_lex_col + n]])
  /\ g_lex_index' = g_lex_index + n
  /\ g_lex_col' = g_lex_col + n
  /\ UNCHANGED <<text, g_lex_row>>

-----------------------------------------------------------------------------
(* init_lexer, for a text. *)
Init ==
  /\ text \in Texts
  /\ g_lex_index = 0
  /\ g_lex_row = 0
  /\ g_lex_col = 0
  /\ tokens = <<>>
  /\ errors = <<>>

(* Mutant: a new line does not start at column 0. *)
SkipNewlineKeepsCol ==
  /\ Here = Newline
  /\ g_lex_index' = g_lex_index + 1
  /\ g_lex_row' = g_lex_row + 1
  /\ UNCHANGED <<text, g_lex_col, tokens, errors>>

SkipNewline ==
  /\ Here = Newline
  /\ g_lex_index' = g_lex_index + 1
  /\ g_lex_col' = 0
  /\ g_lex_row' = g_lex_row + 1
  /\ UNCHANGED <<text, tokens, errors>>

(* Mutant: `continue` without advancing. *)
SkipBlankStays == Here \in Blanks /\ UNCHANGED vars

SkipBlank ==
  /\ Here \in Blanks
  /\ g_lex_index' = g_lex_index + 1
  /\ g_lex_col' = g_lex_col + 1
  /\ UNCHANGED <<text, g_lex_row, tokens, errors>>

(* Mutant: a word ends at the first digit. *)
LexIdentifierLettersOnly ==
  /\ Here \in Letters
  /\ LET to   == RunEnd(g_lex_index, Letters)
         word == Spelled(g_lex_index, to)
     IN  Emit(IF word \in Keywords THEN word ELSE "identifier", to - g_lex_index)
  /\ UNCHANGED errors

LexIdentifier ==
  /\ Here \in Letters
  /\ LET to   == RunEnd(g_lex_index, Letters \cup Digits)
         word == Spelled(g_lex_index, to)
     IN  Emit(IF word \in Keywords THEN word ELSE "identifier", to - g_lex_index)
  /\ UNCHANGED errors

LexIntlit ==
  /\ Here \in Digits
  /\ Emit("integer literal", RunEnd(g_lex_index, Digits) - g_lex_index)
  /\ UNCHANGED errors

LexSingle ==
  /\ Here \in SingleChars
  /\ Emit(Here, 1)
  /\ UNCHANGED errors

(* '.' is an ellipsis only when two more dots follow. *)
LexDot ==
  /\ Here = "."
  /\ IF CharAt(g_lex_index + 1) = "." /\ CharAt(g_lex_index + 2) = "."
     THEN Emit("...", 3)
     ELSE Emit(".", 1)
  /\ UNCHANGED errors

LexOperator ==
  /\ Here \in DOMAIN SecondChar
  /\ LET second == CharAt(g_lex_index + 1)
         third  == CharAt(g_lex_index + 2)
     IN  IF second \notin DOMAIN SecondChar[Here] THEN Emit(Here, 1)
         ELSE LET two == SecondChar[Here][second]
              IN  IF two \in DOMAIN ThirdChar /\ third = "="
                  THEN Emit(ThirdChar[two], 3)
                  ELSE Emit(two, 2)
  /\ UNCHANGED errors

(* What one of the branches of lex() before the last accepts. *)
Recognized ==
  Letters \cup Digits \cup Blanks \cup SingleChars \cup DOMAIN SecondChar
    \cup {Newline, ".", NUL}

LexInvalid ==
  /\ Here \notin Recognized
  /\ Emit("INVALID", 1)
  /\ errors' = Append(errors, [start |-> [row |-> g_lex_row, col |-> g_lex_col],
                               end   |-> [row |-> g_lex_row, col |-> g_lex_col + 1]])

(* The end of the text: an EOF token, however often lex() is called.         *)
LexEof ==
  /\ Here = NUL
  /\ Cardinality({k \in DOMAIN tokens : tokens[k].type = "EOF"}) < MaxEof
  /\ tokens' = Append(tokens,
       [type |-> "EOF", first |-> g_lex_index, after |-> g_lex_index,
        start |-> Garbage, end |-> Garbage])
  /\ UNCHANGED <<text, g_lex_index, g_lex_row, g_lex_col, errors>>

Next ==
  \/ SkipNewline
  \/ SkipBlank
  \/ LexIdentifier
  \/ LexIntlit
  \/ LexSingle
  \/ LexDot
  \/ LexOperator
  \/ LexInvalid
  \/ LexEof

(* The parser goes on asking until it has been given an EOF token. *)
Fairness == WF_vars(Next)

Spec == Init /\ [][Next]_vars /\ Fairness

-----------------------------------------------------------------------------
(* token_type_error_names from "(" on: the operators and punctuators. *)
Operators ==
  {"(", ")", "{", "}", "[", "]", ";", ",", ".", "->", "?", ":", "+", "-", "*",
   "/", "%", "++", "--", "=", "*=", "/=", "%=", "+=", "-=", "<<=", ">>=", "&=",
   "^=", "|=", "==", "!=", "<", ">", "<=", ">=", "&&", "||", "!", "&", "|", "^",
   "~", "<<", ">>", "..."}

(* The tokens tile the text: each begins where the previous one ended or     *)
(* after white space only, nothing else is dropped and nothing read twice;   *)
(* EOF is the end of the text, and stays.                                    *)
TokensTile ==
  \A k \in 1 .. Len(tokens) + 1 :
    LET from == IF k = 1 THEN 0 ELSE tokens[k - 1].after
        to   == IF k > Len(tokens) THEN g_lex_index ELSE tokens[k].first
    IN  /\ from <= to
        /\ \A i \in from .. to - 1 : CharAt(i) \in Blanks \cup {Newline}
        /\ k <= Len(tokens) => (tokens[k].type = "EOF" <=> to = Len(text))

(* The position of offset i, counted from the newlines before it. *)
Location(i) ==
  LET breaks == {j \in 0 .. i - 1 : CharAt(j) = Newline}
  IN  [row |-> Cardinality(breaks),
       col |-> i - (IF breaks = {} THEN 0
                    ELSE 1 + CHOOSE j \in breaks : \A l \in breaks : l <= j)]

(* The incrementally kept row and column are the true ones, and so are the   *)
(* start and the end of every token but EOF: diagnostics point at the text   *)
(* they are about.                                                           *)
PositionsTrue ==
  /\ [row |-> g_lex_row, col |-> g_lex_col] = Location(g_lex_index)
  /\ \A k \in DOMAIN tokens :
       tokens[k].type # "EOF" =>
         /\ tokens[k].start = Location(tokens[k].first)
         /\ tokens[k].end = Location(tokens[k].after)

(* The characters an operator is spelled with. *)
Characters(op) ==
  CASE op = "->" -> <<"-", ">">> [] op = "++" -> <<"+", "+">> [] op = "--" -> <<"-", "-">>
    [] op = "*=" -> <<"*", "=">> [] op = "/=" -> <<"/", "=">> [] op = "%=" -> <<"%", "=">>
    [] op = "+=" -> <<"+", "=">> [] op = "-=" -> <<"-", "=">> [] op = "&=" -> <<"&", "=">>
    [] op = "^=" -> <<"^", "=">> [] op = "|=" -> <<"|", "=">> [] op = "==" -> <<"=", "=">>
    [] op = "!=" -> <<"!", "=">> [] op = "<=" -> <<"<", "=">> [] op = ">=" -> <<">", "=">>
    [] op = "&&" -> <<"&", "&">> [] op = "||" -> <<"|", "|">> [] op = "<<" -> <<"<", "<">>
    [] op = ">>" -> <<">", ">">>
    [] op = "<<=" -> <<"<", "<", "=">> [] op = ">>=" -> <<">", ">", "=">>
    [] op = "..." -> <<".", ".", ".">>
    [] OTHER -> <<op>>

(* The text has the operator at offset i. *)
StartsWith(i, op) ==
  \A n \in 1 .. Len(Characters(op)) : CharAt(i + n - 1) = Characters(op)[n]

(* Longest match (test_tokstream.c:192-195): an operator token is the        *)
(* longest operator the text has at that place, and is spelled that way.     *)
LongestOperator ==
  \A k \in DOMAIN tokens :
    tokens[k].type \in Operators =>
      /\ StartsWith(tokens[k].first, tokens[k].type)
      /\ tokens[k].after = tokens[k].first + Len(Characters(tokens[k].type))
      /\ \A op \in Operators :
           StartsWith(tokens[k].first, op)
             => tokens[k].first + Len(Characters(op)) <= tokens[k].after

(* A word is taken whole, and is a keyword only when all of it is one        *)
(* (test_tokstream.c:503-506). A number takes all the digits there are, and  *)
(* ends at the first other character, even at a letter: of 1a and 0x10 the   *)
(* lexer makes a number and an identifier. The property allows this, though  *)
(* test_tokstream.c:428-430 would have such numbers INVALID.                 *)
LongestWord ==
  \A k \in DOMAIN tokens :
    LET t == tokens[k]
        word == t.type \in Keywords \cup {"identifier"}
    IN  /\ word =>
             /\ CharAt(t.after) \notin Letters \cup Digits
             /\ Spelled(t.first, t.after) \in Keywords <=> t.type # "identifier"
             /\ t.type # "identifier" => Spelled(t.first, t.after) = t.type
        /\ t.type = "integer literal" => CharAt(t.after) \notin Digits

(* Every text is lexed to its end. *)
ReachesEof == <>(\E k \in DOMAIN tokens : tokens[k].type = "EOF")
=============================================================================
