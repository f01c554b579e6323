------------------------------ MODULE LexerProofs ------------------------------
(***************************************************************************)
(* What the lexer promises, for every text and every choice of the         *)
(* character classes: the tokens tile the text, the positions are true,    *)
(* words and numbers are taken whole and operators as long as they come.   *)
(* These hold of a token as soon as it is returned and never change, for   *)
(* they speak of nothing but the text, so LexInv is little more than their *)
(* conjunction; what each branch of lex() makes sure of is in Taken.       *)
(***************************************************************************)
EXTENDS Lexer, NaturalNumbers, FiniteSetTheorems, SequenceTheorems, TLAPS

Positions == [row : Nat, col : Nat]

(* The types of tokens, as token_type lists them. *)
TokenNames ==
  Keywords \cup Operators \cup {"identifier", "integer literal", "INVALID", "EOF"}

TokenTypes ==
  [type : TokenNames, first : Nat, after : Nat,
   start : Positions \cup {Garbage}, end : Positions \cup {Garbage}]

LexTypes ==
  /\ text \in Seq(STRING \ {NUL})
  /\ g_lex_index \in 0 .. Len(text)
  /\ g_lex_row \in Nat
  /\ g_lex_col \in Nat
  /\ tokens \in Seq(TokenTypes)

LexInv == LexTypes /\ TokensTile /\ PositionsTrue /\ LongestWord /\ LongestOperator

WordTypes == Keywords \cup {"identifier"}

(* What LongestWord asks of one token. *)
WordWhole(t) ==
  /\ t.type \in WordTypes =>
       /\ CharAt(t.after) \notin Letters \cup Digits
       /\ (Spelled(t.first, t.after) \in Keywords) <=> (t.type # "identifier")
       /\ t.type # "identifier" => Spelled(t.first, t.after) = t.type
  /\ t.type = "integer literal" => CharAt(t.after) \notin Digits

(* What LongestOperator asks of one token. *)
OperatorWhole(t) ==
  t.type \in Operators =>
    /\ StartsWith(t.first, t.type)
    /\ t.after = t.first + Len(Characters(t.type))
    /\ \A op \in Operators :
         StartsWith(t.first, op) => t.first + Len(Characters(op)) <= t.after

(* n characters from here on, taken for a token of a type. *)
Piece(type, n) == [type |-> type, first |-> g_lex_index, after |-> g_lex_index + n]

(* n characters from here on are a token of the type: what every branch of   *)
(* lex() that returns one, but for EOF, makes sure of.                       *)
Taken(type, n) ==
  /\ type \in TokenNames \ {"EOF"}
  /\ n \in Nat \ {0}
  /\ g_lex_index + n <= Len(text)
  /\ \A k \in g_lex_index .. g_lex_index + n - 1 : CharAt(k) # Newline
  /\ WordWhole(Piece(type, n))
  /\ OperatorWhole(Piece(type, n))
  /\ type = "INVALID" <=> Here \notin Recognized
  /\ type = "INVALID" => n = 1

(* Such a token is returned. *)
EmitsToken == \E type, n : Taken(type, n) /\ Emit(type, n)

-----------------------------------------------------------------------------
(* The NUL is read at the end of the text and nowhere before it. *)
LEMMA NulIsTheEnd ==
  ASSUME LexTypes, NEW i \in Nat
  PROVE  /\ CharAt(i) = NUL <=> i >= Len(text)
         /\ i < Len(text) => CharAt(i) \in STRING
BY DEF LexTypes, CharAt

(* A run of characters of a class that does not hold the NUL ends, before    *)
(* the end of the text or at it.                                             *)
LEMMA RunEnds ==
  ASSUME LexTypes, NEW class, NUL \notin class,
         NEW i \in 0 .. Len(text), CharAt(i) \in class
  PROVE  /\ RunEnd(i, class) \in i + 1 .. Len(text)
         /\ \A k \in i .. RunEnd(i, class) - 1 : CharAt(k) \in class
         /\ CharAt(RunEnd(i, class)) \notin class
<1> DEFINE Outside == {j \in i .. Len(text) : CharAt(j) \notin class}
           Ends(j) == /\ \A k \in i .. j - 1 : CharAt(k) \in class
                      /\ CharAt(j) \notin class
<1>1. Len(text) \in Nat /\ CharAt(Len(text)) = NUL
  BY NulIsTheEnd DEF LexTypes
<1>2. Outside \subseteq Nat /\ Outside # {}
  <2>1. Len(text) \in Outside
    BY <1>1
  <2>2. QED
    BY <2>1
<1>3. PICK j \in Outside : \A l \in Outside : j <= l
  <2> HIDE DEF Outside
  <2>1. QED
    BY <1>2, LeastNumber
<1>4. j \in i .. Len(text) /\ Ends(j)
  BY <1>3
<1>5. RunEnd(i, class) = CHOOSE l \in i .. Len(text) : Ends(l)
  BY DEF RunEnd
<1>6. RunEnd(i, class) \in i .. Len(text) /\ Ends(RunEnd(i, class))
  <2> HIDE DEF Ends
  <2>1. QED
    BY <1>4, <1>5
<1>7. QED
  BY <1>6

(* Behind a newline the row is the next one and the column 0. *)
LEMMA LocationAfterNewline ==
  ASSUME NEW i \in Nat, CharAt(i) = Newline
  PROVE  Location(i + 1) = [row |-> Location(i).row + 1, col |-> 0]
<1> DEFINE Breaks(k) == {j \in 0 .. k - 1 : CharAt(j) = Newline}
           LastOf(S) == CHOOSE j \in S : \A l \in S : l <= j
<1>1. Breaks(i + 1) = Breaks(i) \cup {i} /\ i \notin Breaks(i)
  OBVIOUS
<1>2. IsFiniteSet(Breaks(i)) /\ Cardinality(Breaks(i)) \in Nat
  <2>1. IsFiniteSet(0 .. i - 1)
    BY FS_Interval
  <2>2. Breaks(i) \in SUBSET (0 .. i - 1)
    OBVIOUS
  <2> HIDE DEF Breaks
  <2>3. QED
    BY <2>1, <2>2, FS_Subset, FS_CardinalityType
<1>3. Cardinality(Breaks(i + 1)) = Cardinality(Breaks(i)) + 1
  <2> HIDE DEF Breaks
  <2>1. QED
    BY <1>1, <1>2, FS_AddElement
<1>4. \A j \in Breaks(i + 1) : j \in Int /\ j <= i
  OBVIOUS
<1>5. LastOf(Breaks(i + 1)) = i
  <2> HIDE DEF Breaks
  <2>1. \A j \in Breaks(i + 1) : (\A l \in Breaks(i + 1) : l <= j) => j = i
    BY <1>1, <1>4
  <2>2. QED
    BY <1>1, <1>4, <2>1
<1>6. /\ Location(i + 1).row = Cardinality(Breaks(i + 1))
      /\ Location(i).row = Cardinality(Breaks(i))
      /\ Location(i + 1).col =
           (i + 1) - (IF Breaks(i + 1) = {} THEN 0 ELSE 1 + LastOf(Breaks(i + 1)))
      /\ Location(i + 1) = [row |-> Location(i + 1).row, col |-> Location(i + 1).col]
  BY DEF Location
<1>7. Breaks(i + 1) # {}
  BY <1>1
<1> HIDE DEF Breaks, LastOf
<1>8. QED
  BY <1>3, <1>5, <1>6, <1>7

(* Over characters that are no newline the row stays and the column runs. *)
LEMMA LocationAlong ==
  ASSUME NEW i \in Nat, NEW n \in Nat,
         \A k \in i .. i + n - 1 : CharAt(k) # Newline
  PROVE  /\ Location(i + n).row = Location(i).row
         /\ Location(i + n).col = Location(i).col + n
<1> DEFINE Breaks(k) == {j \in 0 .. k - 1 : CharAt(j) = Newline}
           LastOf(S) == CHOOSE j \in S : \A l \in S : l <= j
           Base(S) == IF S = {} THEN 0 ELSE 1 + LastOf(S)
<1>1. Breaks(i + n) = Breaks(i)
  OBVIOUS
<1>2. \A k : /\ Location(k).row = Cardinality(Breaks(k))
             /\ Location(k).col = k - Base(Breaks(k))
  BY DEF Location
<1>3. Base(Breaks(i)) \in Int
  <2>1. CASE Breaks(i) = {}
    BY <2>1
  <2>2. CASE Breaks(i) # {}
    <3>1. \E j \in Breaks(i) : \A l \in Breaks(i) : l <= j
      <4>1. Breaks(i) \subseteq Nat /\ \A l \in Breaks(i) : l <= i
        OBVIOUS
      <4> HIDE DEF Breaks
      <4>2. QED
        BY <2>2, <4>1, GreatestNumber
    <3>2. Breaks(i) \subseteq Int
      OBVIOUS
    <3> HIDE DEF Breaks
    <3>3. LastOf(Breaks(i)) \in Breaks(i)
      BY <3>1
    <3> HIDE DEF LastOf
    <3>4. QED
      BY <2>2, <3>2, <3>3
  <2>3. QED
    BY <2>1, <2>2
<1> HIDE DEF Breaks, Base
<1>4. QED
  BY <1>1, <1>2, <1>3

(* LongestWord, token by token. *)
LEMMA WordsAreWhole ==
  LongestWord <=> \A k \in DOMAIN tokens : WordWhole(tokens[k])
BY DEF LongestWord, WordWhole, WordTypes

(* LongestOperator, token by token. *)
LEMMA OperatorsAreWhole ==
  LongestOperator <=> \A k \in DOMAIN tokens : OperatorWhole(tokens[k])
BY DEF LongestOperator, OperatorWhole

(* A location is made of its row and its column. *)
LEMMA LocationsAreRecords ==
  ASSUME NEW i, NEW r, NEW c, Location(i).row = r, Location(i).col = c
  PROVE  Location(i) = [row |-> r, col |-> c]
BY DEF Location

-----------------------------------------------------------------------------
(* A token that lex() returns keeps the invariant. *)
LEMMA EmitKeeps ==
  ASSUME LexInv, NEW type, NEW n, Taken(type, n), Emit(type, n)
  PROVE  LexInv'
<1> DEFINE tk == [type |-> type, first |-> g_lex_index, after |-> g_lex_index + n,
                  start |-> [row |-> g_lex_row, col |-> g_lex_col],
                  end   |-> [row |-> g_lex_row, col |-> g_lex_col + n]]
<1>1. /\ tokens' = Append(tokens, tk)
      /\ g_lex_index' = g_lex_index + n
      /\ g_lex_col' = g_lex_col + n
      /\ g_lex_row' = g_lex_row
      /\ text' = text
  BY DEF Emit
<1>2. LexTypes /\ TokensTile /\ PositionsTrue /\ LongestWord /\ LongestOperator
  BY DEF LexInv
<1>a. /\ type \in TokenNames /\ type # "EOF"
      /\ n \in Nat /\ n > 0 /\ g_lex_index + n <= Len(text)
      /\ \A k \in g_lex_index .. g_lex_index + n - 1 : CharAt(k) # Newline
      /\ WordWhole(Piece(type, n))
      /\ OperatorWhole(Piece(type, n))
  BY DEF Taken
<1>b. g_lex_index \in Nat /\ Len(text) \in Nat /\ g_lex_row \in Nat /\ g_lex_col \in Nat
  BY <1>2 DEF LexTypes
<1>3. tk \in TokenTypes
  BY <1>a, <1>b DEF TokenTypes, Positions
<1>4. /\ tokens' \in Seq(TokenTypes)
      /\ Len(tokens') = Len(tokens) + 1 /\ Len(tokens) \in Nat
      /\ \A k \in 1 .. Len(tokens) : tokens'[k] = tokens[k]
      /\ tokens'[Len(tokens) + 1] = tk
      /\ DOMAIN tokens = 1 .. Len(tokens) /\ DOMAIN tokens' = 1 .. Len(tokens')
  <2> HIDE DEF tk
  <2>1. QED
    BY <1>1, <1>2, <1>3, AppendProperties DEF LexTypes
<1>5. LexTypes'
  BY <1>1, <1>2, <1>4, <1>a, <1>b DEF LexTypes
<1>6. TokensTile'
  <2> DEFINE From(ts, k) == IF k = 1 THEN 0 ELSE ts[k - 1].after
             To(ts, g, k) == IF k > Len(ts) THEN g ELSE ts[k].first
             Tile(ts, g, k) ==
               /\ From(ts, k) <= To(ts, g, k)
               /\ \A i \in From(ts, k) .. To(ts, g, k) - 1 : CharAt(i) \in Blanks \cup {Newline}
               /\ k <= Len(ts) => (ts[k].type = "EOF" <=> To(ts, g, k) = Len(text))
             m == Len(tokens)
  <2>1. \A k \in 1 .. m + 1 : Tile(tokens, g_lex_index, k)
    BY <1>2 DEF TokensTile
  <2>2. tk.first = g_lex_index /\ tk.after = g_lex_index' /\ tk.type # "EOF"
    BY <1>1, <1>a
  <2>3. g_lex_index # Len(text) /\ g_lex_index' \in Nat
    BY <1>1, <1>a, <1>b
  <2> HIDE DEF tk
  <2>4. ASSUME NEW k \in 1 .. m PROVE Tile(tokens', g_lex_index', k)
    <3>1. /\ From(tokens', k) = From(tokens, k)
          /\ To(tokens', g_lex_index', k) = To(tokens, g_lex_index, k)
          /\ tokens'[k] = tokens[k] /\ k <= m
      <4>1. k # 1 => k - 1 \in 1 .. m
        BY <1>4
      <4>2. k <= m /\ k <= Len(tokens')
        BY <1>4
      <4>3. ~(k > m) /\ ~(k > Len(tokens'))
        BY <1>4, <4>2
      <4>4. QED
        BY <1>4, <4>1, <4>2, <4>3
    <3>2. Tile(tokens, g_lex_index, k)
      BY <1>4, <2>1
    <3> HIDE DEF From, To
    <3>3. QED
      BY <3>1, <3>2
  <2>5. Tile(tokens', g_lex_index', m + 1)
    <3>1. /\ From(tokens', m + 1) = From(tokens, m + 1)
          /\ To(tokens', g_lex_index', m + 1) = g_lex_index
          /\ To(tokens, g_lex_index, m + 1) = g_lex_index
      <4>1. m + 1 # 1 => m \in 1 .. m
        BY <1>4
      <4>2. m + 1 > m /\ ~(m + 1 > Len(tokens')) /\ m + 1 - 1 = m
        BY <1>4
      <4>3. QED
        BY <1>4, <2>2, <4>1, <4>2
    <3>2. Tile(tokens, g_lex_index, m + 1)
      BY <1>4, <2>1
    <3> HIDE DEF From, To
    <3>3. QED
      BY <1>4, <2>2, <2>3, <3>1, <3>2
  <2>6. Tile(tokens', g_lex_index', m + 2)
    <3>1. /\ From(tokens', m + 2) = g_lex_index'
          /\ To(tokens', g_lex_index', m + 2) = g_lex_index'
          /\ ~(m + 2 <= Len(tokens'))
      <4>1. m + 2 # 1 /\ m + 2 - 1 = m + 1 /\ m + 2 > Len(tokens') /\ ~(m + 2 <= Len(tokens'))
        BY <1>4
      <4>2. QED
        BY <1>4, <2>2, <4>1
    <3> HIDE DEF From, To
    <3>2. QED
      BY <2>3, <3>1
  <2>7. \A k \in 1 .. Len(tokens') + 1 : k \in 1 .. m \/ k = m + 1 \/ k = m + 2
    BY <1>4
  <2> HIDE DEF Tile
  <2>8. \A k \in 1 .. Len(tokens') + 1 : Tile(tokens', g_lex_index', k)
    BY <2>4, <2>5, <2>6, <2>7
  <2>9. \A i : CharAt(i)' = CharAt(i)
    BY <1>1 DEF CharAt
  <2>10. QED
    BY <1>1, <2>8, <2>9 DEF TokensTile, Tile
<1>7. PositionsTrue'
  <2>1. \A i : Location(i)' = Location(i)
    BY <1>1 DEF Location, CharAt
  <2>2. Location(g_lex_index + n) = [row |-> g_lex_row, col |-> g_lex_col + n]
    <3>1. /\ Location(g_lex_index) = [row |-> g_lex_row, col |-> g_lex_col]
          /\ g_lex_index \in Nat
      BY <1>2 DEF PositionsTrue, LexTypes
    <3>2. Location(g_lex_index).row = g_lex_row /\ Location(g_lex_index).col = g_lex_col
      BY <3>1
    <3>3. /\ Location(g_lex_index + n).row = g_lex_row
          /\ Location(g_lex_index + n).col = g_lex_col + n
      BY <1>a, <3>1, <3>2, LocationAlong
    <3>4. QED
      BY <3>3, LocationsAreRecords
  <2>3. tk.start = Location(tk.first) /\ tk.end = Location(tk.after)
    BY <1>2, <2>2 DEF PositionsTrue
  <2> HIDE DEF tk
  <2>4. QED
    BY <1>1, <1>2, <1>4, <2>1, <2>2, <2>3 DEF PositionsTrue
<1>8. LongestWord'
  <2>1. /\ \A i : CharAt(i)' = CharAt(i)
        /\ \A i, j : Spelled(i, j)' = Spelled(i, j)
    BY <1>1 DEF CharAt, Spelled
  <2>2. WordWhole(tk)
    BY <1>a DEF WordWhole, WordTypes, Piece
  <2> HIDE DEF tk
  <2>3. \A k \in DOMAIN tokens : WordWhole(tokens[k])
    BY <1>2, WordsAreWhole
  <2>4. ASSUME NEW k \in DOMAIN tokens' PROVE WordWhole(tokens'[k])
    BY <1>4, <2>2, <2>3
  <2>5. ASSUME NEW k \in DOMAIN tokens' PROVE WordWhole(tokens[k])'
    BY <2>1, <2>4 DEF WordWhole
  <2>6. QED
    BY <2>5 DEF LongestWord, WordWhole, WordTypes
<1>9. LongestOperator'
  <2>1. \A i, op : StartsWith(i, op)' = StartsWith(i, op)
    BY <1>1 DEF StartsWith, CharAt
  <2>2. OperatorWhole(tk)
    BY <1>a DEF OperatorWhole, Piece
  <2> HIDE DEF tk
  <2>3. \A k \in DOMAIN tokens : OperatorWhole(tokens[k])
    BY <1>2, OperatorsAreWhole
  <2>4. ASSUME NEW k \in DOMAIN tokens' PROVE OperatorWhole(tokens'[k])
    BY <1>4, <2>2, <2>3
  <2>5. ASSUME NEW k \in DOMAIN tokens' PROVE OperatorWhole(tokens[k])'
    BY <2>1, <2>4 DEF OperatorWhole
  <2>6. QED
    BY <2>5 DEF LongestOperator, OperatorWhole
<1>10. QED
  BY <1>5, <1>6, <1>7, <1>8, <1>9 DEF LexInv

(* White space moves the position and adds no token. *)
LEMMA SkipKeeps ==
  ASSUME LexInv, SkipNewline \/ SkipBlank
  PROVE  LexInv'
<1>1. LexTypes /\ TokensTile /\ PositionsTrue /\ LongestWord /\ LongestOperator
  BY DEF LexInv
<1>2. /\ text' = text /\ tokens' = tokens
      /\ g_lex_index' = g_lex_index + 1
      /\ CharAt(g_lex_index) \in Blanks \cup {Newline}
  BY DEF SkipNewline, SkipBlank, Here
<1>3. /\ g_lex_index \in Nat /\ g_lex_index < Len(text)
      /\ Len(text) \in Nat /\ Len(tokens) \in Nat
  <2>1. /\ g_lex_index \in Nat /\ g_lex_index <= Len(text)
        /\ Len(text) \in Nat /\ Len(tokens) \in Nat
    BY <1>1 DEF LexTypes
  <2>2. CharAt(g_lex_index) # NUL
    BY <1>2, LexerAssumption
  <2>3. QED
    BY <1>1, <2>1, <2>2, NulIsTheEnd
<1>4. /\ \A i : CharAt(i)' = CharAt(i)
      /\ \A i : Location(i)' = Location(i)
      /\ \A i, j : Spelled(i, j)' = Spelled(i, j)
      /\ \A i, op : StartsWith(i, op)' = StartsWith(i, op)
  BY <1>2 DEF CharAt, Location, Spelled, StartsWith
<1>5. Location(g_lex_index + 1) = [row |-> g_lex_row', col |-> g_lex_col']
  <2>1. /\ Location(g_lex_index) = [row |-> g_lex_row, col |-> g_lex_col]
        /\ Location(g_lex_index).row = g_lex_row /\ Location(g_lex_index).col = g_lex_col
    BY <1>1 DEF PositionsTrue
  <2>2. CASE SkipNewline
    <3>1. CharAt(g_lex_index) = Newline
      BY <2>2 DEF SkipNewline, Here
    <3>2. QED
      BY <1>3, <2>1, <2>2, <3>1, LocationAfterNewline DEF SkipNewline
  <2>3. CASE SkipBlank
    <3>1. \A k \in g_lex_index .. g_lex_index + 1 - 1 : CharAt(k) # Newline
      BY <1>3, <2>3, LexerAssumption DEF SkipBlank, Here
    <3>2. /\ Location(g_lex_index + 1).row = g_lex_row
          /\ Location(g_lex_index + 1).col = g_lex_col + 1
      BY <1>3, <2>1, <3>1, LocationAlong
    <3>3. g_lex_row' = g_lex_row /\ g_lex_col' = g_lex_col + 1
      BY <2>3 DEF SkipBlank
    <3>4. QED
      BY <3>2, <3>3, LocationsAreRecords
  <2>4. QED
    BY <2>2, <2>3
<1>6. LexTypes'
  <2>1. g_lex_row' \in Nat /\ g_lex_col' \in Nat
    BY <1>1 DEF SkipNewline, SkipBlank, LexTypes
  <2>2. QED
    BY <1>1, <1>2, <1>3, <2>1 DEF LexTypes
<1>7. TokensTile'
  <2> DEFINE From(k) == IF k = 1 THEN 0 ELSE tokens[k - 1].after
             To(k, g) == IF k > Len(tokens) THEN g ELSE tokens[k].first
             Tiled(k, g) == /\ From(k) <= To(k, g)
                            /\ \A i \in From(k) .. To(k, g) - 1 :
                                 CharAt(i) \in Blanks \cup {Newline}
                            /\ k <= Len(tokens) =>
                                 (tokens[k].type = "EOF" <=> To(k, g) = Len(text))
  <2>1. ASSUME NEW k \in 1 .. Len(tokens) + 1
        PROVE  Tiled(k, g_lex_index + 1)
    <3>1. Tiled(k, g_lex_index)
      BY <1>1 DEF TokensTile
    <3>2. CASE k <= Len(tokens)
      BY <1>3, <3>1, <3>2
    <3>3. CASE k = Len(tokens) + 1
      <4>1. From(k) \in Nat
        <5>1. CASE k = 1
        BY <5>1
      <5>2. CASE k # 1
        <6>1. tokens[k - 1] \in TokenTypes
          BY <1>1, <1>3, <3>3, <5>2 DEF LexTypes
        <6>2. QED
          BY <5>2, <6>1 DEF TokenTypes
      <5>3. QED
        BY <5>1, <5>2
      <4> HIDE DEF From
      <4>2. QED
        BY <1>2, <1>3, <3>1, <3>3, <4>1
    <3>4. QED
      BY <1>3, <3>2, <3>3
  <2>2. QED
    BY <1>2, <1>4, <2>1 DEF TokensTile
<1>8. PositionsTrue'
  BY <1>1, <1>2, <1>4, <1>5 DEF PositionsTrue
<1>9. LongestWord'
  BY <1>1, <1>2, <1>4 DEF LongestWord
<1>10. LongestOperator'
  BY <1>1, <1>2, <1>4 DEF LongestOperator
<1>11. QED
  BY <1>6, <1>7, <1>8, <1>9, <1>10 DEF LexInv

(* An EOF token is given at the end of the text, without a position. *)
LEMMA EofKeeps ==
  ASSUME LexInv, LexEof
  PROVE  LexInv'
<1> DEFINE tk == [type |-> "EOF", first |-> g_lex_index, after |-> g_lex_index,
                  start |-> Garbage, end |-> Garbage]
<1>1. LexTypes /\ TokensTile /\ PositionsTrue /\ LongestWord /\ LongestOperator
  BY DEF LexInv
<1>2. /\ tokens' = Append(tokens, tk)
      /\ UNCHANGED <<text, g_lex_index, g_lex_row, g_lex_col>>
  BY DEF LexEof
<1>3. g_lex_index = Len(text) /\ g_lex_index \in Nat
  BY <1>1, NulIsTheEnd DEF LexEof, Here, LexTypes
<1>4. /\ tk \in TokenTypes /\ tk.type = "EOF"
      /\ tk.first = g_lex_index /\ tk.after = g_lex_index
  <2>1. tk \in TokenTypes
    BY <1>3 DEF TokenTypes, TokenNames
  <2>2. QED
    BY <2>1
<1>5. WordWhole(tk) /\ OperatorWhole(tk)
  BY DEF WordWhole, WordTypes, Keywords, OperatorWhole, Operators
<1> HIDE DEF tk
<1>6. /\ tokens' \in Seq(TokenTypes)
      /\ Len(tokens') = Len(tokens) + 1 /\ Len(tokens) \in Nat
      /\ \A k \in 1 .. Len(tokens) : tokens'[k] = tokens[k]
      /\ tokens'[Len(tokens) + 1] = tk
      /\ DOMAIN tokens = 1 .. Len(tokens) /\ DOMAIN tokens' = 1 .. Len(tokens')
  BY <1>1, <1>2, <1>4, AppendProperties DEF LexTypes
<1>7. /\ \A i : CharAt(i)' = CharAt(i)
      /\ \A i : Location(i)' = Location(i)
      /\ \A i, j : Spelled(i, j)' = Spelled(i, j)
      /\ \A i, op : StartsWith(i, op)' = StartsWith(i, op)
  BY <1>2 DEF CharAt, Location, Spelled, StartsWith
<1>8. LexTypes'
  BY <1>1, <1>2, <1>6 DEF LexTypes
<1>9. TokensTile'
  BY <1>1, <1>2, <1>3, <1>4, <1>6, <1>7 DEF TokensTile
<1>10. PositionsTrue'
  BY <1>1, <1>2, <1>4, <1>6, <1>7 DEF PositionsTrue
<1>11. LongestWord'
  <2>1. \A k \in DOMAIN tokens : WordWhole(tokens[k])
    BY <1>1, WordsAreWhole
  <2>2. ASSUME NEW k \in DOMAIN tokens' PROVE WordWhole(tokens'[k])
    BY <1>5, <1>6, <2>1
  <2>3. ASSUME NEW k \in DOMAIN tokens' PROVE WordWhole(tokens[k])'
    BY <1>7, <2>2 DEF WordWhole
  <2>4. QED
    BY <2>3 DEF LongestWord, WordWhole, WordTypes
<1>12. LongestOperator'
  <2>1. \A k \in DOMAIN tokens : OperatorWhole(tokens[k])
    BY <1>1, OperatorsAreWhole
  <2>2. ASSUME NEW k \in DOMAIN tokens' PROVE OperatorWhole(tokens'[k])
    BY <1>5, <1>6, <2>1
  <2>3. ASSUME NEW k \in DOMAIN tokens' PROVE OperatorWhole(tokens[k])'
    BY <1>7, <2>2 DEF OperatorWhole
  <2>4. QED
    BY <2>3 DEF LongestOperator, OperatorWhole
<1>13. QED
  BY <1>8, <1>9, <1>10, <1>11, <1>12 DEF LexInv

-----------------------------------------------------------------------------
(* Here is no NUL, so a token of one character fits, and it is no newline.   *)
LEMMA HereFits ==
  ASSUME LexTypes, Here # NUL
  PROVE  g_lex_index \in Nat /\ Len(text) \in Nat /\ g_lex_index < Len(text)
<1>1. g_lex_index \in Nat /\ Len(text) \in Nat /\ g_lex_index <= Len(text)
  BY DEF LexTypes
<1>2. QED
  BY <1>1, NulIsTheEnd DEF Here

(* A word is taken to the last letter or digit of its run. *)
LEMMA IdentifierTaken ==
  ASSUME LexTypes, LexIdentifier
  PROVE  EmitsToken
<1> DEFINE class == Letters \cup Digits
           to == RunEnd(g_lex_index, class)
           word == Spelled(g_lex_index, to)
           type == IF word \in Keywords THEN word ELSE "identifier"
           n == to - g_lex_index
<1>1. NUL \notin class /\ Newline \notin class /\ CharAt(g_lex_index) \in class
  BY LexerAssumption DEF LexIdentifier, Here
<1>2. /\ g_lex_index \in Nat /\ Len(text) \in Nat
      /\ g_lex_index \in 0 .. Len(text)
  BY <1>1, HereFits DEF LexTypes
<1>3. Emit(type, n)
  BY DEF LexIdentifier
<1>4. /\ type \in TokenNames \ {"EOF"} /\ type # "integer literal"
      /\ type \notin Operators /\ type # "INVALID"
  BY DEF TokenNames, Keywords, Operators
<1>5. /\ word \in Keywords <=> type # "identifier"
      /\ type # "identifier" => word = type
  BY DEF Keywords
<1> HIDE DEF class
<1>6. /\ to \in g_lex_index + 1 .. Len(text)
      /\ \A k \in g_lex_index .. to - 1 : CharAt(k) \in class
      /\ CharAt(to) \notin class
  BY <1>1, <1>2, RunEnds
<1> HIDE DEF to
<1>7. /\ n \in Nat \ {0} /\ g_lex_index + n = to /\ to <= Len(text)
      /\ \A k \in g_lex_index .. to - 1 : CharAt(k) # Newline
  BY <1>1, <1>2, <1>6
<1> HIDE DEF n, word, type
<1>8. WordWhole(Piece(type, n))
  BY <1>4, <1>5, <1>6, <1>7 DEF WordWhole, word, class, Piece
<1>9. Here \in Recognized
  BY DEF LexIdentifier, Recognized
<1>10. Taken(type, n)
  <2>1. \A k \in g_lex_index .. g_lex_index + n - 1 : CharAt(k) # Newline
    BY <1>2, <1>7
  <2>2. OperatorWhole(Piece(type, n)) /\ g_lex_index + n <= Len(text)
    BY <1>4, <1>7 DEF OperatorWhole, Piece
  <2>3. QED
    BY <1>4, <1>7, <1>8, <1>9, <2>1, <2>2 DEF Taken
<1>11. QED
  BY <1>3, <1>10 DEF EmitsToken

(* So is a number, to its last digit. *)
LEMMA IntlitTaken ==
  ASSUME LexTypes, LexIntlit
  PROVE  EmitsToken
<1> DEFINE to == RunEnd(g_lex_index, Digits)
           n == to - g_lex_index
<1>1. NUL \notin Digits /\ Newline \notin Digits /\ CharAt(g_lex_index) \in Digits
  BY LexerAssumption DEF LexIntlit, Here
<1>2. /\ g_lex_index \in Nat /\ Len(text) \in Nat
      /\ g_lex_index \in 0 .. Len(text)
  BY <1>1, HereFits DEF LexTypes, Here
<1>3. Emit("integer literal", n)
  BY DEF LexIntlit
<1>4. /\ "integer literal" \in TokenNames \ {"EOF"}
      /\ "integer literal" \notin WordTypes \cup Operators
  BY DEF TokenNames, WordTypes, Keywords, Operators
<1>5. /\ to \in g_lex_index + 1 .. Len(text)
      /\ \A k \in g_lex_index .. to - 1 : CharAt(k) \in Digits
      /\ CharAt(to) \notin Digits
  BY <1>1, <1>2, RunEnds
<1> HIDE DEF to
<1>6. /\ n \in Nat \ {0} /\ g_lex_index + n = to /\ to <= Len(text)
      /\ \A k \in g_lex_index .. to - 1 : CharAt(k) # Newline
  BY <1>1, <1>2, <1>5
<1> HIDE DEF n
<1>7. WordWhole(Piece("integer literal", n))
  BY <1>4, <1>5, <1>6 DEF WordWhole, Piece
<1>8. Here \in Recognized
  BY DEF LexIntlit, Recognized
<1>9. Taken("integer literal", n)
  <2>1. \A k \in g_lex_index .. g_lex_index + n - 1 : CharAt(k) # Newline
    BY <1>2, <1>6
  <2>2. OperatorWhole(Piece("integer literal", n)) /\ g_lex_index + n <= Len(text)
    BY <1>4, <1>6 DEF OperatorWhole, Piece
  <2>3. QED
    BY <1>4, <1>6, <1>7, <1>8, <2>1, <2>2 DEF Taken
<1>10. QED
  BY <1>3, <1>9 DEF EmitsToken

-----------------------------------------------------------------------------
(* No operator is a word or a number, no character of one is a newline, and  *)
(* the table of the second and third characters holds nothing but operators. *)
LEMMA OperatorFacts ==
  /\ SingleChars \cup DOMAIN SecondChar \cup {".", "..."} \subseteq Operators
  /\ \A c \in DOMAIN SecondChar : \A d \in DOMAIN SecondChar[c] :
       d \in DOMAIN SecondChar /\ SecondChar[c][d] \in Operators
  /\ \A op \in DOMAIN ThirdChar : ThirdChar[op] \in Operators
  /\ "=" \in DOMAIN SecondChar
  /\ SingleChars \cap DOMAIN SecondChar = {}
  /\ "." \notin SingleChars \cup DOMAIN SecondChar
<1>1. SingleChars \cup DOMAIN SecondChar \cup {".", "..."} \subseteq Operators
  BY DEF SingleChars, SecondChar, Operators
<1>2. ASSUME NEW c \in DOMAIN SecondChar, NEW d \in DOMAIN SecondChar[c]
      PROVE  d \in DOMAIN SecondChar /\ SecondChar[c][d] \in Operators
  BY ZenonT(30) DEF SecondChar, Operators
<1>3. \A op \in DOMAIN ThirdChar : ThirdChar[op] \in Operators
  BY DEF ThirdChar, Operators
<1>4. "=" \in DOMAIN SecondChar
  BY DEF SecondChar
<1>5. SingleChars \cap DOMAIN SecondChar = {} /\ "." \notin SingleChars \cup DOMAIN SecondChar
  BY DEF SingleChars, SecondChar
<1>6. QED
  BY <1>1, <1>2, <1>3, <1>4, <1>5

(* What lex() makes of one, two or three characters is spelled with them. *)
LEMMA CharactersTaken ==
  /\ \A c \in SingleChars \cup DOMAIN SecondChar \cup {"."} : Characters(c) = <<c>>
  /\ \A c \in DOMAIN SecondChar : \A d \in DOMAIN SecondChar[c] :
       /\ Characters(SecondChar[c][d]) = <<c, d>>
       /\ SecondChar[c][d] \in DOMAIN ThirdChar =>
            Characters(ThirdChar[SecondChar[c][d]]) = <<c, d, "=">>
  /\ Characters("...") = <<".", ".", ".">>
<1>1. \A c \in SingleChars : Characters(c) = <<c>>
  BY DEF SingleChars, Characters
<1>2. \A c \in DOMAIN SecondChar : Characters(c) = <<c>>
  BY DEF SecondChar, Characters
<1>3. Characters(".") = <<".">> /\ Characters("...") = <<".", ".", ".">>
  BY DEF Characters
<1>4. ASSUME NEW c \in DOMAIN SecondChar, NEW d \in DOMAIN SecondChar[c]
      PROVE  Characters(SecondChar[c][d]) = <<c, d>>
  <2>1. CASE c = "-"
    <3>1. \/ d = ">" /\ SecondChar[c][d] = "->"
          \/ d = "=" /\ SecondChar[c][d] = "-="
          \/ d = "-" /\ SecondChar[c][d] = "--"
      BY <2>1 DEF SecondChar
    <3>2. QED
      BY <2>1, <3>1 DEF Characters
  <2>2. CASE c = "+"
    <3>1. \/ d = "=" /\ SecondChar[c][d] = "+="
          \/ d = "+" /\ SecondChar[c][d] = "++"
      BY <2>2 DEF SecondChar
    <3>2. QED
      BY <2>2, <3>1 DEF Characters
  <2>3. CASE c = "<"
    <3>1. \/ d = "=" /\ SecondChar[c][d] = "<="
          \/ d = "<" /\ SecondChar[c][d] = "<<"
      BY <2>3 DEF SecondChar
    <3>2. QED
      BY <2>3, <3>1 DEF Characters
  <2>4. CASE c = ">"
    <3>1. \/ d = "=" /\ SecondChar[c][d] = ">="
          \/ d = ">" /\ SecondChar[c][d] = ">>"
      BY <2>4 DEF SecondChar
    <3>2. QED
      BY <2>4, <3>1 DEF Characters
  <2>5. CASE c = "&"
    <3>1. \/ d = "=" /\ SecondChar[c][d] = "&="
          \/ d = "&" /\ SecondChar[c][d] = "&&"
      BY <2>5 DEF SecondChar
    <3>2. QED
      BY <2>5, <3>1 DEF Characters
  <2>6. CASE c = "|"
    <3>1. \/ d = "=" /\ SecondChar[c][d] = "|="
          \/ d = "|" /\ SecondChar[c][d] = "||"
      BY <2>6 DEF SecondChar
    <3>2. QED
      BY <2>6, <3>1 DEF Characters
  <2>7. CASE c \in {"*", "/", "%", "^", "=", "!"}
    <3>1. CASE c = "*"
      <4>1. d = "=" /\ SecondChar[c][d] = "*="
        BY <3>1 DEF SecondChar
      <4>2. QED
        BY <3>1, <4>1 DEF Characters
    <3>2. CASE c = "/"
      <4>1. d = "=" /\ SecondChar[c][d] = "/="
        BY <3>2 DEF SecondChar
      <4>2. QED
        BY <3>2, <4>1 DEF Characters
    <3>3. CASE c = "%"
      <4>1. d = "=" /\ SecondChar[c][d] = "%="
        BY <3>3 DEF SecondChar
      <4>2. QED
        BY <3>3, <4>1 DEF Characters
    <3>4. CASE c = "^"
      <4>1. d = "=" /\ SecondChar[c][d] = "^="
        BY <3>4 DEF SecondChar
      <4>2. QED
        BY <3>4, <4>1 DEF Characters
    <3>5. CASE c = "="
      <4>1. d = "=" /\ SecondChar[c][d] = "=="
        BY <3>5 DEF SecondChar
      <4>2. QED
        BY <3>5, <4>1 DEF Characters
    <3>6. CASE c = "!"
      <4>1. d = "=" /\ SecondChar[c][d] = "!="
        BY <3>6 DEF SecondChar
      <4>2. QED
        BY <3>6, <4>1 DEF Characters
    <3>7. QED
      BY <2>7, <3>1, <3>2, <3>3, <3>4, <3>5, <3>6
  <2>8. QED
    BY <2>1, <2>2, <2>3, <2>4, <2>5, <2>6, <2>7 DEF SecondChar
<1>5. ASSUME NEW c \in DOMAIN SecondChar, NEW d \in DOMAIN SecondChar[c],
             SecondChar[c][d] \in DOMAIN ThirdChar
      PROVE  Characters(ThirdChar[SecondChar[c][d]]) = <<c, d, "=">>
  <2>1. /\ c \in {"<", ">"} /\ d = c
        /\ SecondChar[c][d] = IF c = "<" THEN "<<" ELSE ">>"
    BY <1>5 DEF SecondChar, ThirdChar
  <2>2. ThirdChar["<<"] = "<<=" /\ ThirdChar[">>"] = ">>="
    BY DEF ThirdChar
  <2>3. Characters("<<=") = <<"<", "<", "=">> /\ Characters(">>=") = <<">", ">", "=">>
    BY DEF Characters
  <2>4. QED
    BY <2>1, <2>2, <2>3
<1>6. QED
  BY <1>1, <1>2, <1>3, <1>4, <1>5

(* And those are all the operators there are. *)
LEMMA OperatorShapes ==
  ASSUME NEW op \in Operators
  PROVE  \/ op \in SingleChars \cup DOMAIN SecondChar \cup {"."}
         \/ \E c \in DOMAIN SecondChar : \E d \in DOMAIN SecondChar[c] :
              \/ op = SecondChar[c][d]
              \/ SecondChar[c][d] \in DOMAIN ThirdChar /\ op = ThirdChar[SecondChar[c][d]]
         \/ op = "..."
<1> DEFINE Shaped(c, d) ==
             /\ c \in DOMAIN SecondChar /\ d \in DOMAIN SecondChar[c]
             /\ \/ op = SecondChar[c][d]
                \/ SecondChar[c][d] \in DOMAIN ThirdChar /\ op = ThirdChar[SecondChar[c][d]]
<1>1. CASE op \in {"(", ")", "{", "}", "[", "]", ";", ",", "?", ":", "~", "...", ".",
                   "+", "-", "*", "/", "%", "=", "<", ">", "!", "&", "|", "^"}
  BY <1>1 DEF SingleChars, SecondChar
<1>2. ASSUME op = "->" PROVE Shaped("-", ">")
  BY <1>2 DEF SecondChar
<1>3. ASSUME op = "-=" PROVE Shaped("-", "=")
  BY <1>3 DEF SecondChar
<1>4. ASSUME op = "--" PROVE Shaped("-", "-")
  BY <1>4 DEF SecondChar
<1>5. ASSUME op = "+=" PROVE Shaped("+", "=")
  BY <1>5 DEF SecondChar
<1>6. ASSUME op = "++" PROVE Shaped("+", "+")
  BY <1>6 DEF SecondChar
<1>7. ASSUME op = "<=" PROVE Shaped("<", "=")
  BY <1>7 DEF SecondChar
<1>8. ASSUME op \in {"<<", "<<="} PROVE Shaped("<", "<")
  <2>1. SecondChar["<"]["<"] = "<<" /\ "<" \in DOMAIN SecondChar /\ "<" \in DOMAIN SecondChar["<"]
    BY DEF SecondChar
  <2>2. "<<" \in DOMAIN ThirdChar /\ ThirdChar["<<"] = "<<="
    BY DEF ThirdChar
  <2>3. QED
    BY <1>8, <2>1, <2>2
<1>9. ASSUME op = ">=" PROVE Shaped(">", "=")
  BY <1>9 DEF SecondChar
<1>10. ASSUME op \in {">>", ">>="} PROVE Shaped(">", ">")
  <2>1. SecondChar[">"][">"] = ">>" /\ ">" \in DOMAIN SecondChar /\ ">" \in DOMAIN SecondChar[">"]
    BY DEF SecondChar
  <2>2. ">>" \in DOMAIN ThirdChar /\ ThirdChar[">>"] = ">>="
    BY DEF ThirdChar
  <2>3. QED
    BY <1>10, <2>1, <2>2
<1>11. ASSUME op = "&=" PROVE Shaped("&", "=")
  BY <1>11 DEF SecondChar
<1>12. ASSUME op = "&&" PROVE Shaped("&", "&")
  BY <1>12 DEF SecondChar
<1>13. ASSUME op = "|=" PROVE Shaped("|", "=")
  BY <1>13 DEF SecondChar
<1>14. ASSUME op = "||" PROVE Shaped("|", "|")
  BY <1>14 DEF SecondChar
<1>15. ASSUME op \in {"*=", "/=", "%=", "^=", "==", "!="}
       PROVE  \E c : Shaped(c, "=")
  <2>1. ASSUME op = "*=" PROVE Shaped("*", "=")
    BY <2>1 DEF SecondChar
  <2>2. ASSUME op = "/=" PROVE Shaped("/", "=")
    BY <2>2 DEF SecondChar
  <2>3. ASSUME op = "%=" PROVE Shaped("%", "=")
    BY <2>3 DEF SecondChar
  <2>4. ASSUME op = "^=" PROVE Shaped("^", "=")
    BY <2>4 DEF SecondChar
  <2>5. ASSUME op = "==" PROVE Shaped("=", "=")
    BY <2>5 DEF SecondChar
  <2>6. ASSUME op = "!=" PROVE Shaped("!", "=")
    BY <2>6 DEF SecondChar
  <2> HIDE DEF Shaped
  <2>7. QED
    BY <1>15, <2>1, <2>2, <2>3, <2>4, <2>5, <2>6
<1>16. \/ op \in {"(", ")", "{", "}", "[", "]", ";", ",", "?", ":", "~", "...", ".",
                  "+", "-", "*", "/", "%", "=", "<", ">", "!", "&", "|", "^"}
       \/ \E c, d : Shaped(c, d)
  <2> HIDE DEF Shaped
  <2>1. QED
    BY <1>2, <1>3, <1>4, <1>5, <1>6, <1>7, <1>8, <1>9, <1>10, <1>11, <1>12, <1>13,
       <1>14, <1>15 DEF Operators
<1>17. QED
  BY <1>1, <1>16

(* What it is for the text to have an operator at an offset. *)
LEMMA StartsWithOne ==
  ASSUME NEW i \in Nat, NEW op, NEW c, Characters(op) = <<c>>
  PROVE  Len(Characters(op)) = 1 /\ (StartsWith(i, op) <=> CharAt(i) = c)
<1>1. Len(<<c>>) = 1 /\ <<c>>[1] = c /\ 1 .. 1 = {1} /\ i + 1 - 1 = i
  OBVIOUS
<1>2. QED
  BY <1>1 DEF StartsWith

(* An operator of two characters, and one of three, as the text has it. *)
LEMMA StartsWithTwo ==
  ASSUME NEW i \in Nat, NEW op, NEW c, NEW d, Characters(op) = <<c, d>>
  PROVE  /\ Len(Characters(op)) = 2
         /\ StartsWith(i, op) <=> CharAt(i) = c /\ CharAt(i + 1) = d
<1>1. /\ Len(<<c, d>>) = 2 /\ <<c, d>>[1] = c /\ <<c, d>>[2] = d
      /\ 1 .. 2 = {1, 2} /\ i + 1 - 1 = i /\ i + 2 - 1 = i + 1
  OBVIOUS
<1>2. QED
  BY <1>1 DEF StartsWith

(* An operator of three characters. *)
LEMMA StartsWithThree ==
  ASSUME NEW i \in Nat, NEW op, NEW c, NEW d, NEW e, Characters(op) = <<c, d, e>>
  PROVE  /\ Len(Characters(op)) = 3
         /\ StartsWith(i, op) <=> /\ CharAt(i) = c /\ CharAt(i + 1) = d
                                  /\ CharAt(i + 2) = e
<1>1. /\ Len(<<c, d, e>>) = 3
      /\ <<c, d, e>>[1] = c /\ <<c, d, e>>[2] = d /\ <<c, d, e>>[3] = e
      /\ 1 .. 3 = {1, 2, 3} /\ i + 1 - 1 = i /\ i + 2 - 1 = i + 1 /\ i + 3 - 1 = i + 2
  OBVIOUS
<1>2. QED
  BY <1>1 DEF StartsWith

(* How long an operator can be that starts with the character at i. *)
LEMMA OperatorLengths ==
  ASSUME NEW i \in Nat, NEW op \in Operators, StartsWith(i, op)
  PROVE  \/ Len(Characters(op)) = 1
         \/ /\ Len(Characters(op)) \in {2, 3}
            /\ CharAt(i) \in DOMAIN SecondChar
            /\ CharAt(i + 1) \in DOMAIN SecondChar[CharAt(i)]
            /\ Len(Characters(op)) = 3 =>
                 /\ SecondChar[CharAt(i)][CharAt(i + 1)] \in DOMAIN ThirdChar
                 /\ CharAt(i + 2) = "="
         \/ /\ Len(Characters(op)) = 3
            /\ CharAt(i) = "." /\ CharAt(i + 1) = "." /\ CharAt(i + 2) = "."
<1>1. CASE op \in SingleChars \cup DOMAIN SecondChar \cup {"."}
  BY <1>1, CharactersTaken, StartsWithOne
<1>2. ASSUME NEW c \in DOMAIN SecondChar, NEW d \in DOMAIN SecondChar[c],
             op = SecondChar[c][d]
      PROVE  /\ Len(Characters(op)) = 2 /\ CharAt(i) = c /\ CharAt(i + 1) = d
  BY <1>2, CharactersTaken, StartsWithTwo
<1>3. ASSUME NEW c \in DOMAIN SecondChar, NEW d \in DOMAIN SecondChar[c],
             SecondChar[c][d] \in DOMAIN ThirdChar, op = ThirdChar[SecondChar[c][d]]
      PROVE  /\ Len(Characters(op)) = 3 /\ CharAt(i) = c /\ CharAt(i + 1) = d
             /\ CharAt(i + 2) = "="
  BY <1>3, CharactersTaken, StartsWithThree
<1>4. CASE op = "..."
  BY <1>4, CharactersTaken, StartsWithThree
<1>5. QED
  BY <1>1, <1>2, <1>3, <1>4, OperatorShapes

(* An operator is whole when the text has none that is longer. *)
LEMMA OperatorPiece ==
  ASSUME g_lex_index \in Nat, NEW op, NEW n \in Nat,
         StartsWith(g_lex_index, op), Len(Characters(op)) = n,
         \A o \in Operators : StartsWith(g_lex_index, o) => Len(Characters(o)) \in 1 .. n
  PROVE  OperatorWhole(Piece(op, n))
<1>1. \A o \in Operators :
        StartsWith(g_lex_index, o) => g_lex_index + Len(Characters(o)) <= g_lex_index + n
  OBVIOUS
<1>2. QED
  BY <1>1 DEF OperatorWhole, Piece

(* Operators and bad characters: one to three characters, none the NUL or a  *)
(* newline, are a token when no longer operator starts with them.            *)
LEMMA PlainTaken ==
  ASSUME LexTypes, g_lex_index \in Nat, NEW type \in Operators \cup {"INVALID"}, NEW n \in 1 .. 3,
         \A k \in g_lex_index .. g_lex_index + n - 1 : CharAt(k) \notin {NUL, Newline},
         OperatorWhole(Piece(type, n)),
         type = "INVALID" <=> Here \notin Recognized,
         type = "INVALID" => n = 1
  PROVE  Taken(type, n)
<1>1. g_lex_index \in Nat /\ Len(text) \in Nat
  BY DEF LexTypes
<1>2. g_lex_index + n <= Len(text)
  <2>1. g_lex_index + n - 1 \in g_lex_index .. g_lex_index + n - 1
    BY <1>1
  <2>2. g_lex_index + n - 1 \in Nat /\ CharAt(g_lex_index + n - 1) # NUL
    BY <1>1, <2>1
  <2>3. g_lex_index + n - 1 < Len(text)
    BY <1>1, <2>2, NulIsTheEnd
  <2>4. QED
    BY <1>1, <2>3
<1>3. /\ type \in TokenNames \ {"EOF"} /\ type # "integer literal"
      /\ type \notin WordTypes
  BY ZenonT(30) DEF TokenNames, Operators, WordTypes, Keywords
<1>4. WordWhole(Piece(type, n))
  BY <1>3 DEF WordWhole, Piece
<1>5. n \in Nat \ {0}
  OBVIOUS
<1>6. QED
  BY <1>2, <1>3, <1>4, <1>5 DEF Taken

(* '(', ';' and the like. *)
LEMMA SingleTaken ==
  ASSUME LexTypes, LexSingle
  PROVE  EmitsToken
<1>1. Emit(Here, 1) /\ Here \in SingleChars /\ Here = CharAt(g_lex_index)
  BY DEF LexSingle, Here
<1>2. Here \in Operators /\ Here # NUL /\ Here # Newline
  BY <1>1, OperatorFacts, LexerAssumption DEF SingleChars, NUL
<1>3. g_lex_index \in Nat
  BY <1>2, HereFits
<1>4. \A k \in g_lex_index .. g_lex_index + 1 - 1 : k = g_lex_index
  BY <1>3
<1>5. Characters(Here) = <<Here>>
  BY <1>1, CharactersTaken
<1>6. \A op \in Operators : StartsWith(g_lex_index, op) => Len(Characters(op)) = 1
  BY <1>1, <1>3, OperatorFacts, OperatorLengths
<1>7. StartsWith(g_lex_index, Here) /\ Len(Characters(Here)) = 1
  BY <1>1, <1>3, <1>5, StartsWithOne
<1>8. OperatorWhole(Piece(Here, 1))
  <2>1. \A op \in Operators : StartsWith(g_lex_index, op) => Len(Characters(op)) \in 1 .. 1
    BY <1>6
  <2>2. QED
    BY <1>3, <1>7, <2>1, OperatorPiece
<1>9. Here \in Recognized /\ Here # "INVALID"
  BY <1>1 DEF Recognized, SingleChars
<1>10. Taken(Here, 1)
  <2>1. \A k \in g_lex_index .. g_lex_index + 1 - 1 : CharAt(k) \notin {NUL, Newline}
    BY <1>1, <1>2, <1>4
  <2>2. QED
    BY <1>2, <1>3, <1>8, <1>9, <2>1, PlainTaken
<1>11. QED
  BY <1>1, <1>10 DEF EmitsToken

(* A character no branch of lex() knows. *)
LEMMA InvalidTaken ==
  ASSUME LexTypes, LexInvalid
  PROVE  EmitsToken /\ Emit("INVALID", 1) /\ Here \notin Recognized /\ Taken("INVALID", 1)
<1>1. Emit("INVALID", 1) /\ Here \notin {NUL, Newline} /\ Here = CharAt(g_lex_index)
  BY DEF LexInvalid, Here, Recognized
<1>2. g_lex_index \in Nat
  BY <1>1, HereFits
<1>3. \A k \in g_lex_index .. g_lex_index + 1 - 1 : k = g_lex_index
  BY <1>2
<1>4. OperatorWhole(Piece("INVALID", 1))
  BY ZenonT(30) DEF OperatorWhole, Operators, Piece
<1>5. Here \notin Recognized
  BY DEF LexInvalid
<1>6. Taken("INVALID", 1)
  <2>1. \A k \in g_lex_index .. g_lex_index + 1 - 1 : CharAt(k) \notin {NUL, Newline}
    BY <1>1, <1>3
  <2>2. QED
    BY <1>2, <1>4, <1>5, <2>1, PlainTaken
<1>7. QED
  BY <1>1, <1>5, <1>6 DEF EmitsToken

(* '.' and '...'. *)
LEMMA DotTaken ==
  ASSUME LexTypes, LexDot
  PROVE  EmitsToken
<1> DEFINE i == g_lex_index
<1>1. CharAt(i) = "." /\ "." \notin {NUL, Newline}
  BY LexerAssumption DEF LexDot, Here, NUL
<1>2. i \in Nat
  BY <1>1, HereFits DEF Here
<1>3. "." \in Operators /\ "..." \in Operators /\ "." \notin DOMAIN SecondChar
  BY OperatorFacts
<1>4. Characters(".") = <<".">> /\ Characters("...") = <<".", ".", ".">>
  BY CharactersTaken
<1>5. \A op \in Operators : StartsWith(i, op) =>
         \/ Len(Characters(op)) = 1
         \/ Len(Characters(op)) = 3 /\ CharAt(i + 1) = "." /\ CharAt(i + 2) = "."
  BY <1>1, <1>2, <1>3, OperatorLengths
<1>6. Here \in Recognized
  BY <1>1 DEF Here, Recognized
<1>7. CASE CharAt(i + 1) = "." /\ CharAt(i + 2) = "."
  <2>1. Emit("...", 3)
    BY <1>7 DEF LexDot
  <2>2. \A k \in i .. i + 3 - 1 : k \in {i, i + 1, i + 2}
    BY <1>2
  <2>3. \A k \in i .. i + 3 - 1 : CharAt(k) \notin {NUL, Newline}
    BY <1>1, <1>7, <2>2
  <2>4. StartsWith(i, "...") /\ Len(Characters("...")) = 3
    BY <1>1, <1>2, <1>4, <1>7, StartsWithThree
  <2>5. OperatorWhole(Piece("...", 3))
    <3>1. \A op \in Operators : StartsWith(i, op) => Len(Characters(op)) \in 1 .. 3
      BY <1>5
    <3>2. QED
      BY <1>2, <2>4, <3>1, OperatorPiece
  <2>6. Taken("...", 3)
    BY <1>2, <1>3, <1>6, <2>3, <2>5, PlainTaken
  <2>7. QED
    BY <2>1, <2>6 DEF EmitsToken
<1>8. CASE ~ (CharAt(i + 1) = "." /\ CharAt(i + 2) = ".")
  <2>1. Emit(".", 1)
    BY <1>8 DEF LexDot
  <2>2. \A k \in i .. i + 1 - 1 : k = i
    BY <1>2
  <2>3. StartsWith(i, ".") /\ Len(Characters(".")) = 1
    BY <1>1, <1>2, <1>4, StartsWithOne
  <2>4. OperatorWhole(Piece(".", 1))
    <3>1. \A op \in Operators : StartsWith(i, op) => Len(Characters(op)) \in 1 .. 1
      BY <1>5, <1>8
    <3>2. QED
      BY <1>2, <2>3, <3>1, OperatorPiece
  <2>5. Taken(".", 1)
    <3>1. \A k \in i .. i + 1 - 1 : CharAt(k) \notin {NUL, Newline}
      BY <1>1, <2>2
    <3>2. QED
      BY <1>2, <1>3, <1>6, <2>4, <3>1, PlainTaken
  <2>6. QED
    BY <2>1, <2>5 DEF EmitsToken
<1>9. QED
  BY <1>7, <1>8

(* The operators of one to three characters. *)
LEMMA OperatorTaken ==
  ASSUME LexTypes, LexOperator
  PROVE  EmitsToken
<1> DEFINE i == g_lex_index
           first == CharAt(i)
           second == CharAt(i + 1)
           third == CharAt(i + 2)
           two == SecondChar[first][second]
<1>1. \A c \in DOMAIN SecondChar : c \notin {NUL, Newline} /\ c \in Operators
  BY OperatorFacts, LexerAssumption DEF SecondChar, NUL
<1>2. first \in DOMAIN SecondChar /\ "." \notin DOMAIN SecondChar
  BY OperatorFacts DEF LexOperator, Here
<1>3. i \in Nat
  BY <1>1, <1>2, HereFits DEF Here
<1>4. \A op \in Operators : StartsWith(i, op) =>
         \/ Len(Characters(op)) = 1
         \/ /\ Len(Characters(op)) \in {2, 3}
            /\ second \in DOMAIN SecondChar[first]
            /\ Len(Characters(op)) = 3 => two \in DOMAIN ThirdChar /\ third = "="
  BY <1>2, <1>3, OperatorLengths
<1>5. Here \in Recognized
  BY <1>2 DEF Here, Recognized
<1>6. \A op \in Operators : op # "INVALID"
  BY DEF Operators
<1>7. CASE second \notin DOMAIN SecondChar[first]
  <2>1. Emit(first, 1)
    BY <1>7 DEF LexOperator, Here
  <2>2. \A k \in i .. i + 1 - 1 : k = i
    BY <1>3
  <2>3. Characters(first) = <<first>>
    BY <1>2, CharactersTaken
  <2>4. StartsWith(i, first) /\ Len(Characters(first)) = 1
    BY <1>3, <2>3, StartsWithOne
  <2>5. OperatorWhole(Piece(first, 1))
    <3>1. \A op \in Operators : StartsWith(i, op) => Len(Characters(op)) \in 1 .. 1
      BY <1>4, <1>7
    <3>2. QED
      BY <1>3, <2>4, <3>1, OperatorPiece
  <2>6. Taken(first, 1)
    <3>1. \A k \in i .. i + 1 - 1 : CharAt(k) \notin {NUL, Newline}
      BY <1>1, <1>2, <2>2
    <3>2. first \in Operators /\ first # "INVALID"
      BY <1>1, <1>2, <1>6
    <3>3. QED
      BY <1>3, <1>5, <2>5, <3>1, <3>2, PlainTaken
  <2>7. QED
    BY <2>1, <2>6 DEF EmitsToken
<1>8. CASE /\ second \in DOMAIN SecondChar[first]
           /\ two \in DOMAIN ThirdChar /\ third = "="
  <2>1. Emit(ThirdChar[two], 3)
    BY <1>8 DEF LexOperator, Here
  <2>2. \A k \in i .. i + 3 - 1 : k \in {i, i + 1, i + 2}
    BY <1>3
  <2>3. \A k \in i .. i + 3 - 1 : CharAt(k) \notin {NUL, Newline}
    BY <1>1, <1>2, <1>8, <2>2, OperatorFacts
  <2>4. ThirdChar[two] \in Operators
    BY <1>8, OperatorFacts
  <2>5. Characters(ThirdChar[two]) = <<first, second, third>>
    BY <1>2, <1>8, CharactersTaken
  <2>6. StartsWith(i, ThirdChar[two]) /\ Len(Characters(ThirdChar[two])) = 3
    BY <1>3, <2>5, StartsWithThree
  <2>7. OperatorWhole(Piece(ThirdChar[two], 3))
    <3>1. \A op \in Operators : StartsWith(i, op) => Len(Characters(op)) \in 1 .. 3
      BY <1>4
    <3>2. QED
      BY <1>3, <2>6, <3>1, OperatorPiece
  <2>8. Taken(ThirdChar[two], 3)
    BY <1>3, <1>5, <1>6, <2>3, <2>4, <2>7, PlainTaken
  <2>9. QED
    BY <2>1, <2>8 DEF EmitsToken
<1>9. CASE /\ second \in DOMAIN SecondChar[first]
           /\ ~ (two \in DOMAIN ThirdChar /\ third = "=")
  <2>1. Emit(two, 2)
    BY <1>9 DEF LexOperator, Here
  <2>2. \A k \in i .. i + 2 - 1 : k \in {i, i + 1}
    BY <1>3
  <2>3. \A k \in i .. i + 2 - 1 : CharAt(k) \notin {NUL, Newline}
    BY <1>1, <1>2, <1>9, <2>2, OperatorFacts
  <2>4. two \in Operators
    BY <1>2, <1>9, OperatorFacts
  <2>5. Characters(two) = <<first, second>>
    BY <1>2, <1>9, CharactersTaken
  <2>6. StartsWith(i, two) /\ Len(Characters(two)) = 2
    BY <1>3, <2>5, StartsWithTwo
  <2>7. OperatorWhole(Piece(two, 2))
    <3>1. \A op \in Operators : StartsWith(i, op) => Len(Characters(op)) \in 1 .. 2
      BY <1>4, <1>9
    <3>2. QED
      BY <1>3, <2>6, <3>1, OperatorPiece
  <2>8. Taken(two, 2)
    BY <1>3, <1>5, <1>6, <2>3, <2>4, <2>7, PlainTaken
  <2>9. QED
    BY <2>1, <2>8 DEF EmitsToken
<1>10. QED
  BY <1>7, <1>8, <1>9

(* All the branches that return a token, but for EOF. *)
LexToken ==
  LexIdentifier \/ LexIntlit \/ LexSingle \/ LexDot \/ LexOperator \/ LexInvalid

(* What is taken as a token of its kind is a token of the text. *)
LEMMA TokenTaken ==
  ASSUME LexTypes, LexToken
  PROVE  EmitsToken
BY IdentifierTaken, IntlitTaken, SingleTaken, DotTaken, OperatorTaken, InvalidTaken
   DEF LexToken

-----------------------------------------------------------------------------
(* Before the first character. *)
LEMMA LexInvInit == Init => LexInv
<1> SUFFICES ASSUME Init PROVE LexInv
  OBVIOUS
<1>1. LexTypes /\ Len(tokens) = 0 /\ tokens = <<>> /\ g_lex_index = 0
  <2>1. text \in Seq(STRING \ {NUL}) /\ Len(text) \in Nat
    BY LexerAssumption DEF Init
  <2>2. QED
    BY <2>1 DEF Init, LexTypes
<1>2. TokensTile
  BY <1>1 DEF TokensTile
<1>3. PositionsTrue
  <2>1. {j \in 0 .. 0 - 1 : CharAt(j) = Newline} = {}
    OBVIOUS
  <2>2. Location(0) = [row |-> 0, col |-> 0]
    BY <2>1, FS_EmptySet DEF Location
  <2>3. QED
    BY <1>1, <2>2 DEF PositionsTrue, Init
<1>4. LongestWord /\ LongestOperator
  <2>1. DOMAIN tokens = {}
    BY <1>1
  <2>2. QED
    BY <2>1, WordsAreWhole, OperatorsAreWhole
<1>5. QED
  BY <1>1, <1>2, <1>3, <1>4 DEF LexInv

(* Every iteration of lex() keeps the invariant. *)
LEMMA LexInvNext ==
  ASSUME LexInv, [Next]_vars
  PROVE  LexInv'
<1>1. CASE SkipNewline \/ SkipBlank
  BY <1>1, SkipKeeps
<1>2. CASE LexToken
  <2>1. PICK type, n : Taken(type, n) /\ Emit(type, n)
    BY <1>2, TokenTaken DEF LexInv, EmitsToken
  <2>2. QED
    BY <2>1, EmitKeeps
<1>3. CASE LexEof
  BY <1>3, EofKeeps
<1>4. CASE UNCHANGED vars
  <2>1. UNCHANGED <<text, g_lex_index, g_lex_row, g_lex_col, tokens>>
    BY <1>4 DEF vars
  <2>2. /\ \A i : CharAt(i)' = CharAt(i)
        /\ \A i : Location(i)' = Location(i)
        /\ \A i, j : Spelled(i, j)' = Spelled(i, j)
        /\ \A i, op : StartsWith(i, op)' = StartsWith(i, op)
    BY <2>1 DEF CharAt, Location, Spelled, StartsWith
  <2>3. LexTypes' /\ TokensTile' /\ PositionsTrue'
    BY <2>1, <2>2 DEF LexInv, LexTypes, TokensTile, PositionsTrue
  <2>4. LongestWord' /\ LongestOperator'
    BY <2>1, <2>2 DEF LexInv, LongestWord, LongestOperator
  <2>5. QED
    BY <2>3, <2>4 DEF LexInv
<1>5. QED
  BY <1>1, <1>2, <1>3, <1>4 DEF Next, LexToken

(* The invariant of lex(): the types of its state, and the three properties. *)
THEOREM LexInvariant == Spec => []LexInv
<1>1. Init => LexInv
  BY LexInvInit
<1>2. LexInv /\ [Next]_vars => LexInv'
  BY LexInvNext
<1>3. QED
  BY <1>1, <1>2, PTL DEF Spec

(* For every text, between two tokens the lexer drops white space and        *)
(* nothing else, reads nothing twice, and the EOF token is the end.          *)
THEOREM LexerTiles == Spec => []TokensTile
<1>1. LexInv => TokensTile
  BY DEF LexInv
<1>2. QED
  BY <1>1, LexInvariant, PTL

(* For every text, the row and the column lex() keeps by increments are      *)
(* those counted from the newlines of the text, and so are the start and the *)
(* end of every token, which the diagnostics point at.                       *)
THEOREM LexerPositions == Spec => []PositionsTrue
<1>1. LexInv => PositionsTrue
  BY DEF LexInv
<1>2. QED
  BY <1>1, LexInvariant, PTL

(* For every text, a word is never cut short, nor mistaken for a keyword or  *)
(* for none, and a number ends where its digits do.                          *)
THEOREM LexerWords == Spec => []LongestWord
<1>1. LexInv => LongestWord
  BY DEF LexInv
<1>2. QED
  BY <1>1, LexInvariant, PTL

(* For every text, an operator token is the longest operator that the text   *)
(* has at its place: a failed lookahead in the middle of one, or at the end  *)
(* of the text, neither loses a character nor takes one too many.            *)
THEOREM LexerOperators == Spec => []LongestOperator
<1>1. LexInv => LongestOperator
  BY DEF LexInv
<1>2. QED
  BY <1>1, LexInvariant, PTL

(* The iteration reads at least one character, all of them in the text.      *)
Advances == g_lex_index' \in g_lex_index + 1 .. Len(text)

(* lex() makes progress: an iteration that does not return EOF moves the     *)
(* offset on, by the whole token it returns, and never past the end. So the  *)
(* characters that are left are a variant of the loop, and a text of n       *)
(* characters is at its end after n iterations at most.                      *)
THEOREM LexerAdvances == Spec => [][Advances \/ LexEof]_vars
<1>1. LexInv /\ [Next]_vars => [Advances \/ LexEof]_vars
  <2> SUFFICES ASSUME LexInv, Next, ~LexEof PROVE Advances
    OBVIOUS
  <2>1. CASE SkipNewline \/ SkipBlank
    <3>1. Here # NUL /\ g_lex_index' = g_lex_index + 1
      BY <2>1, LexerAssumption DEF SkipNewline, SkipBlank
    <3>2. QED
      BY <3>1, HereFits DEF Advances, LexInv
  <2>2. CASE LexToken
    <3>1. PICK type, n : Taken(type, n) /\ Emit(type, n)
      BY <2>2, TokenTaken DEF LexInv, EmitsToken
    <3>2. /\ g_lex_index \in Nat /\ Len(text) \in Nat
          /\ n \in Nat \ {0} /\ g_lex_index + n <= Len(text) /\ g_lex_index' = g_lex_index + n
      BY <3>1 DEF LexInv, LexTypes, Taken, Emit
    <3>3. QED
      BY <3>2 DEF Advances
  <2>3. QED
    BY <2>1, <2>2 DEF Next, LexToken
<1>2. QED
  BY <1>1, LexInvariant, PTL DEF Spec
=============================================================================
