--------------------------- MODULE DiagnosticsProofs ---------------------------
(***************************************************************************)
(* For every text: what lex() pushes are the spans of the tokens it could  *)
(* not recognize, in order, and the marker emit_errors puts under a line   *)
(* for two tokens covers them from the first character on. That needs more *)
(* of the tokens than LexInv says (SpanInv): their order over any          *)
(* distance, and that none of them holds a newline.                        *)
(***************************************************************************)
EXTENDS Diagnostics, LexerProofs

-----------------------------------------------------------------------------
(* The least of a set of natural numbers, and of two. *)
LEMMA MinIsLeast ==
  ASSUME NEW S, S \subseteq Nat, S # {}
  PROVE  Min(S) \in S /\ \A x \in S : Min(S) <= x
<1>1. \E j \in S : \A l \in S : j <= l
  BY LeastNumber
<1>2. QED
  BY <1>1 DEF Min

(* The lesser of two numbers. *)
LEMMA MinOfTwo ==
  ASSUME NEW a \in Nat, NEW b \in Nat
  PROVE  Min({a, b}) = IF a <= b THEN a ELSE b
<1>1. Min({a, b}) \in {a, b} /\ \A x \in {a, b} : Min({a, b}) <= x
  <2>1. {a, b} \subseteq Nat /\ {a, b} # {}
    OBVIOUS
  <2>2. QED
    BY <2>1, MinIsLeast
<1>2. QED
  BY <1>1

(* The newlines before an offset. *)
Before(i) == {j \in 0 .. i - 1 : CharAt(j) = Newline}

(* Of the newlines of the text, those before an offset of it. *)
LEMMA BreaksBefore ==
  ASSUME LexTypes, NEW i \in 0 .. Len(text)
  PROVE  /\ Before(i) \in SUBSET Breaks
         /\ Breaks \in SUBSET Nat /\ IsFiniteSet(Breaks) /\ IsFiniteSet(Before(i))
         /\ Cardinality(Breaks) \in Nat /\ Cardinality(Before(i)) \in Nat
         /\ Cardinality(Before(i)) <= Cardinality(Breaks)
<1>1. Len(text) \in Nat
  BY DEF LexTypes
<1>2. Breaks \in SUBSET (0 .. Len(text) - 1) /\ Before(i) \in SUBSET Breaks
  BY <1>1 DEF Breaks, Before
<1>3. IsFiniteSet(Breaks)
  <2>1. IsFiniteSet(0 .. Len(text) - 1)
    BY <1>1, FS_Interval
  <2>2. QED
    BY <1>2, <2>1, FS_Subset
<1>4. IsFiniteSet(Before(i)) /\ Cardinality(Before(i)) <= Cardinality(Breaks)
  BY <1>2, <1>3, FS_Subset
<1>5. Breaks \in SUBSET Nat
  BY <1>1, <1>2
<1>6. QED
  BY <1>2, <1>3, <1>4, <1>5, FS_CardinalityType

(* The line of an offset is there, and begins where the column counts from:  *)
(* behind the last newline before the offset.                                *)
LEMMA LineOfLocation ==
  ASSUME LexTypes, NEW i \in 0 .. Len(text)
  PROVE  /\ HasLine(Location(i).row)
         /\ Location(i).col \in Nat
         /\ LineStart(Location(i).row) \in Nat
         /\ LineStart(Location(i).row) + Location(i).col = i
         /\ \A k \in LineStart(Location(i).row) .. i - 1 : CharAt(k) # Newline
<1> DEFINE B == Before(i)
           LastOf(S) == CHOOSE j \in S : \A l \in S : l <= j
<1>1. /\ B \in SUBSET Breaks
      /\ Breaks \in SUBSET Nat /\ IsFiniteSet(Breaks) /\ IsFiniteSet(B)
      /\ Cardinality(Breaks) \in Nat /\ Cardinality(B) \in Nat
      /\ Cardinality(B) <= Cardinality(Breaks)
  BY BreaksBefore
<1>2. i \in Nat /\ Len(text) \in Nat /\ i <= Len(text)
  BY DEF LexTypes
<1>3. /\ Location(i).row = Cardinality(B)
      /\ Location(i).col = i - (IF B = {} THEN 0 ELSE 1 + LastOf(B))
  BY DEF Location, Before
<1>4. HasLine(Location(i).row)
  BY <1>1, <1>3 DEF HasLine
<1>5. CASE B = {}
  <2>1. Location(i).row = 0 /\ Location(i).col = i
    BY <1>2, <1>3, <1>5, FS_EmptySet
  <2>2. LineStart(0) = 0
    BY DEF LineStart
  <2>3. \A k \in 0 .. i - 1 : CharAt(k) # Newline
    BY <1>5 DEF Before
  <2>4. QED
    BY <1>2, <1>4, <2>1, <2>2, <2>3
<1>6. CASE B # {}
  <2> DEFINE b == LastOf(B)
  <2>1. b \in B /\ \A l \in B : l <= b
    <3>1. B \subseteq Nat /\ \A l \in B : l <= i
      BY <1>2 DEF Before
    <3> HIDE DEF B
    <3>2. \E j \in B : \A l \in B : l <= j
      BY <1>2, <1>6, <3>1, GreatestNumber
    <3>3. QED
      BY <3>2
  <2>2. Location(i).col = i - (1 + b)
    BY <1>3, <1>6
  <2> HIDE DEF b
  <2>3. b \in Nat /\ b < i /\ b \in Breaks
    BY <1>1, <1>2, <2>1 DEF Before
  <2>4. B = Below(Breaks, b) \cup {b} /\ b \notin Below(Breaks, b)
    <3>1. \A k \in B : k \in Breaks /\ k \in Nat /\ k <= b
      BY <1>1, <2>1
    <3>2. \A k \in Breaks : k \in Nat /\ (k < b => k \in B)
      BY <1>1, <1>2, <2>3 DEF Breaks, Before
    <3> HIDE DEF B
    <3>3. ASSUME NEW k \in B PROVE k \in Below(Breaks, b) \cup {b}
      <4>1. k \in Breaks /\ (k < b \/ k = b)
        BY <2>3, <3>1
      <4>2. QED
        BY <4>1 DEF Below
    <3>4. ASSUME NEW k \in Below(Breaks, b) PROVE k \in B /\ k # b
      BY <2>3, <3>2 DEF Below
    <3>5. QED
      BY <2>1, <3>3, <3>4
  <2>5. Cardinality(B) = Cardinality(Below(Breaks, b)) + 1
    <3>1. IsFiniteSet(Below(Breaks, b))
      BY <1>1, <2>3, BelowFewer
    <3> HIDE DEF B
    <3>2. QED
      BY <2>4, <3>1, FS_AddElement
  <2>6. Nth(Breaks, Cardinality(B)) = b
    BY <1>1, <2>3, <2>5, NthOfSet
  <2>7. Cardinality(B) # 0
    <3>1. Cardinality(Below(Breaks, b)) \in Nat
      BY <1>1, <2>3, BelowFewer
    <3>2. QED
      BY <2>5, <3>1
  <2>8. LineStart(Location(i).row) = 1 + b
    BY <1>3, <2>6, <2>7 DEF LineStart
  <2>9. \A k \in 1 + b .. i - 1 : CharAt(k) # Newline
    <3>1. ASSUME NEW k \in 1 + b .. i - 1, CharAt(k) = Newline PROVE FALSE
      <4>1. k \in 0 .. i - 1 /\ k > b
        BY <1>2, <2>3
      <4>2. k \in B
        BY <3>1, <4>1 DEF Before
      <4>3. QED
        BY <2>1, <2>3, <4>1, <4>2
    <3>2. QED
      BY <3>1
  <2>10. 1 + b \in Nat /\ i - (1 + b) \in Nat /\ 1 + b + (i - (1 + b)) = i
    BY <1>2, <2>3
  <2>11. QED
    BY <1>4, <2>2, <2>8, <2>9, <2>10
<1>7. QED
  BY <1>5, <1>6

(* The line of a character that is no newline ends behind it, at the next    *)
(* newline or at the end of the text.                                        *)
LEMMA LineEndAfter ==
  ASSUME LexTypes, NEW i \in 0 .. Len(text) - 1, CharAt(i) # Newline
  PROVE  /\ LineEnd(i) \in i + 1 .. Len(text)
         /\ \A k \in i .. LineEnd(i) - 1 : CharAt(k) # Newline
         /\ LineEnd(i) = Len(text) \/ CharAt(LineEnd(i)) = Newline
<1> DEFINE S == {b \in Breaks : b >= i} \cup {Len(text)}
<1>1. Len(text) \in Nat /\ i \in Nat /\ i < Len(text)
  BY DEF LexTypes
<1>2. S \subseteq Nat /\ S # {}
  BY <1>1 DEF Breaks
<1>3. LineEnd(i) \in S /\ \A x \in S : LineEnd(i) <= x
  <2> HIDE DEF S
  <2>1. Min(S) \in S /\ \A x \in S : Min(S) <= x
    BY <1>2, MinIsLeast
  <2>2. QED
    BY <2>1 DEF LineEnd, S
<1>4. LineEnd(i) \in Nat /\ i < LineEnd(i) /\ LineEnd(i) <= Len(text)
  BY <1>1, <1>3 DEF Breaks
<1>5. ASSUME NEW k \in i .. LineEnd(i) - 1, CharAt(k) = Newline PROVE FALSE
  <2>1. k \in Nat /\ k >= i /\ k < LineEnd(i) /\ k < Len(text)
    BY <1>1, <1>4
  <2>2. k \in S
    BY <1>1, <1>5, <2>1 DEF Breaks
  <2>3. QED
    BY <1>3, <1>4, <2>1, <2>2
<1>6. LineEnd(i) = Len(text) \/ CharAt(LineEnd(i)) = Newline
  BY <1>3 DEF Breaks
<1>7. QED
  BY <1>1, <1>4, <1>5, <1>6

(* It is the end of the line from any offset before it on the same line. *)
LEMMA LineEndSame ==
  ASSUME LexTypes, NEW i \in Nat, NEW j \in Nat, i <= j,
         \A k \in i .. j - 1 : CharAt(k) # Newline
  PROVE  LineEnd(i) = LineEnd(j)
<1>1. {b \in Breaks : b >= i} = {b \in Breaks : b >= j}
  <2>1. \A b \in Breaks : b \in Nat /\ CharAt(b) = Newline
    BY DEF Breaks
  <2>2. QED
    BY <2>1
<1>2. QED
  BY <1>1 DEF LineEnd

(* Two offsets are on the same row only if there is no newline in between. *)
LEMMA RowGrows ==
  ASSUME LexTypes, NEW i \in 0 .. Len(text), NEW j \in 0 .. Len(text),
         NEW k \in i .. j - 1, CharAt(k) = Newline
  PROVE  Location(i).row # Location(j).row
<1>1. i \in Nat /\ j \in Nat /\ k \in Nat
  BY DEF LexTypes
<1>2. Before(i) \in SUBSET Before(j) /\ k \in Before(j) /\ k \notin Before(i)
  BY <1>1 DEF Before
<1>3. Before(i) # Before(j)
  BY <1>2
<1>4. Cardinality(Before(i)) # Cardinality(Before(j))
  BY <1>2, <1>3, BreaksBefore, FS_Subset
<1>5. QED
  BY <1>4 DEF Location, Before

(* The marker for the part of the text from f up to a: from f on, to a or to *)
(* the end of the line.                                                      *)
LEMMA MarkerOfSpan ==
  ASSUME LexTypes, NEW f \in Nat, NEW a \in Nat, f < a, a <= Len(text),
         CharAt(f) # Newline
  PROVE  Marker([start |-> Location(f), end |-> Location(a)])
           = [first |-> f, length |-> Min({a, LineEnd(f)}) - f]
<1> DEFINE row == Location(f).row
           col == Location(f).col
           from == LineStart(row)
           e == LineEnd(f)
           error == [start |-> Location(f), end |-> Location(a)]
<1>1. Len(text) \in Nat /\ f \in 0 .. Len(text) /\ f \in 0 .. Len(text) - 1 /\ a \in 0 .. Len(text)
  BY DEF LexTypes
<1>2. /\ HasLine(row) /\ col \in Nat /\ from \in Nat /\ from + col = f
      /\ \A k \in from .. f - 1 : CharAt(k) # Newline
  BY <1>1, LineOfLocation
<1>3. /\ e \in f + 1 .. Len(text)
      /\ \A k \in f .. e - 1 : CharAt(k) # Newline
      /\ e = Len(text) \/ CharAt(e) = Newline
  BY <1>1, LineEndAfter
<1>4. error.start.row = row /\ error.start.col = col
      /\ error.end = Location(a)
  OBVIOUS
<1> DEFINE length == LineLength(row)
<1>5. length = e - from /\ length \in Nat /\ col < length
  <2>1. from <= f
    BY <1>1, <1>2
  <2>2. LineEnd(from) = e
    BY <1>2, <2>1, LineEndSame
  <2>3. length = e - from
    BY <2>2 DEF LineLength
  <2> HIDE DEF length, e, from, col
  <2>4. QED
    BY <1>1, <1>2, <1>3, <2>3
<1>6. EndColumn(error) = IF Location(a).row = row THEN Location(a).col ELSE length
  BY DEF EndColumn
<1> DEFINE to == EndColumn(error)
<1>7. /\ to \in Nat /\ col < to
      /\ Min({length, to}) = Min({a, e}) - from
      /\ Min({length, to}) \in Nat /\ col < Min({length, to})
  <2>1. CASE \A k \in f .. a - 1 : CharAt(k) # Newline
    <3>1. Location(a).row = row /\ Location(a).col = col + (a - f)
      <4>1. a - f \in Nat /\ f + (a - f) = a
        BY <1>1
      <4>2. \A k \in f .. f + (a - f) - 1 : CharAt(k) # Newline
        BY <2>1, <4>1
      <4> DEFINE n == a - f
      <4> HIDE DEF n
      <4>3. Location(f + n).row = row /\ Location(f + n).col = col + n
        BY <4>1, <4>2, LocationAlong DEF n
      <4>4. QED
        BY <4>1, <4>3 DEF n
    <3>2. to = col + (a - f)
      BY <1>6, <3>1
    <3>3. a <= e
      <4>1. CASE e = Len(text)
        BY <4>1
      <4>2. CASE CharAt(e) = Newline
        <5>1. ~(e \in f .. a - 1)
          BY <2>1, <4>2
        <5> HIDE DEF e
        <5>2. QED
          BY <1>1, <1>3, <5>1
      <4>3. QED
        BY <1>3, <4>1, <4>2
    <3> HIDE DEF e, from, col, row, to, length, error
    <3>4. to \in Nat /\ to = a - from /\ to <= length /\ col < to /\ e \in Nat
      BY <1>1, <1>2, <1>3, <1>5, <3>2, <3>3
    <3>5. Min({length, to}) = to
      BY <1>5, <3>4, MinOfTwo
    <3>6. Min({a, e}) = a
      BY <3>3, <3>4, MinOfTwo
    <3>7. QED
      BY <3>4, <3>5, <3>6
  <2>2. ASSUME NEW k \in f .. a - 1, CharAt(k) = Newline
        PROVE  /\ to \in Nat /\ col < to
               /\ Min({length, to}) = Min({a, e}) - from
               /\ Min({length, to}) \in Nat /\ col < Min({length, to})
    <3>1. Location(a).row # row
      BY <1>1, <2>2, RowGrows
    <3>2. to = length
      BY <1>6, <3>1
    <3>3. e <= a
      <4>1. ~(k \in f .. e - 1)
        BY <1>3, <2>2
      <4> HIDE DEF e
      <4>2. QED
        BY <1>1, <1>3, <4>1
    <3> HIDE DEF e, from, col, row, to, length, error
    <3>4. e \in Nat
      BY <1>1, <1>3
    <3>5. Min({length, to}) = length
      BY <1>5, <3>2, MinOfTwo
    <3>6. Min({a, e}) = e
      BY <3>3, <3>4, MinOfTwo
    <3>7. QED
      BY <1>5, <3>2, <3>5, <3>6
  <2>3. QED
    BY <2>1, <2>2
<1>8. Min({col, length}) = col
  <2> HIDE DEF col, length
  <2>1. QED
    BY <1>2, <1>5, MinOfTwo
<1> DEFINE end == Min({length, IF to <= col THEN col + 1 ELSE to})
<1>9. end = Min({a, e}) - from /\ end > col /\ end - col = Min({a, e}) - f
  <2> HIDE DEF e, from, col, row, to, length, error
  <2>1. ~(to <= col)
    BY <1>2, <1>7
  <2>2. end = Min({length, to})
    BY <2>1
  <2>3. Min({a, e}) \in Nat
    <3>1. e \in Nat
      BY <1>1, <1>3
    <3>2. QED
      BY <3>1, MinOfTwo
  <2> HIDE DEF end
  <2>4. end \in Nat /\ end > col
    BY <1>2, <1>7, <2>2
  <2>5. end = Min({a, e}) - from
    BY <1>7, <2>2
  <2>6. end - col = Min({a, e}) - f
    BY <1>2, <2>3, <2>4, <2>5
  <2>7. QED
    BY <2>4, <2>5, <2>6
<1>10. Marker(error) = [first |-> from + col, length |-> end - col]
  <2> HIDE DEF error
  <2>1. QED
    BY <1>2, <1>4, <1>8, <1>9 DEF Marker
<1>11. QED
  BY <1>2, <1>9, <1>10

-----------------------------------------------------------------------------
(* What a token of lex() is as a part of the text. *)
Spanned(t) ==
  /\ t.first <= t.after
  /\ t.type # "EOF" => t.first < t.after
  /\ \A i \in t.first .. t.after - 1 : CharAt(i) # Newline
  /\ t.type = "INVALID" <=> CharAt(t.first) \notin Recognized
  /\ t.type = "INVALID" => t.after = t.first + 1

TokensSpanned ==
  \A k \in DOMAIN tokens : Spanned(tokens[k]) /\ tokens[k].after <= g_lex_index

TokensOrdered ==
  \A i, j \in DOMAIN tokens : i < j => tokens[i].after <= tokens[j].first

InvalidTokens(ts) == {k \in DOMAIN ts : ts[k].type = "INVALID"}

SpanOf(t) == [start |-> t.start, end |-> t.end]

SpansOf(ts) == [k \in DOMAIN ts |-> SpanOf(ts[k])]

(* The diagnostics of the lexer are the spans of its INVALID tokens.         *)
ErrorsOfTokens == errors = Selected(SpansOf(tokens), InvalidTokens(tokens))

SpanInv == TokensSpanned /\ TokensOrdered /\ ErrorsOfTokens

SpanType == [start : Positions \cup {Garbage}, end : Positions \cup {Garbage}]

(* The spans of tokens, and where the INVALID ones are. *)
LEMMA SpansOfTokens ==
  ASSUME NEW ts \in Seq(TokenTypes)
  PROVE  /\ SpansOf(ts) \in Seq(SpanType) /\ Len(SpansOf(ts)) = Len(ts)
         /\ DOMAIN SpansOf(ts) = 1 .. Len(ts) /\ DOMAIN ts = 1 .. Len(ts) /\ Len(ts) \in Nat
         /\ InvalidTokens(ts) \in SUBSET DOMAIN SpansOf(ts)
<1>1. Len(ts) \in Nat /\ DOMAIN ts = 1 .. Len(ts)
  BY LenProperties
<1>2. \A k \in 1 .. Len(ts) : SpanOf(ts[k]) \in SpanType
  <2>1. ASSUME NEW k \in 1 .. Len(ts) PROVE SpanOf(ts[k]) \in SpanType
    <3>1. ts[k] \in TokenTypes
      BY <2>1, ElementOfSeq
    <3>2. QED
      BY <3>1 DEF TokenTypes, SpanOf, SpanType
  <2>2. QED
    BY <2>1
<1>3. SpansOf(ts) = [k \in 1 .. Len(ts) |-> SpanOf(ts[k])]
  BY <1>1 DEF SpansOf
<1>4. SpansOf(ts) \in Seq(SpanType) /\ Len(SpansOf(ts)) = Len(ts)
  BY <1>1, <1>2, <1>3, IsASeq
<1>5. QED
  BY <1>1, <1>3, <1>4 DEF InvalidTokens

(* One more token adds its span to the diagnostics if it is INVALID. *)
LEMMA SpansGrow ==
  ASSUME NEW ts \in Seq(TokenTypes), NEW tk \in TokenTypes
  PROVE  Selected(SpansOf(Append(ts, tk)), InvalidTokens(Append(ts, tk)))
           = IF tk.type = "INVALID"
             THEN Append(Selected(SpansOf(ts), InvalidTokens(ts)), SpanOf(tk))
             ELSE Selected(SpansOf(ts), InvalidTokens(ts))
<1> DEFINE m == Len(ts)
           us == Append(ts, tk)
           r == <<SpanOf(tk)>>
           s == SpansOf(ts)
           I == InvalidTokens(ts)
<1>1. /\ us \in Seq(TokenTypes) /\ Len(us) = m + 1 /\ m \in Nat
      /\ \A k \in 1 .. m : us[k] = ts[k]
      /\ us[m + 1] = tk
      /\ DOMAIN us = 1 .. m + 1 /\ DOMAIN ts = 1 .. m
  <2>1. us \in Seq(TokenTypes) /\ Len(us) = m + 1 /\ m \in Nat
    BY AppendProperties, LenProperties
  <2>2. (\A k \in 1 .. m : us[k] = ts[k]) /\ us[m + 1] = tk
    BY AppendProperties
  <2> HIDE DEF us
  <2>3. DOMAIN us = 1 .. m + 1 /\ DOMAIN ts = 1 .. m
    BY <2>1, LenProperties
  <2>4. QED
    BY <2>1, <2>2, <2>3
<1> HIDE DEF us
<1>2. /\ s \in Seq(SpanType) /\ Len(s) = m
      /\ DOMAIN s = 1 .. m
      /\ I \in SUBSET DOMAIN s
  BY SpansOfTokens
<1>3. SpanOf(tk) \in SpanType
  BY DEF TokenTypes, SpanOf, SpanType
<1>4. r \in Seq(SpanType) /\ Len(r) = 1 /\ DOMAIN r = {1} /\ r[1] = SpanOf(tk)
  BY <1>3
<1>5. s \o r = Append(s, SpanOf(tk))
  BY <1>2, <1>3, AppendIsConcat
<1>6. SpansOf(us) = Append(s, SpanOf(tk))
  <2>1. SpansOf(us) \in Seq(SpanType) /\ Len(SpansOf(us)) = m + 1
    BY <1>1, SpansOfTokens
  <2>2. /\ Append(s, SpanOf(tk)) \in Seq(SpanType)
        /\ Len(Append(s, SpanOf(tk))) = m + 1
        /\ \A k \in 1 .. m : Append(s, SpanOf(tk))[k] = s[k]
        /\ Append(s, SpanOf(tk))[m + 1] = SpanOf(tk)
    BY <1>2, <1>3, AppendProperties
  <2>3. /\ \A k \in 1 .. m : SpansOf(us)[k] = s[k]
        /\ SpansOf(us)[m + 1] = SpanOf(tk)
    <3>1. m + 1 \in DOMAIN us /\ \A k \in 1 .. m : k \in DOMAIN us /\ k \in DOMAIN ts
      BY <1>1
    <3>2. QED
      BY <1>1, <3>1 DEF SpansOf
  <2>4. \A k \in 1 .. m + 1 : k \in 1 .. m \/ k = m + 1
    BY <1>1
  <2> DEFINE p == SpansOf(us)
             q == Append(s, SpanOf(tk))
  <2> HIDE DEF p, q
  <2>5. p \in Seq(SpanType) /\ q \in Seq(SpanType) /\ Len(p) = m + 1 /\ Len(q) = m + 1
    BY <2>1, <2>2 DEF p, q
  <2>6. \A k \in 1 .. m + 1 : p[k] = q[k]
    BY <2>2, <2>3, <2>4 DEF p, q
  <2>7. p = q
    BY <2>5, <2>6, SeqEqual
  <2>8. QED
    BY <2>7 DEF p, q
<1> HIDE DEF s, r
<1>7. CASE tk.type = "INVALID"
  <2>1. InvalidTokens(us) = I \cup {m + 1}
    <3>1. \A k \in 1 .. m + 1 : k \in 1 .. m \/ k = m + 1
      BY <1>1
    <3>2. m + 1 \in 1 .. m + 1 /\ \A k \in 1 .. m : k \in 1 .. m + 1
      BY <1>1
    <3>3. QED
      BY <1>1, <1>7, <3>1, <3>2 DEF InvalidTokens
  <2>2. Shifted(DOMAIN r, Len(s)) = {m + 1}
    <3>1. Shifted({1}, m) = {1 + m} /\ 1 + m = m + 1
      BY <1>1 DEF Shifted
    <3>2. QED
      BY <1>2, <1>4, <3>1
  <2> HIDE DEF I, m
  <2>3. InvalidTokens(us) = I \cup Shifted(DOMAIN r, Len(s))
    BY <2>1, <2>2
  <2>4. Selected(s \o r, InvalidTokens(us)) = Selected(s, I) \o r
    BY <1>2, <1>4, <2>3, SelectedOfConcat
  <2>5. Selected(s, I) \in Seq(SpanType)
    BY <1>2, PlacesOfSeq
  <2>6. Selected(s, I) \o r = Append(Selected(s, I), SpanOf(tk))
    BY <1>3, <2>5, AppendIsConcat DEF r
  <2>7. QED
    BY <1>5, <1>6, <1>7, <2>4, <2>6 DEF s, I, us
<1>8. CASE tk.type # "INVALID"
  <2>1. InvalidTokens(us) = I
    <3>1. \A k \in 1 .. m + 1 : k \in 1 .. m \/ k = m + 1
      BY <1>1
    <3>2. \A k \in 1 .. m : k \in 1 .. m + 1
      BY <1>1
    <3>3. QED
      BY <1>1, <1>8, <3>1, <3>2 DEF InvalidTokens
  <2> HIDE DEF I
  <2>2. Selected(s \o r, I) = Selected(s, I)
    BY <1>2, <1>4, SelectedOfLonger
  <2>3. QED
    BY <1>5, <1>6, <1>8, <2>1, <2>2 DEF s, I, us
<1>9. QED
  BY <1>7, <1>8

(* A token behind all others, with its diagnostic, keeps SpanInv. *)
LEMMA TokenKeepsSpans ==
  ASSUME LexTypes, LexTypes', SpanInv, text' = text,
         NEW tk \in TokenTypes, tokens' = Append(tokens, tk), Spanned(tk),
         tk.first = g_lex_index, tk.after = g_lex_index',
         errors' = IF tk.type = "INVALID" THEN Append(errors, SpanOf(tk)) ELSE errors
  PROVE  SpanInv'
<1>1. tokens \in Seq(TokenTypes) /\ Len(tokens) \in Nat /\ g_lex_index \in Nat /\ g_lex_index' \in Nat
  BY LenProperties DEF LexTypes
<1>2. /\ DOMAIN tokens = 1 .. Len(tokens) /\ DOMAIN tokens' = 1 .. Len(tokens) + 1
      /\ \A k \in 1 .. Len(tokens) : tokens'[k] = tokens[k]
      /\ tokens'[Len(tokens) + 1] = tk
  BY <1>1, AppendProperties, LenProperties DEF LexTypes
<1>4. \A k \in 1 .. Len(tokens) + 1 : k \in 1 .. Len(tokens) \/ k = Len(tokens) + 1
  BY <1>1
<1>5. \A k \in 1 .. Len(tokens) :
        /\ Spanned(tokens[k]) /\ tokens[k].after <= g_lex_index
        /\ tokens[k].after \in Nat /\ tokens[k].first \in Nat
  <2>1. ASSUME NEW k \in 1 .. Len(tokens)
        PROVE  tokens[k].after \in Nat /\ tokens[k].first \in Nat
    <3>1. tokens[k] \in TokenTypes
      BY <1>1, ElementOfSeq
    <3>2. QED
      BY <3>1 DEF TokenTypes
  <2>2. QED
    BY <1>2, <2>1 DEF SpanInv, TokensSpanned
<1>6. g_lex_index <= g_lex_index'
  BY DEF Spanned
<1>7. TokensSpanned'
  <2>1. ASSUME NEW k \in 1 .. Len(tokens) + 1
        PROVE  Spanned(tokens'[k]) /\ tokens'[k].after <= g_lex_index'
    <3>1. CASE k \in 1 .. Len(tokens)
      <4>1. tokens[k].after <= g_lex_index'
        BY <1>1, <1>5, <1>6, <3>1
      <4>2. QED
        BY <1>2, <1>5, <3>1, <4>1
    <3>2. CASE k = Len(tokens) + 1
      BY <1>1, <1>2, <3>2
    <3>3. QED
      BY <1>4, <3>1, <3>2
  <2>2. \A i : CharAt(i)' = CharAt(i)
    BY DEF CharAt
  <2>3. ASSUME NEW k \in DOMAIN tokens'
        PROVE  (Spanned(tokens[k]) /\ tokens[k].after <= g_lex_index)'
    BY <1>2, <2>1, <2>2 DEF Spanned
  <2>4. QED
    BY <2>3 DEF TokensSpanned
<1>8. TokensOrdered'
  <2>1. ASSUME NEW i \in 1 .. Len(tokens) + 1, NEW j \in 1 .. Len(tokens) + 1, i < j
        PROVE  tokens'[i].after <= tokens'[j].first
    <3>1. i \in 1 .. Len(tokens)
      BY <1>1, <2>1
    <3>2. CASE j \in 1 .. Len(tokens)
      BY <1>2, <2>1, <3>1, <3>2 DEF SpanInv, TokensOrdered
    <3>3. CASE j = Len(tokens) + 1
      BY <1>2, <1>5, <3>1, <3>3
    <3>4. QED
      BY <1>4, <3>2, <3>3
  <2>2. QED
    BY <1>2, <2>1 DEF TokensOrdered
<1>9. ErrorsOfTokens'
  <2>1. errors = Selected(SpansOf(tokens), InvalidTokens(tokens))
    BY DEF SpanInv, ErrorsOfTokens
  <2>2. errors' = Selected(SpansOf(tokens'), InvalidTokens(tokens'))
    BY <1>1, <2>1, SpansGrow
  <2>3. QED
    BY <2>2 DEF ErrorsOfTokens, SpansOf, SpanOf, InvalidTokens, Selected, Nth, Below
<1>10. QED
  BY <1>7, <1>8, <1>9 DEF SpanInv

(* Every step of lex() keeps it. *)
LEMMA SpanInvNext ==
  ASSUME LexInv, LexInv', SpanInv, [Next]_vars
  PROVE  SpanInv'
<1>0. LexTypes /\ LexTypes' /\ g_lex_index \in Nat /\ g_lex_row \in Nat /\ g_lex_col \in Nat
  BY DEF LexInv, LexTypes
<1>1. CASE LexToken
  <2>1. PICK type, n : /\ Taken(type, n) /\ Emit(type, n)
                       /\ errors' = IF type = "INVALID"
                                    THEN Append(errors,
                                           [start |-> [row |-> g_lex_row, col |-> g_lex_col],
                                            end   |-> [row |-> g_lex_row, col |-> g_lex_col + n]])
                                    ELSE errors
    <3>1. CASE LexInvalid
      BY <1>0, <3>1, InvalidTaken DEF LexInvalid
    <3>2. CASE ~LexInvalid
      <4>1. UNCHANGED errors /\ Here \in Recognized
        BY <1>1, <3>2 DEF LexToken, LexIdentifier, LexIntlit, LexSingle, LexDot, LexOperator,
           Recognized
      <4>2. PICK type, n : Taken(type, n) /\ Emit(type, n)
        BY <1>0, <1>1, TokenTaken DEF EmitsToken
      <4>3. type # "INVALID"
        BY <4>1, <4>2 DEF Taken
      <4>4. QED
        BY <4>1, <4>2, <4>3
    <3>3. QED
      BY <3>1, <3>2
  <2> DEFINE tk == [type |-> type, first |-> g_lex_index, after |-> g_lex_index + n,
                    start |-> [row |-> g_lex_row, col |-> g_lex_col],
                    end   |-> [row |-> g_lex_row, col |-> g_lex_col + n]]
  <2>2. tokens' = Append(tokens, tk) /\ g_lex_index' = g_lex_index + n /\ text' = text
    BY <2>1 DEF Emit
  <2>3. /\ type \in TokenNames \ {"EOF"} /\ n \in Nat \ {0}
        /\ \A k \in g_lex_index .. g_lex_index + n - 1 : CharAt(k) # Newline
        /\ type = "INVALID" <=> CharAt(g_lex_index) \notin Recognized
        /\ type = "INVALID" => n = 1
    BY <2>1 DEF Taken, Here
  <2>4. tk \in TokenTypes
    BY <1>0, <2>3 DEF TokenTypes, Positions
  <2>5. Spanned(tk)
    BY <1>0, <2>3 DEF Spanned
  <2>6. errors' = IF tk.type = "INVALID" THEN Append(errors, SpanOf(tk)) ELSE errors
    BY <2>1 DEF SpanOf
  <2>7. tk.first = g_lex_index /\ tk.after = g_lex_index'
    BY <2>2
  <2> HIDE DEF tk
  <2>8. QED
    BY <1>0, <2>2, <2>4, <2>5, <2>6, <2>7, TokenKeepsSpans
<1>2. CASE LexEof
  <2> DEFINE tk == [type |-> "EOF", first |-> g_lex_index, after |-> g_lex_index,
                    start |-> Garbage, end |-> Garbage]
  <2>1. /\ tokens' = Append(tokens, tk) /\ g_lex_index' = g_lex_index /\ text' = text
        /\ errors' = errors /\ CharAt(g_lex_index) = NUL
    BY <1>2 DEF LexEof, Here
  <2>2. tk \in TokenTypes
    BY <1>0 DEF TokenTypes, TokenNames
  <2>3. Spanned(tk)
    BY <1>0, <2>1 DEF Spanned, Recognized
  <2>4. tk.first = g_lex_index /\ tk.after = g_lex_index' /\ tk.type # "INVALID"
    BY <2>1
  <2> HIDE DEF tk
  <2>5. QED
    BY <1>0, <2>1, <2>2, <2>3, <2>4, TokenKeepsSpans
<1>3. CASE SkipNewline \/ SkipBlank \/ UNCHANGED vars
  <2>1. /\ text' = text /\ tokens' = tokens /\ errors' = errors
        /\ g_lex_index' \in {g_lex_index, g_lex_index + 1}
    BY <1>3 DEF SkipNewline, SkipBlank, vars
  <2>2. \A i : CharAt(i)' = CharAt(i)
    BY <2>1 DEF CharAt
  <2>3. TokensSpanned'
    <3>1. \A k \in DOMAIN tokens : tokens[k].after \in Nat
      <4>1. ASSUME NEW k \in DOMAIN tokens PROVE tokens[k].after \in Nat
        <5>1. tokens[k] \in TokenTypes
          BY <1>0, LenProperties, ElementOfSeq DEF LexTypes
        <5>2. QED
          BY <5>1 DEF TokenTypes
      <4>2. QED
        BY <4>1
    <3>2. \A k \in DOMAIN tokens : Spanned(tokens[k]) /\ tokens[k].after <= g_lex_index'
      BY <1>0, <2>1, <3>1 DEF SpanInv, TokensSpanned
    <3>3. QED
      BY <2>1, <2>2, <3>2 DEF TokensSpanned, Spanned
  <2>4. TokensOrdered' /\ ErrorsOfTokens'
    BY <2>1 DEF SpanInv, TokensOrdered, ErrorsOfTokens, SpansOf, SpanOf, InvalidTokens,
       Selected, Nth, Below
  <2>5. QED
    BY <2>3, <2>4 DEF SpanInv
<1>4. QED
  BY <1>1, <1>2, <1>3 DEF Next, LexToken

(* Before the first token there are no spans. *)
LEMMA SpanInvInit == Init => SpanInv
<1> SUFFICES ASSUME Init PROVE SpanInv
  OBVIOUS
<1>1. tokens = <<>> /\ errors = <<>> /\ DOMAIN tokens = {}
  BY DEF Init
<1>2. InvalidTokens(tokens) = {} /\ Cardinality({}) = 0
  BY <1>1, FS_EmptySet DEF InvalidTokens
<1>3. Selected(SpansOf(tokens), InvalidTokens(tokens)) = <<>>
  BY <1>2 DEF Selected
<1>4. QED
  BY <1>1, <1>3 DEF SpanInv, TokensSpanned, TokensOrdered, ErrorsOfTokens

(* What is said of spans holds in every state. *)
LEMMA SpansInvariant == Spec => [](LexInv /\ SpanInv)
<1>1. Init => LexInv /\ SpanInv
  BY LexInvInit, SpanInvInit
<1>2. LexInv /\ SpanInv /\ [Next]_vars => (LexInv /\ SpanInv)'
  BY LexInvNext, SpanInvNext
<1>3. QED
  BY <1>1, <1>2, PTL DEF Spec

-----------------------------------------------------------------------------
(* The marker of two tokens covers them. *)
LEMMA TokensMarked ==
  ASSUME LexInv, SpanInv,
         NEW i \in DOMAIN tokens, NEW j \in DOMAIN tokens, i <= j,
         tokens[i].type # "EOF", tokens[j].type # "EOF"
  PROVE  MarksTokens(i, j) /\ tokens[i].first \in 0 .. Len(text) - 1
           /\ tokens[i].first < tokens[j].after /\ CharAt(tokens[i].first) # Newline
<1> DEFINE f == tokens[i].first
           a == tokens[j].after
<1>1. LexTypes /\ PositionsTrue /\ Len(text) \in Nat /\ g_lex_index \in Nat /\ g_lex_index <= Len(text)
  BY DEF LexInv, LexTypes
<1>2. \A k \in DOMAIN tokens : tokens[k].first \in Nat /\ tokens[k].after \in Nat /\ k \in Nat
  <2>1. ASSUME NEW k \in DOMAIN tokens
        PROVE  tokens[k].first \in Nat /\ tokens[k].after \in Nat /\ k \in Nat
    <3>1. tokens[k] \in TokenTypes /\ k \in Nat
      BY <1>1, LenProperties, ElementOfSeq DEF LexTypes
    <3>2. QED
      BY <3>1 DEF TokenTypes
  <2>2. QED
    BY <2>1
<1>3. /\ tokens[i].first < tokens[i].after /\ tokens[j].first < tokens[j].after
      /\ \A k \in tokens[i].first .. tokens[i].after - 1 : CharAt(k) # Newline
      /\ tokens[j].after <= g_lex_index
  BY DEF SpanInv, TokensSpanned, Spanned
<1>4. f < a
  <2>1. CASE i = j
    BY <1>3, <2>1
  <2>2. CASE i # j
    <3>1. i < j
      BY <1>2, <2>2
    <3>2. tokens[i].after <= tokens[j].first
      BY <3>1 DEF SpanInv, TokensOrdered
    <3>3. QED
      BY <1>2, <1>3, <3>2
  <2>3. QED
    BY <2>1, <2>2
<1>5. CharAt(f) # Newline
  <2>1. f \in tokens[i].first .. tokens[i].after - 1
    BY <1>2, <1>3
  <2>2. QED
    BY <1>3, <2>1
<1>6. f \in Nat /\ a \in Nat /\ a <= Len(text) /\ f \in 0 .. Len(text) - 1
  BY <1>1, <1>2, <1>3, <1>4
<1>7. tokens[i].start = Location(f) /\ tokens[j].end = Location(a)
  BY <1>1 DEF PositionsTrue
<1>8. MarksTokens(i, j)
  <2> HIDE DEF f, a
  <2>1. Marker([start |-> Location(f), end |-> Location(a)])
          = [first |-> f, length |-> Min({a, LineEnd(f)}) - f]
    BY <1>1, <1>4, <1>5, <1>6, MarkerOfSpan
  <2>2. QED
    BY <1>7, <2>1 DEF MarksTokens, f, a
<1>9. QED
  BY <1>4, <1>5, <1>6, <1>8

(* That of an INVALID token is the one character. *)
LEMMA InvalidMarked ==
  ASSUME LexInv, SpanInv, NEW k \in InvalidTokens(tokens)
  PROVE  Marker(SpanOf(tokens[k])) = [first |-> tokens[k].first, length |-> 1]
<1> DEFINE f == tokens[k].first
<1>1. /\ k \in DOMAIN tokens /\ tokens[k].type # "EOF" /\ k <= k
      /\ tokens[k].after = f + 1
  <2>1. k \in DOMAIN tokens /\ tokens[k].type = "INVALID"
    BY DEF InvalidTokens
  <2>2. k \in Nat
    BY <2>1, LenProperties DEF LexInv, LexTypes
  <2>3. QED
    BY <2>1, <2>2 DEF SpanInv, TokensSpanned, Spanned
<1>2. MarksTokens(k, k) /\ f \in 0 .. Len(text) - 1 /\ CharAt(f) # Newline
  BY <1>1, TokensMarked
<1>3. LexTypes /\ Len(text) \in Nat
  BY DEF LexInv, LexTypes
<1> HIDE DEF f
<1>4. LineEnd(f) \in f + 1 .. Len(text) /\ f \in Nat /\ f + 1 \in Nat
  BY <1>2, <1>3, LineEndAfter
<1>5. Min({f + 1, LineEnd(f)}) = f + 1
  <2>1. LineEnd(f) \in Nat /\ f + 1 <= LineEnd(f)
    BY <1>3, <1>4
  <2>2. QED
    BY <1>4, <2>1, MinOfTwo
<1>6. Min({f + 1, LineEnd(f)}) - f = 1
  BY <1>4, <1>5
<1>7. QED
  BY <1>1, <1>2, <1>6 DEF MarksTokens, SpanOf, f

(* Hence all the markers. *)
LEMMA MarkersFollow == LexInv /\ SpanInv => MarkersTrue
<1> SUFFICES ASSUME LexInv, SpanInv PROVE MarkersTrue
  OBVIOUS
<1> DEFINE I == InvalidTokens(tokens)
           bad == Selected(tokens, I)
<1>1. tokens \in Seq(TokenTypes)
  BY DEF LexInv, LexTypes
<1>2. /\ I \in SUBSET DOMAIN tokens /\ I \in SUBSET DOMAIN SpansOf(tokens)
      /\ SpansOf(tokens) \in Seq(SpanType)
  BY <1>1, SpansOfTokens DEF InvalidTokens
<1>3. /\ Cardinality(I) \in Nat
      /\ \A n \in 1 .. Cardinality(I) : Nth(I, n) \in I
  BY <1>1, <1>2, PlacesOfSeq
<1>4. [k \in DOMAIN errors |-> Marker(errors[k])]
        = [k \in DOMAIN bad |-> [first |-> bad[k].first, length |-> 1]]
  <2>1. errors = [n \in 1 .. Cardinality(I) |-> SpansOf(tokens)[Nth(I, n)]]
    BY DEF SpanInv, ErrorsOfTokens, Selected
  <2>2. bad = [n \in 1 .. Cardinality(I) |-> tokens[Nth(I, n)]]
    BY DEF Selected
  <2>3. ASSUME NEW n \in 1 .. Cardinality(I)
        PROVE  Marker(errors[n]) = [first |-> bad[n].first, length |-> 1]
    <3>1. Nth(I, n) \in I /\ Nth(I, n) \in DOMAIN tokens
      BY <1>2, <1>3
    <3>2. errors[n] = SpanOf(tokens[Nth(I, n)])
      BY <2>1, <3>1 DEF SpansOf
    <3>3. bad[n] = tokens[Nth(I, n)]
      BY <2>2
    <3> HIDE DEF bad
    <3>4. QED
      BY <3>1, <3>2, <3>3, InvalidMarked
  <2>4. DOMAIN errors = 1 .. Cardinality(I) /\ DOMAIN bad = 1 .. Cardinality(I)
    BY <2>1, <2>2
  <2> HIDE DEF bad, I
  <2>5. QED
    BY <2>3, <2>4
<1>5. \A k \in DOMAIN tokens :
        tokens[k].type = "INVALID" <=> CharAt(tokens[k].first) \notin Recognized
  BY DEF SpanInv, TokensSpanned, Spanned
<1>6. \A i, j \in {k \in DOMAIN tokens : tokens[k].type # "EOF"} : i <= j => MarksTokens(i, j)
  BY TokensMarked
<1>7. QED
  BY <1>4, <1>5, <1>6 DEF MarkersTrue, InvalidTokens

(* For every text, what is printed under a line for a character lex() does   *)
(* not recognize is a '^' below that character; one for a run of tokens      *)
(* covers them from the first character to the last one on that line.        *)
THEOREM DiagnosticsMark == Spec => []MarkersTrue
  BY SpansInvariant, MarkersFollow, PTL

(* A token behind an EOF token is one too.                                   *)
EofStays ==
  \A i, j \in DOMAIN tokens : i < j /\ tokens[i].type = "EOF" => tokens[j].type = "EOF"

(* For every text, what module Tokens takes lex() to do: it pushes the spans *)
(* of the INVALID tokens, each once and in their order, and nothing else;    *)
(* and when it has returned EOF it returns nothing but EOF.                  *)
THEOREM LexerHandsOver == Spec => [](ErrorsOfTokens /\ EofStays)
<1>1. LexInv /\ SpanInv => ErrorsOfTokens /\ EofStays
  <2> SUFFICES ASSUME LexInv, SpanInv PROVE EofStays
    BY DEF SpanInv
  <2>1. /\ tokens \in Seq(TokenTypes) /\ Len(tokens) \in Nat /\ Len(text) \in Nat
        /\ DOMAIN tokens = 1 .. Len(tokens) /\ g_lex_index <= Len(text) /\ g_lex_index \in Nat
    BY LenProperties DEF LexInv, LexTypes
  <2>2. ASSUME NEW k \in DOMAIN tokens
        PROVE  /\ tokens[k].first \in Nat /\ tokens[k].after \in Nat
               /\ tokens[k].type = "EOF" <=> tokens[k].first = Len(text)
    <3>1. tokens[k] \in TokenTypes
      BY <2>1, ElementOfSeq
    <3>2. k \in 1 .. Len(tokens) + 1 /\ ~(k > Len(tokens)) /\ k <= Len(tokens)
      BY <2>1
    <3>3. tokens[k].type = "EOF" <=> tokens[k].first = Len(text)
      BY <3>2 DEF LexInv, TokensTile
    <3>4. QED
      BY <3>1, <3>3 DEF TokenTypes
  <2>3. ASSUME NEW i \in DOMAIN tokens, NEW j \in DOMAIN tokens, i < j, tokens[i].type = "EOF"
        PROVE  tokens[j].type = "EOF"
    <3>1. /\ tokens[i].first <= tokens[i].after /\ tokens[i].after <= tokens[j].first
          /\ tokens[j].first <= tokens[j].after /\ tokens[j].after <= g_lex_index
      BY <2>3 DEF SpanInv, TokensSpanned, TokensOrdered, Spanned
    <3>2. tokens[i].first = Len(text)
      BY <2>2, <2>3
    <3>3. tokens[j].first = Len(text)
      BY <2>1, <2>2, <3>1, <3>2
    <3>4. QED
      BY <2>2, <3>3
  <2>4. QED
    BY <2>3 DEF EofStays
<1>2. QED
  BY <1>1, SpansInvariant, PTL
===============================================================================
