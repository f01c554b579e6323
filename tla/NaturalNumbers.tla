---------------------------- MODULE NaturalNumbers ----------------------------
(***************************************************************************)
(* Facts about natural numbers that the proofs of several modules rest on: *)
(* the least one of a set, induction, both stated with sets so that they   *)
(* need no operator for a parameter; the n-th one of a finite set, and     *)
(* what a sequence has at the places of such a set.                        *)
(***************************************************************************)
EXTENDS Selection, FiniteSetTheorems, SequenceTheorems, WellFoundedInduction, TLAPS

(* A set of natural numbers that is not empty has a least element. *)
LEMMA LeastNumber ==
  ASSUME NEW S, S \subseteq Nat, S # {}
  PROVE  \E j \in S : \A l \in S : j <= l
<1> DEFINE Less == {p \in Nat \X Nat : p[1] < p[2]}
<1>1. IsWellFoundedOn(Less, Nat)
  <2>1. Less = OpToRel(<, Nat)
    BY DEF OpToRel
  <2>2. QED
    BY <2>1, NatLessThanWellFounded
<1>2. \A m, n \in Nat : m < n => <<m, n>> \in Less
  OBVIOUS
<1> HIDE DEF Less
<1>3. PICK j \in S : \A l \in S : ~ (<<l, j>> \in Less)
  BY <1>1, WFMin
<1>4. \A l \in S : ~(l < j)
  BY <1>2, <1>3
<1>5. QED
  BY <1>4

(* One that is bounded has a greatest element. *)
LEMMA GreatestNumber ==
  ASSUME NEW S, S \subseteq Nat, S # {}, NEW b \in Nat, \A l \in S : l <= b
  PROVE  \E j \in S : \A l \in S : l <= j
<1> DEFINE Mirror == {m \in Nat : m <= b /\ b - m \in S}
<1>1. \A l \in S : b - l \in Mirror /\ l \in Nat
  <2>1. ASSUME NEW l \in S PROVE b - l \in Nat /\ b - l <= b /\ b - (b - l) = l
    OBVIOUS
  <2>2. QED
    BY <2>1
<1>2. Mirror \subseteq Nat /\ Mirror # {} /\ \A m \in Mirror : b - m \in S /\ m \in Nat
  BY <1>1
<1> HIDE DEF Mirror
<1>3. PICK m \in Mirror : \A l \in Mirror : m <= l
  BY <1>2, LeastNumber
<1>4. ASSUME NEW l \in S PROVE l <= b - m
  <2>1. m <= b - l /\ l \in Nat /\ m \in Nat
    BY <1>1, <1>2, <1>3
  <2>2. QED
    BY <2>1
<1>5. QED
  BY <1>2, <1>4

(* A set that holds 0, and with every number the next one, holds them all: a *)
(* least number that it does not hold would have a predecessor in it.        *)
LEMMA Induction ==
  ASSUME NEW S, 0 \in S, \A n \in Nat : n \in S => n + 1 \in S
  PROVE  Nat \subseteq S
<1> DEFINE Rest == {n \in Nat : n \notin S}
<1>1. CASE Rest = {}
  BY <1>1
<1>2. CASE Rest # {}
  <2>1. PICK j \in Rest : \A l \in Rest : j <= l
    BY <1>2, LeastNumber
  <2>2. j - 1 \in Nat /\ j - 1 \notin Rest
    BY <2>1
  <2>3. QED
    BY <2>1, <2>2
<1>3. QED
  BY <1>1, <1>2

-----------------------------------------------------------------------------
(* A number of S has fewer numbers below it than S has. *)
LEMMA BelowFewer ==
  ASSUME NEW S \in SUBSET Nat, IsFiniteSet(S), NEW i \in S
  PROVE  /\ IsFiniteSet(Below(S, i))
         /\ Cardinality(Below(S, i)) \in 0 .. Cardinality(S) - 1
<1>1. Below(S, i) \in SUBSET S /\ Below(S, i) # S
  BY DEF Below
<1>2. /\ IsFiniteSet(Below(S, i)) /\ Cardinality(Below(S, i)) <= Cardinality(S)
      /\ Cardinality(Below(S, i)) # Cardinality(S)
  BY <1>1, FS_Subset
<1>3. Cardinality(Below(S, i)) \in Nat /\ Cardinality(S) \in Nat
  BY <1>2, FS_CardinalityType
<1>4. QED
  BY <1>2, <1>3

(* A greater number has more below it. *)
LEMMA BelowGrows ==
  ASSUME NEW S \in SUBSET Nat, IsFiniteSet(S), NEW i \in S, NEW j \in S, i < j
  PROVE  Cardinality(Below(S, i)) < Cardinality(Below(S, j))
<1>1. Below(S, i) \in SUBSET Below(S, j) /\ Below(S, i) # Below(S, j)
  <2>1. i \in Nat /\ j \in Nat /\ \A k \in S : k \in Nat /\ (k < i => k < j)
    OBVIOUS
  <2>2. i \in Below(S, j) /\ i \notin Below(S, i)
    BY <2>1 DEF Below
  <2>3. QED
    BY <2>1, <2>2 DEF Below
<1>2. IsFiniteSet(Below(S, j))
  BY BelowFewer
<1>3. /\ Cardinality(Below(S, i)) <= Cardinality(Below(S, j))
      /\ Cardinality(Below(S, i)) # Cardinality(Below(S, j))
  BY <1>1, <1>2, FS_Subset
<1>4. Cardinality(Below(S, i)) \in Nat /\ Cardinality(Below(S, j)) \in Nat
  BY BelowFewer
<1>5. QED
  BY <1>3, <1>4

(* There is an n-th number, the only one with n - 1 below it: to count what  *)
(* is below is an injection into 0 .. Cardinality(S) - 1, hence a surjection. *)
LEMMA NthOfSet ==
  ASSUME NEW S \in SUBSET Nat, IsFiniteSet(S)
  PROVE  /\ \A n \in 1 .. Cardinality(S) :
              Nth(S, n) \in S /\ Cardinality(Below(S, Nth(S, n))) = n - 1
         /\ \A i \in S : Nth(S, Cardinality(Below(S, i)) + 1) = i
<1> DEFINE R == 0 .. Cardinality(S) - 1
           rank == [i \in S |-> Cardinality(Below(S, i))]
<1>1. Cardinality(S) \in Nat
  BY FS_CardinalityType
<1>2. IsFiniteSet(R) /\ Cardinality(R) = Cardinality(S)
  <2>1. 0 \in Int /\ Cardinality(S) - 1 \in Int
    BY <1>1
  <2>2. /\ IsFiniteSet(R)
        /\ Cardinality(R) = IF 0 > Cardinality(S) - 1 THEN 0 ELSE Cardinality(S) - 1 - 0 + 1
    BY <2>1, FS_Interval
  <2>3. QED
    BY <1>1, <2>2
<1>3. \A i, j \in S : rank[i] = rank[j] => i = j
  <2>1. SUFFICES ASSUME NEW i \in S, NEW j \in S, i # j PROVE rank[i] # rank[j]
    OBVIOUS
  <2>2. i \in Nat /\ j \in Nat /\ (i < j \/ j < i)
    BY <2>1
  <2>3. rank[i] \in Int /\ rank[j] \in Int
    BY BelowFewer
  <2>4. QED
    BY <2>2, <2>3, BelowGrows
<1>4. rank \in Injection(S, R)
  <2>1. rank \in [S -> R]
    BY BelowFewer
  <2> HIDE DEF rank, R
  <2>2. QED
    BY <1>3, <2>1 DEF Injection, IsInjective
<1>5. rank \in Surjection(S, R)
  <2> HIDE DEF rank, R
  <2>1. QED
    BY <1>2, <1>4, FS_Injection
<1>6. ASSUME NEW n \in 1 .. Cardinality(S)
      PROVE  Nth(S, n) \in S /\ Cardinality(Below(S, Nth(S, n))) = n - 1
  <2>1. n - 1 \in R
    BY <1>1
  <2>2. \E i \in S : rank[i] = n - 1
    <3> HIDE DEF rank, R
    <3>1. QED
      BY <1>5, <2>1 DEF Surjection
  <2>3. \E i \in S : Cardinality(Below(S, i)) = n - 1
    BY <2>2
  <2>4. QED
    BY <2>3 DEF Nth
<1>7. ASSUME NEW i \in S PROVE Nth(S, Cardinality(Below(S, i)) + 1) = i
  <2> DEFINE n == Cardinality(Below(S, i)) + 1
  <2>1. n \in 1 .. Cardinality(S) /\ n - 1 = rank[i]
    BY <1>1, BelowFewer
  <2>2. Nth(S, n) \in S /\ rank[Nth(S, n)] = n - 1
    BY <1>6, <2>1
  <2> HIDE DEF n, rank
  <2>3. Nth(S, n) = i
    BY <1>3, <2>1, <2>2
  <2>4. QED
    BY <2>3 DEF n
<1>8. QED
  BY <1>6, <1>7

(* Numbers above all of S come behind them. *)
LEMMA NthOfUnion ==
  ASSUME NEW S \in SUBSET Nat, IsFiniteSet(S), NEW T \in SUBSET Nat, IsFiniteSet(T),
         \A s \in S, t \in T : s < t
  PROVE  /\ S \cup T \in SUBSET Nat /\ IsFiniteSet(S \cup T)
         /\ Cardinality(S) \in Nat /\ Cardinality(T) \in Nat
         /\ Cardinality(S \cup T) = Cardinality(S) + Cardinality(T)
         /\ \A n \in 1 .. Cardinality(S) : Nth(S \cup T, n) = Nth(S, n)
         /\ \A n \in 1 .. Cardinality(T) : Nth(S \cup T, Cardinality(S) + n) = Nth(T, n)
<1> DEFINE U == S \cup T
<1>1. S \cap T = {}
  <2>1. \A s \in S : s \notin T
    <3>1. \A s \in S : s \in Nat /\ ~(s < s)
      OBVIOUS
    <3>2. QED
      BY <3>1
  <2>2. QED
    BY <2>1
<1>2. /\ U \in SUBSET Nat /\ IsFiniteSet(U)
      /\ Cardinality(S) \in Nat /\ Cardinality(T) \in Nat
      /\ Cardinality(U) = Cardinality(S) + Cardinality(T)
  <2>1. Cardinality(S) \in Nat /\ Cardinality(T) \in Nat
    BY FS_CardinalityType
  <2>2. /\ IsFiniteSet(U)
        /\ Cardinality(U) = Cardinality(S) + Cardinality(T) - Cardinality(S \cap T)
    BY FS_Union
  <2>3. Cardinality(S \cap T) = 0
    BY <1>1, FS_EmptySet
  <2> HIDE DEF U
  <2>4. Cardinality(U) = Cardinality(S) + Cardinality(T)
    BY <2>1, <2>2, <2>3
  <2>5. U \in SUBSET Nat
    BY DEF U
  <2>6. QED
    BY <2>1, <2>2, <2>4, <2>5
<1>3. ASSUME NEW n \in 1 .. Cardinality(S) PROVE Nth(U, n) = Nth(S, n)
  <2> DEFINE i == Nth(S, n)
  <2>1. i \in S /\ Cardinality(Below(S, i)) = n - 1
    BY NthOfSet
  <2> HIDE DEF i
  <2>2. Below(U, i) = Below(S, i)
    <3>1. \A t \in T : ~(t < i)
      BY <2>1
    <3>2. QED
      BY <3>1 DEF Below
  <2>3. Nth(U, Cardinality(Below(U, i)) + 1) = i
    <3>1. i \in U
      BY <2>1
    <3> HIDE DEF U
    <3>2. QED
      BY <1>2, <3>1, NthOfSet
  <2>4. Cardinality(Below(U, i)) + 1 = n
    BY <1>2, <2>1, <2>2
  <2>5. QED
    BY <2>3, <2>4 DEF i
<1>4. ASSUME NEW n \in 1 .. Cardinality(T) PROVE Nth(U, Cardinality(S) + n) = Nth(T, n)
  <2> DEFINE i == Nth(T, n)
  <2>1. i \in T /\ Cardinality(Below(T, i)) = n - 1 /\ IsFiniteSet(Below(T, i))
    BY NthOfSet, BelowFewer
  <2> HIDE DEF i
  <2>2. Below(U, i) = S \cup Below(T, i) /\ S \cap Below(T, i) = {}
    BY <1>1, <2>1 DEF Below
  <2>3. Cardinality(Below(U, i)) = Cardinality(S) + (n - 1)
    <3>1. Cardinality(S \cup Below(T, i))
            = Cardinality(S) + Cardinality(Below(T, i)) - Cardinality(S \cap Below(T, i))
      BY <2>1, FS_Union
    <3>2. Cardinality(S \cap Below(T, i)) = 0
      BY <2>2, FS_EmptySet
    <3>3. Cardinality(Below(U, i)) = Cardinality(S) + (n - 1) - 0
      BY <2>1, <2>2, <3>1, <3>2
    <3>4. QED
      BY <1>2, <3>3
  <2>4. Nth(U, Cardinality(Below(U, i)) + 1) = i
    <3>1. i \in U
      BY <2>1
    <3> HIDE DEF U
    <3>2. QED
      BY <1>2, <3>1, NthOfSet
  <2>5. Cardinality(Below(U, i)) + 1 = Cardinality(S) + n
    BY <1>2, <2>3
  <2>6. QED
    BY <2>4, <2>5 DEF i
<1>5. QED
  BY <1>2, <1>3, <1>4

(* The numbers of T, each m greater. *)
Shifted(T, m) == {k + m : k \in T}

(* They keep their order. *)
LEMMA NthShifted ==
  ASSUME NEW T \in SUBSET Nat, IsFiniteSet(T), NEW m \in Nat
  PROVE  /\ Shifted(T, m) \in SUBSET Nat /\ IsFiniteSet(Shifted(T, m))
         /\ Cardinality(Shifted(T, m)) = Cardinality(T)
         /\ \A n \in 1 .. Cardinality(T) : Nth(Shifted(T, m), n) = Nth(T, n) + m
<1> DEFINE U == Shifted(T, m)
<1>1. ASSUME NEW S \in SUBSET Nat, IsFiniteSet(S)
      PROVE  IsFiniteSet(Shifted(S, m)) /\ Cardinality(Shifted(S, m)) = Cardinality(S)
  <2> DEFINE V == Shifted(S, m)
             shift == [k \in S |-> k + m]
  <2>1. \A i, j \in S : shift[i] = shift[j] => i = j
    OBVIOUS
  <2>2. shift \in [S -> V] /\ \A v \in V : \E k \in S : shift[k] = v
    BY DEF Shifted
  <2> HIDE DEF shift, V
  <2>3. shift \in Bijection(S, V)
    BY <2>1, <2>2 DEF Bijection, Injection, Surjection, IsInjective
  <2>4. IsFiniteSet(V) /\ Cardinality(V) = Cardinality(S)
    BY <1>1, <2>3, FS_Bijection DEF ExistsBijection
  <2>5. QED
    BY <2>4 DEF V
<1>2. U \in SUBSET Nat /\ IsFiniteSet(U) /\ Cardinality(U) = Cardinality(T)
  <2>1. U \in SUBSET Nat
    BY DEF Shifted
  <2>2. QED
    BY <1>1, <2>1
<1>3. ASSUME NEW n \in 1 .. Cardinality(T) PROVE Nth(U, n) = Nth(T, n) + m
  <2> DEFINE i == Nth(T, n)
  <2>1. i \in T /\ Cardinality(Below(T, i)) = n - 1
    BY NthOfSet
  <2> HIDE DEF i
  <2>2. IsFiniteSet(Below(T, i)) /\ Below(T, i) \in SUBSET Nat
    <3>1. IsFiniteSet(Below(T, i))
      BY <2>1, BelowFewer
    <3>2. QED
      BY <3>1 DEF Below
  <2>3. Below(U, i + m) = Shifted(Below(T, i), m) /\ i + m \in U
    BY <2>1 DEF Below, Shifted
  <2> HIDE DEF U
  <2>4. Cardinality(Below(U, i + m)) = n - 1
    BY <1>1, <2>1, <2>2, <2>3
  <2>5. Nth(U, Cardinality(Below(U, i + m)) + 1) = i + m
    BY <1>2, <2>3, NthOfSet
  <2>6. n - 1 + 1 = n
    OBVIOUS
  <2>7. QED
    BY <2>4, <2>5, <2>6 DEF i
<1>4. QED
  BY <1>2, <1>3

(* The n-th number of 1 .. m is n. *)
LEMMA NthOfInterval ==
  ASSUME NEW m \in Nat
  PROVE  /\ 1 .. m \in SUBSET Nat /\ IsFiniteSet(1 .. m) /\ Cardinality(1 .. m) = m
         /\ \A n \in 1 .. m : Nth(1 .. m, n) = n
<1>1. /\ \A n \in Nat : IsFiniteSet(1 .. n)
      /\ \A n \in Nat : Cardinality(1 .. n) = n
  <2>1. ASSUME NEW n \in Nat PROVE IsFiniteSet(1 .. n) /\ Cardinality(1 .. n) = n
    <3>1. 1 \in Int /\ n \in Int
      OBVIOUS
    <3>2. /\ IsFiniteSet(1 .. n)
          /\ Cardinality(1 .. n) = IF 1 > n THEN 0 ELSE n - 1 + 1
      BY <3>1, FS_Interval
    <3>3. QED
      BY <3>2
  <2>2. QED
    BY <2>1
<1>2. 1 .. m \in SUBSET Nat
  OBVIOUS
<1>3. ASSUME NEW n \in 1 .. m PROVE Nth(1 .. m, n) = n
  <2>1. Below(1 .. m, n) = 1 .. n - 1
    BY DEF Below
  <2>2. n - 1 \in Nat /\ n - 1 + 1 = n
    OBVIOUS
  <2>3. Cardinality(Below(1 .. m, n)) = n - 1
    BY <1>1, <2>1, <2>2
  <2>4. Nth(1 .. m, Cardinality(Below(1 .. m, n)) + 1) = n
    BY <1>1, <1>2, NthOfSet
  <2>5. QED
    BY <2>2, <2>3, <2>4
<1>4. QED
  BY <1>1, <1>2, <1>3

-----------------------------------------------------------------------------
(* Places of a sequence are numbers, and finitely many. *)
LEMMA PlacesOfSeq ==
  ASSUME NEW X, NEW s \in Seq(X), NEW S \in SUBSET DOMAIN s
  PROVE  /\ S \in SUBSET Nat /\ IsFiniteSet(S) /\ Cardinality(S) \in Nat
         /\ \A n \in 1 .. Cardinality(S) : Nth(S, n) \in S
         /\ Selected(s, S) \in Seq(X)
         /\ Len(Selected(s, S)) = Cardinality(S)
<1>1. Len(s) \in Nat /\ DOMAIN s = 1 .. Len(s)
  BY LenProperties
<1>2. S \in SUBSET Nat /\ IsFiniteSet(S)
  BY <1>1, NthOfInterval, FS_Subset
<1>3. Cardinality(S) \in Nat
  BY <1>2, FS_CardinalityType
<1>4. \A n \in 1 .. Cardinality(S) : Nth(S, n) \in S
  BY <1>2, NthOfSet
<1>5. \A n \in 1 .. Cardinality(S) : s[Nth(S, n)] \in X
  BY <1>1, <1>4, ElementOfSeq
<1>6. Selected(s, S) \in Seq(X) /\ Len(Selected(s, S)) = Cardinality(S)
  BY <1>3, <1>5, IsASeq DEF Selected
<1>7. QED
  BY <1>2, <1>3, <1>4, <1>6

(* What is selected of s stays the same when s is extended ... *)
LEMMA SelectedOfLonger ==
  ASSUME NEW X, NEW s \in Seq(X), NEW r \in Seq(X), NEW S \in SUBSET DOMAIN s
  PROVE  Selected(s \o r, S) = Selected(s, S)
<1>1. \A n \in 1 .. Cardinality(S) : Nth(S, n) \in 1 .. Len(s)
  BY PlacesOfSeq, LenProperties
<1>2. \A i \in 1 .. Len(s) : (s \o r)[i] = s[i]
  <2>1. ASSUME NEW i \in 1 .. Len(s) PROVE (s \o r)[i] = s[i]
    <3>1. Len(s) \in Nat /\ Len(r) \in Nat
      BY LenProperties
    <3>2. i \in 1 .. Len(s) + Len(r) /\ i <= Len(s)
      BY <3>1
    <3>3. QED
      BY <3>1, <3>2, ConcatProperties
  <2>2. QED
    BY <2>1
<1>3. QED
  BY <1>1, <1>2 DEF Selected

(* ... and has the extension behind it when all of that is selected too. *)
LEMMA SelectedOfConcat ==
  ASSUME NEW X, NEW s \in Seq(X), NEW r \in Seq(X), NEW S \in SUBSET DOMAIN s,
         NEW U, U = S \cup Shifted(DOMAIN r, Len(s))
  PROVE  Selected(s \o r, U) = Selected(s, S) \o r
<1> DEFINE m == Len(s)
           D == DOMAIN r
           T == Shifted(D, m)
<1>1. m \in Nat /\ Len(r) \in Nat /\ DOMAIN s = 1 .. m /\ D = 1 .. Len(r)
  BY LenProperties
<1>2. /\ S \in SUBSET Nat /\ IsFiniteSet(S) /\ Cardinality(S) \in Nat
      /\ \A n \in 1 .. Cardinality(S) : Nth(S, n) \in S
      /\ Selected(s, S) \in Seq(X)
      /\ Len(Selected(s, S)) = Cardinality(S)
  BY PlacesOfSeq
<1>3. /\ D \in SUBSET Nat /\ IsFiniteSet(D) /\ Cardinality(D) = Len(r)
      /\ \A n \in 1 .. Len(r) : Nth(D, n) = n
  BY <1>1, NthOfInterval
<1> HIDE DEF D, m
<1>4. /\ T \in SUBSET Nat /\ IsFiniteSet(T)
      /\ Cardinality(T) = Cardinality(D)
      /\ \A n \in 1 .. Cardinality(D) : Nth(T, n) = Nth(D, n) + m
  BY <1>1, <1>3, NthShifted
<1>5. \A i \in S, j \in T : i < j
  BY <1>1, <1>3 DEF Shifted
<1>6. U = S \cup T
  BY DEF m, D
<1> HIDE DEF T
<1>7. /\ Cardinality(U) = Cardinality(S) + Len(r)
      /\ \A n \in 1 .. Cardinality(S) : Nth(U, n) = Nth(S, n)
      /\ \A n \in 1 .. Len(r) : Nth(U, Cardinality(S) + n) = n + m
  <2>1. /\ Cardinality(S \cup T) = Cardinality(S) + Cardinality(T)
        /\ \A n \in 1 .. Cardinality(S) : Nth(S \cup T, n) = Nth(S, n)
        /\ \A n \in 1 .. Cardinality(T) : Nth(S \cup T, Cardinality(S) + n) = Nth(T, n)
    <3>1. IsFiniteSet(S) /\ S \in SUBSET Nat
      BY <1>2
    <3>2. IsFiniteSet(T) /\ T \in SUBSET Nat
      BY <1>4
    <3>3. QED
      BY ONLY <1>5, <3>1, <3>2, NthOfUnion
  <2>2. Cardinality(T) = Len(r)
    BY <1>3, <1>4
  <2>3. QED
    BY <1>3, <1>4, <1>6, <2>1, <2>2
<1>8. /\ s \o r \in Seq(X)
      /\ \A i \in 1 .. m + Len(r) : (s \o r)[i] = IF i <= m THEN s[i] ELSE r[i - m]
  BY ConcatProperties DEF m
<1> DEFINE sel == Selected(s, S)
<1>9. /\ Selected(s, S) \o r \in Seq(X)
      /\ Len(Selected(s, S) \o r) = Cardinality(S) + Len(r)
      /\ \A n \in 1 .. Cardinality(S) + Len(r) :
            (Selected(s, S) \o r)[n] = IF n <= Cardinality(S) THEN Selected(s, S)[n]
                                       ELSE r[n - Cardinality(S)]
  <2>1. sel \in Seq(X) /\ Len(sel) = Cardinality(S)
    BY <1>2
  <2> HIDE DEF sel
  <2>2. /\ sel \o r \in Seq(X)
        /\ Len(sel \o r) = Cardinality(S) + Len(r)
        /\ \A n \in 1 .. Cardinality(S) + Len(r) :
              (sel \o r)[n] = IF n <= Cardinality(S) THEN sel[n] ELSE r[n - Cardinality(S)]
    <3>1. /\ sel \o r \in Seq(X)
          /\ Len(sel \o r) = Len(sel) + Len(r)
          /\ \A n \in 1 .. Len(sel) + Len(r) :
                (sel \o r)[n] = IF n <= Len(sel) THEN sel[n] ELSE r[n - Len(sel)]
      BY <2>1, ConcatProperties
    <3>2. QED
      BY <2>1, <3>1
  <2>3. QED
    BY <2>2 DEF sel
<1>10. ASSUME NEW n \in 1 .. Cardinality(U)
       PROVE  (s \o r)[Nth(U, n)] = (Selected(s, S) \o r)[n]
  <2>1. CASE n <= Cardinality(S)
    <3>1. n \in 1 .. Cardinality(S) /\ n \in 1 .. Cardinality(S) + Len(r)
      BY <1>1, <1>2, <1>7, <2>1
    <3>2. Nth(U, n) = Nth(S, n) /\ Nth(S, n) \in 1 .. m
      BY <1>1, <1>2, <1>7, <3>1
    <3>3. (s \o r)[Nth(U, n)] = s[Nth(S, n)]
      BY <1>1, <1>8, <3>2
    <3>4. (Selected(s, S) \o r)[n] = s[Nth(S, n)]
      BY <1>9, <2>1, <3>1 DEF Selected
    <3>5. QED
      BY <3>3, <3>4
  <2>2. CASE ~(n <= Cardinality(S))
    <3> DEFINE k == n - Cardinality(S)
    <3>1. k \in 1 .. Len(r) /\ Cardinality(S) + k = n /\ n \in 1 .. Cardinality(S) + Len(r)
      BY <1>1, <1>2, <1>7, <2>2
    <3>2. (Selected(s, S) \o r)[n] = r[k]
      BY <1>9, <2>2, <3>1
    <3> HIDE DEF k
    <3>3. Nth(U, n) = k + m
      BY <1>7, <3>1
    <3>4. k + m \in 1 .. m + Len(r) /\ ~(k + m <= m) /\ k + m - m = k
      BY <1>1, <3>1
    <3>5. (s \o r)[k + m] = r[k]
      <4> DEFINE j == k + m
      <4>1. j \in 1 .. m + Len(r) /\ ~(j <= m) /\ j - m = k
        BY <1>1, <3>1, <3>4
      <4> HIDE DEF j, k
      <4>2. (s \o r)[j] = r[k]
        BY <1>8, <4>1
      <4>3. QED
        BY <4>2 DEF j
    <3>6. QED
      BY <3>2, <3>3, <3>5
  <2>3. QED
    BY <2>1, <2>2
<1>11. QED
  <2>1. Selected(s \o r, U) = [n \in 1 .. Cardinality(U) |-> (Selected(s, S) \o r)[n]]
    BY <1>10 DEF Selected
  <2>2. DOMAIN (Selected(s, S) \o r) = 1 .. Cardinality(U)
    BY <1>7, <1>9, LenProperties
  <2> DEFINE q == Selected(s, S) \o r
  <2>3. q \in [1 .. Cardinality(U) -> X]
    <3>1. q \in [1 .. Len(q) -> X]
      BY <1>9, LenProperties
    <3>2. QED
      BY <1>7, <1>9, <3>1
  <2> HIDE DEF q
  <2>4. q = [n \in 1 .. Cardinality(U) |-> q[n]]
    BY <2>3
  <2>5. QED
    BY <2>1, <2>4 DEF q
==============================================================================
