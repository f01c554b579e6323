--------------------------- MODULE HashTableProofs ---------------------------
(***************************************************************************)
(* Proofs about HashTable for every initial capacity of at least four and  *)
(* every set of keys: the inductive invariant TablesInv, the properties    *)
(* that follow from it, and that the table implements SymbolMap.           *)
(*                                                                         *)
(* The argument has three layers. Probe and LeastOfNumbers say where a     *)
(* probe goes, and that it ends at the first slot that stops it.           *)
(* PutInserts and EraseRemoves say what an insertion and a removal do to a *)
(* table whose entries are Sound: no proof behind them looks at a probe    *)
(* again. Above, the copy made by hashtable_extend is related to the table *)
(* it copies by what is looked up in the two. One key of the copy, the     *)
(* stray, may come from elsewhere, so that the copy is fuller by one slot  *)
(* at most (CopyIsHardlyLarger).                                           *)
(***************************************************************************)
EXTENDS HashTable, NaturalNumbers, FiniteSetTheorems, TLAPS

-----------------------------------------------------------------------------
(* What a slot and a table are made of. *)
Entry == [key : Nat, value : Values \cup {NULL}, state : {FREE, USED, TOMBSTONE}]

TableOver(slots) ==
  [capacity : Nat \ {0}, count : Int, tombstones : Int, entries : [slots -> Entry]]

USE HashTableAssumption DEF FREE, USED, TOMBSTONE, Entry, TableOver

(* A slot in use has a key, any other slot has none. *)
WellFormed(t) ==
  /\ t \in TableOver(Slots(t))
  /\ \A s \in Slots(t) :
       IF State(t, s) = USED THEN t.entries[s].key \in Keys ELSE t.entries[s].key = 0

(* The probe for a key in a slot meets no free slot on its way there. *)
Reachable(t) ==
  \A s, j \in Slots(t), k \in Keys :
    Holds(t, s, k) /\ Slot(t, k, j) = s => \A l \in 0 .. j : State(t, Slot(t, k, l)) # FREE

(* No key is in two slots. *)
OneSlotEach(t) ==
  \A r, s \in Slots(t), k \in Keys : Holds(t, r, k) /\ Holds(t, s, k) => r = s

Sound(t) == WellFormed(t) /\ Reachable(t) /\ OneSlotEach(t)

NoTombstones(t) == \A s \in Slots(t) : State(t, s) # TOMBSTONE

(* Some slot holds the key. *)
Has(t, k) == \E s \in Slots(t) : Holds(t, s, k)

(* Every key of n but the stray is bound as it is in t. *)
CopiedBut(n, t, stray) ==
  \A k \in Keys \ {stray} : Has(n, k) => Has(t, k) /\ Lookup(n, k) = Lookup(t, k)

(* The counters cover the occupied slots but for one slot an extension, and  *)
(* two thirds of the slots bound what they cover. There are few extensions   *)
(* for the capacity, which each of them doubles.                             *)
TableSound ==
  /\ Sound(table)
  /\ extensions \in Nat
  /\ 4 * (extensions + 1) <= table.capacity
  /\ Cardinality(Occupied(table)) <= table.count + table.tombstones + extensions
  /\ 3 * Cardinality(Occupied(table)) < 2 * table.capacity + 3 * extensions

(* What is looked up in the copy is what the table holds, but for one key,   *)
(* the stray, and the slots already visited are all in it.                   *)
CopySound ==
  pending # NULL =>
    /\ pending \in Keys \X Values
    /\ next \in -1 .. table.capacity - 1
    /\ Sound(new)
    /\ NoTombstones(new)
    /\ new.capacity = table.capacity * 2
    /\ next = -1 => \A k \in Keys : ~Has(new, k)
    /\ \E stray \in Keys : CopiedBut(new, table, stray)
    /\ \A s \in 0 .. next - 1, k \in Keys :
         Holds(table, s, k) => Lookup(new, k) = Lookup(table, k)

(* The inductive invariant. Nothing is said of the counters of the copy,     *)
(* which FinishExtend throws away, nor of what the uninitialized pointer may *)
(* have named, but that it gave the copy one key.                            *)
TablesInv == TableSound /\ CopySound

-----------------------------------------------------------------------------
(* Least is the least number of a set that is not empty. *)
LEMMA LeastOfNumbers ==
  ASSUME NEW S, S \subseteq Nat, S # {}
  PROVE  /\ Least(S) \in S
         /\ \A j \in S : Least(S) <= j
<1>1. \E j \in S : \A l \in S : j <= l
  BY LeastNumber
<1>2. QED
  BY <1>1 DEF Least

(* Advancing by less than c wraps around at most once. *)
LEMMA ModuloSum ==
  ASSUME NEW k \in Nat, NEW c \in Nat \ {0}, NEW j \in 0 .. c - 1
  PROVE  (k + j) % c = IF (k % c) + j < c THEN (k % c) + j ELSE (k % c) + j - c
<1> DEFINE q == k \div c
           r == k % c
<1>1. q \in Nat /\ r \in 0 .. c - 1 /\ k = c * q + r
  OBVIOUS
<1> HIDE DEF q, r
<1>2. ASSUME NEW n \in Nat, NEW m \in 0 .. c - 1
      PROVE  (c * n + m) % c = m
  OBVIOUS
<1>3. CASE r + j < c
  <2>1. k + j = c * q + (r + j) /\ r + j \in 0 .. c - 1
    BY <1>1, <1>3
  <2>2. (c * q + (r + j)) % c = r + j
    BY <2>1, <1>1, <1>2
  <2>3. QED
    BY <2>1, <2>2, <1>3 DEF r
<1>4. CASE ~(r + j < c)
  <2> DEFINE n == q + 1
             m == r + j - c
  <2>1. k + j = c * n + m /\ n \in Nat /\ m \in 0 .. c - 1
    BY <1>1, <1>4
  <2>2. (c * n + m) % c = m
    <3> HIDE DEF n, m
    <3> QED
      BY <2>1, <1>2
  <2>3. QED
    BY <2>1, <2>2, <1>4 DEF r
<1>5. QED
  BY <1>3, <1>4

(* Probing from any hash visits each of c slots exactly once in c steps. *)
LEMMA Probe ==
  ASSUME NEW k \in Nat, NEW c \in Nat \ {0}
  PROVE  /\ \A j \in 0 .. c - 1 : (k + j) % c \in 0 .. c - 1
         /\ \A j, l \in 0 .. c - 1 : (k + j) % c = (k + l) % c => j = l
         /\ \A s \in 0 .. c - 1 : \E j \in 0 .. c - 1 : (k + j) % c = s
<1> DEFINE r == k % c
<1>1. r \in 0 .. c - 1
  OBVIOUS
<1>2. \A j \in 0 .. c - 1 : (k + j) % c = IF r + j < c THEN r + j ELSE r + j - c
  BY ModuloSum
<1> HIDE DEF r
<1>3. ASSUME NEW s \in 0 .. c - 1
      PROVE  \E j \in 0 .. c - 1 : (k + j) % c = s
  <2> DEFINE i == IF s >= r THEN s - r ELSE s - r + c
  <2>1. i \in 0 .. c - 1 /\ s = IF r + i < c THEN r + i ELSE r + i - c
    BY <1>1
  <2>2. (k + i) % c = s
    <3> HIDE DEF i
    <3> QED
      BY <2>1, <1>2
  <2>3. QED
    BY <2>1, <2>2
<1>4. \A j \in 0 .. c - 1 : (k + j) % c \in 0 .. c - 1
  BY <1>1, <1>2
<1>5. \A j, l \in 0 .. c - 1 : (k + j) % c = (k + l) % c => j = l
  BY <1>1, <1>2
<1>6. QED
  BY <1>3, <1>4, <1>5

(* The same of a table: Slot(t, k, _) is a bijection on its slots. *)
LEMMA ProbeOfTable ==
  ASSUME NEW t, WellFormed(t), NEW k \in Keys
  PROVE  /\ \A j \in Slots(t) : Slot(t, k, j) \in Slots(t)
         /\ \A j, l \in Slots(t) : Slot(t, k, j) = Slot(t, k, l) => j = l
         /\ \A s \in Slots(t) : \E j \in Slots(t) : Slot(t, k, j) = s
<1>1. k \in Nat /\ t.capacity \in Nat \ {0}
  BY DEF WellFormed
<1>2. QED
  BY <1>1, Probe DEF Slot, Slots

-----------------------------------------------------------------------------
(* A lookup finds the slot that holds the key, and none when no slot does:   *)
(* the probe of hashtable_get_entry never stops too early.                   *)
LEMMA LookupFinds ==
  ASSUME NEW t, Sound(t), NEW k \in Keys
  PROVE  /\ \A s \in Slots(t) :
              Holds(t, s, k) => Found(t, k) = {s} /\ Lookup(t, k) = t.entries[s].value
         /\ (\A s \in Slots(t) : ~Holds(t, s, k)) => Found(t, k) = {} /\ Lookup(t, k) = NULL
<1>1. ASSUME NEW s \in Slots(t), Holds(t, s, k)
      PROVE  Found(t, k) = {s}
  <2>1. PICK j \in Slots(t) : Slot(t, k, j) = s
    BY ProbeOfTable DEF Sound
  <2>2. \A l \in 0 .. j : State(t, Slot(t, k, l)) # FREE
    BY <1>1, <2>1 DEF Sound, Reachable
  <2>3. s \in Found(t, k)
    BY <1>1, <2>1, <2>2 DEF Found
  <2>4. \A r \in Found(t, k) : r = s
    BY <1>1 DEF Found, Sound, OneSlotEach
  <2>5. QED
    BY <2>3, <2>4
<1>2. (\A s \in Slots(t) : ~Holds(t, s, k)) => Found(t, k) = {}
  BY DEF Found
<1>3. QED
  BY <1>1, <1>2 DEF Lookup

(* A key that is looked up with success is in a slot. *)
LEMMA LookupIsInSlot ==
  ASSUME NEW t, Sound(t), NEW k \in Keys
  PROVE  /\ Lookup(t, k) \in Values \cup {NULL}
         /\ Lookup(t, k) # NULL => Has(t, k)
BY LookupFinds DEF Sound, WellFormed, Holds, Has

-----------------------------------------------------------------------------
(* The two outcomes of an insertion. *)
Overwrite(t, s, v) == [t EXCEPT !.entries[s].value = v]

Fill(t, s, k, v) ==
  [t EXCEPT !.entries[s] = [key |-> k, value |-> v, state |-> USED],
            !.count = @ + 1,
            !.tombstones = IF State(t, s) = FREE THEN @ ELSE @ - 1]

(* An insertion overwrites the slot of its key, or takes the first slot of   *)
(* the probe that is not in use, when no slot holds the key.                 *)
LEMMA PutFindsItsSlot ==
  ASSUME NEW t, Sound(t), NEW k \in Keys, NEW v \in Values \cup {NULL}, Stops(t, k) # {},
         NEW u, u = Put(t, k, v)
  PROVE  \/ \E s \in Slots(t) : Holds(t, s, k) /\ u = Overwrite(t, s, v)
         \/ \E m, s \in Slots(t) :
              /\ s = Slot(t, k, m)
              /\ \A r \in Slots(t) : ~Holds(t, r, k)
              /\ \A l \in 0 .. m - 1 : State(t, Slot(t, k, l)) # FREE
              /\ State(t, s) # USED
              /\ u = Fill(t, s, k, v)
<1> DEFINE stop == Least(Stops(t, k))
           at == Slot(t, k, stop)
           tombs == {j \in 0 .. stop - 1 : State(t, Slot(t, k, j)) = TOMBSTONE}
<1>1. /\ stop \in Slots(t) /\ Slots(t) \subseteq Nat
      /\ State(t, at) = FREE \/ Holds(t, at, k)
      /\ \A j \in Stops(t, k) : stop <= j
  <2>1. Stops(t, k) \subseteq Slots(t) /\ Slots(t) \subseteq Nat
    BY DEF Stops, Slots, Sound, WellFormed
  <2>2. stop \in Stops(t, k) /\ \A j \in Stops(t, k) : stop <= j
    BY <2>1, LeastOfNumbers
  <2>3. QED
    BY <2>1, <2>2 DEF Stops
<1>2. /\ \A j \in 0 .. stop : j \in Slots(t) /\ Slot(t, k, j) \in Slots(t)
      /\ \A j \in 0 .. stop - 1 : State(t, Slot(t, k, j)) # FREE /\ ~Holds(t, Slot(t, k, j), k)
  <2>1. \A j \in 0 .. stop : j \in Slots(t)
    BY <1>1 DEF Slots, Sound, WellFormed
  <2>2. \A j \in 0 .. stop - 1 : j \notin Stops(t, k)
    BY <1>1
  <2>3. \A j \in 0 .. stop : Slot(t, k, j) \in Slots(t)
    BY <2>1, ProbeOfTable DEF Sound
  <2>4. \A j \in 0 .. stop - 1 : State(t, Slot(t, k, j)) # FREE /\ ~Holds(t, Slot(t, k, j), k)
    <3>1. \A j \in 0 .. stop - 1 : j \in Slots(t)
      BY <1>1, <2>1
    <3>2. QED
      BY <2>2, <3>1 DEF Stops
  <2>5. QED
    BY <2>1, <2>3, <2>4
<1>3. CASE Holds(t, at, k)
  <2>1. u = Overwrite(t, at, v)
    BY <1>3 DEF Put, Overwrite
  <2>2. at \in Slots(t)
    BY <1>1, ProbeOfTable DEF Sound
  <2>3. QED
    BY <1>3, <2>1, <2>2
<1>4. CASE ~Holds(t, at, k)
  <2>1. State(t, at) = FREE
    BY <1>1, <1>4
  <2>2. ASSUME NEW r \in Slots(t), Holds(t, r, k)
        PROVE  FALSE
    <3>1. PICK j \in Slots(t) : Slot(t, k, j) = r
      BY ProbeOfTable DEF Sound
    <3>2. j \in Stops(t, k)
      BY <2>2, <3>1 DEF Stops
    <3>3. stop \in 0 .. j
      BY <1>1, <3>2
    <3>4. QED
      BY <2>1, <2>2, <3>1, <3>3 DEF Sound, Reachable
  <2> DEFINE m == IF tombs = {} THEN stop ELSE Least(tombs)
  <2>3. /\ m \in 0 .. stop
        /\ State(t, Slot(t, k, m)) # USED
        /\ State(t, Slot(t, k, m)) = FREE <=> tombs = {}
    <3>1. CASE tombs = {}
      BY <1>1, <2>1, <3>1
    <3>2. CASE tombs # {}
      <4>1. Least(tombs) \in tombs
        BY <3>2, LeastOfNumbers
      <4>2. QED
        BY <1>1, <3>2, <4>1
    <3>3. QED
      BY <3>1, <3>2
  <2>4. u = Fill(t, Slot(t, k, m), k, v)
    BY <1>4, <2>3 DEF Put, Fill
  <2>5. \A l \in 0 .. m - 1 : State(t, Slot(t, k, l)) # FREE
    BY <1>1, <1>2, <2>3
  <2>6. m \in Slots(t) /\ Slot(t, k, m) \in Slots(t)
    BY <1>2, <2>3
  <2> HIDE DEF m
  <2>7. QED
    BY <2>2, <2>3, <2>4, <2>5, <2>6
<1>5. QED
  BY <1>3, <1>4

(* Overwriting keeps the table sound and changes one binding. *)
LEMMA PutOverwrites ==
  ASSUME NEW t, Sound(t), NEW k \in Keys, NEW v \in Values \cup {NULL},
         NEW s \in Slots(t), Holds(t, s, k),
         NEW u, u = Overwrite(t, s, v)
  PROVE  /\ Sound(u)
         /\ u.capacity = t.capacity /\ u.count = t.count /\ u.tombstones = t.tombstones
         /\ \A l \in Keys : Lookup(u, l) = IF l = k THEN v ELSE Lookup(t, l)
         /\ \A l \in Keys : Has(u, l) <=> l = k \/ Has(t, l)
         /\ \A r \in Slots(t) : State(u, r) = State(t, r)
<1>1. /\ t.entries \in [Slots(t) -> Entry]
      /\ t \in TableOver(Slots(t))
  BY DEF Sound, WellFormed
<1>2. /\ u.capacity = t.capacity /\ u.count = t.count /\ u.tombstones = t.tombstones
      /\ u.entries = [t.entries EXCEPT ![s] = [t.entries[s] EXCEPT !.value = v]]
      /\ u \in TableOver(Slots(t))
  BY <1>1, SMTT(20) DEF Overwrite
<1>3. Slots(u) = Slots(t)
  BY <1>2 DEF Slots
<1>4. \A r \in Slots(t) : /\ u.entries[r].key = t.entries[r].key
                          /\ u.entries[r].state = t.entries[r].state
                          /\ u.entries[r].value = IF r = s THEN v ELSE t.entries[r].value
  BY <1>1, <1>2
<1>5. \A r \in Slots(t) : State(u, r) = State(t, r) /\ \A l \in Keys : Holds(u, r, l) <=> Holds(t, r, l)
  BY <1>4 DEF State, Holds
<1>6. WellFormed(u)
  <2>1. ASSUME NEW r \in Slots(t)
        PROVE  IF State(u, r) = USED THEN u.entries[r].key \in Keys ELSE u.entries[r].key = 0
    <3>1. State(u, r) = State(t, r)
      BY <1>5
    <3>2. IF State(t, r) = USED THEN t.entries[r].key \in Keys ELSE t.entries[r].key = 0
      BY DEF Sound, WellFormed
    <3>3. QED
      BY <1>4, <3>1, <3>2
  <2>2. QED
    BY <1>2, <1>3, <2>1 DEF WellFormed
<1>7. \A l \in Keys, j \in Slots(t) : Slot(u, l, j) = Slot(t, l, j) /\ Slot(t, l, j) \in Slots(t)
  BY <1>2, ProbeOfTable DEF Slot, Sound
<1>8. Reachable(u)
  <2>1. \A j \in Slots(t) : \A l \in 0 .. j : l \in Slots(t)
    BY <1>1 DEF Slots
  <2>2. QED
    BY <1>3, <1>5, <1>7, <2>1 DEF Sound, Reachable
<1>9. Sound(u)
  BY <1>3, <1>5, <1>6, <1>8 DEF Sound, OneSlotEach
<1>10. ASSUME NEW l \in Keys
       PROVE  Lookup(u, l) = IF l = k THEN v ELSE Lookup(t, l)
  <2>1. CASE l = k
    <3>1. s \in Slots(u) /\ Holds(u, s, l) /\ u.entries[s].value = v
      BY <1>3, <1>4, <1>5, <2>1
    <3>2. QED
      BY <1>9, <2>1, <3>1, LookupFinds
  <2>2. CASE l # k /\ \E r \in Slots(t) : Holds(t, r, l)
    <3>1. PICK r \in Slots(t) : Holds(t, r, l)
      BY <2>2
    <3>2. r # s
      BY <2>2, <3>1 DEF Holds
    <3>3. r \in Slots(u) /\ Holds(u, r, l) /\ u.entries[r].value = t.entries[r].value
      BY <1>3, <1>4, <1>5, <2>2, <3>1, <3>2
    <3>4. Lookup(u, l) = u.entries[r].value /\ Lookup(t, l) = t.entries[r].value
      BY <1>9, <3>1, <3>3, LookupFinds
    <3>5. QED
      BY <2>2, <3>3, <3>4
  <2>3. CASE l # k /\ \A r \in Slots(t) : ~Holds(t, r, l)
    <3>1. \A r \in Slots(u) : ~Holds(u, r, l)
      BY <1>3, <1>5, <2>3
    <3>2. QED
      BY <1>9, <2>3, <3>1, LookupFinds
  <2>4. QED
    BY <2>1, <2>2, <2>3
<1>11. \A l \in Keys : Has(u, l) <=> l = k \/ Has(t, l)
  BY <1>3, <1>5 DEF Has, Holds
<1>12. QED
  BY <1>2, <1>5, <1>9, <1>10, <1>11

(* So does taking a slot that the probe reaches without meeting a free one. *)
LEMMA PutFills ==
  ASSUME NEW t, Sound(t), NEW k \in Keys, NEW v \in Values \cup {NULL},
         NEW m \in Slots(t), NEW s, s = Slot(t, k, m),
         \A r \in Slots(t) : ~Holds(t, r, k),
         \A l \in 0 .. m - 1 : State(t, Slot(t, k, l)) # FREE,
         State(t, s) # USED,
         NEW u, u = Fill(t, s, k, v)
  PROVE  /\ Sound(u)
         /\ u.capacity = t.capacity
         /\ u.count + u.tombstones =
              t.count + t.tombstones + IF State(t, s) = FREE THEN 1 ELSE 0
         /\ \A l \in Keys : Lookup(u, l) = IF l = k THEN v ELSE Lookup(t, l)
         /\ \A l \in Keys : Has(u, l) <=> l = k \/ Has(t, l)
         /\ s \in Slots(t)
         /\ \A r \in Slots(t) : State(u, r) = IF r = s THEN USED ELSE State(t, r)
<1>1. /\ t \in TableOver(Slots(t))
      /\ s \in Slots(t)
      /\ k \in Nat
  BY ProbeOfTable DEF Sound, WellFormed
<1>2. /\ u.capacity = t.capacity
      /\ u.count + u.tombstones = t.count + t.tombstones + IF State(t, s) = FREE THEN 1 ELSE 0
      /\ u.entries = [t.entries EXCEPT ![s] = [key |-> k, value |-> v, state |-> USED]]
      /\ u \in TableOver(Slots(t))
  <2>1. u.capacity = t.capacity
    BY <1>1 DEF Fill
  <2>2. u.count = t.count + 1 /\ u.tombstones = IF State(t, s) = FREE THEN t.tombstones ELSE t.tombstones - 1
    BY <1>1 DEF Fill
  <2>3. u.entries = [t.entries EXCEPT ![s] = [key |-> k, value |-> v, state |-> USED]]
    BY <1>1 DEF Fill
  <2>4. u.entries \in [Slots(t) -> Entry]
    BY <1>1, <2>3
  <2>5. u.count \in Int /\ u.tombstones \in Int
    BY <1>1, <2>2
  <2>6. u = [t EXCEPT !.entries = u.entries, !.count = u.count, !.tombstones = u.tombstones]
    BY <1>1 DEF Fill
  <2>7. u \in TableOver(Slots(t))
    BY <1>1, <2>4, <2>5, <2>6
  <2>8. u.count + u.tombstones = t.count + t.tombstones + IF State(t, s) = FREE THEN 1 ELSE 0
    BY <1>1, <2>2
  <2>9. QED
    BY <2>1, <2>3, <2>7, <2>8
<1>3. Slots(u) = Slots(t)
  BY <1>2 DEF Slots
<1>4. \A r \in Slots(t) : u.entries[r] = IF r = s THEN [key |-> k, value |-> v, state |-> USED] ELSE t.entries[r]
  BY <1>1, <1>2
<1>5. \A r \in Slots(t) :
        /\ State(u, r) = IF r = s THEN USED ELSE State(t, r)
        /\ \A l \in Keys : Holds(u, r, l) <=> (r = s /\ l = k) \/ (r # s /\ Holds(t, r, l))
  BY <1>4 DEF State, Holds
<1>6. WellFormed(u)
  BY <1>2, <1>3, <1>4, <1>5 DEF Sound, WellFormed
<1>7. \A l \in Keys, j \in Slots(t) : Slot(u, l, j) = Slot(t, l, j) /\ Slot(t, l, j) \in Slots(t)
  BY <1>2, ProbeOfTable DEF Slot, Sound
<1>8. Reachable(u)
  <2> SUFFICES ASSUME NEW r \in Slots(t), NEW j \in Slots(t), NEW l \in Keys,
                      Holds(u, r, l), Slot(t, l, j) = r,
                      NEW i \in 0 .. j
               PROVE  State(u, Slot(t, l, i)) # FREE
    <3>1. \A j \in Slots(t) : \A i \in 0 .. j : i \in Slots(t)
      BY <1>1 DEF Slots
    <3>2. QED
      BY <1>3, <1>7, <3>1 DEF Reachable
  <2>1. i \in Slots(t) /\ Slot(t, l, i) \in Slots(t)
    <3>1. i \in Slots(t)
      BY <1>1 DEF Slots
    <3>2. QED
      BY <1>7, <3>1
  <2>2. CASE r = s /\ l = k
    <3>1. j = m
      BY <2>2, ProbeOfTable DEF Sound
    <3>2. i \in 0 .. m - 1 \/ i = m
      BY <3>1, <1>1 DEF Slots
    <3>3. i = m => State(u, Slot(t, l, i)) = USED
      BY <1>5, <2>1, <2>2
    <3>4. i \in 0 .. m - 1 => State(u, Slot(t, l, i)) # FREE
      BY <1>5, <2>1, <2>2
    <3>5. QED
      BY <3>2, <3>3, <3>4
  <2>3. CASE r # s /\ Holds(t, r, l)
    <3>1. State(t, Slot(t, l, i)) # FREE
      BY <2>3 DEF Sound, Reachable
    <3>2. QED
      BY <1>5, <2>1, <3>1
  <2>4. QED
    BY <1>5, <2>2, <2>3
<1>9. OneSlotEach(u)
  BY <1>3, <1>5 DEF Sound, OneSlotEach
<1>10. Sound(u)
  BY <1>6, <1>8, <1>9 DEF Sound
<1>11. ASSUME NEW l \in Keys
       PROVE  Lookup(u, l) = IF l = k THEN v ELSE Lookup(t, l)
  <2>1. CASE l = k
    <3>1. s \in Slots(u) /\ Holds(u, s, l) /\ u.entries[s].value = v
      BY <1>1, <1>3, <1>4, <1>5, <2>1
    <3>2. QED
      BY <1>10, <2>1, <3>1, LookupFinds
  <2>2. CASE l # k /\ \E r \in Slots(t) : Holds(t, r, l)
    <3>1. PICK r \in Slots(t) : Holds(t, r, l)
      BY <2>2
    <3>2. r # s
      BY <3>1 DEF Holds
    <3>3. r \in Slots(u) /\ Holds(u, r, l) /\ u.entries[r].value = t.entries[r].value
      BY <1>3, <1>4, <1>5, <3>1, <3>2, SMTT(20)
    <3>4. Lookup(u, l) = u.entries[r].value /\ Lookup(t, l) = t.entries[r].value
      BY <1>10, <3>1, <3>3, LookupFinds
    <3>5. QED
      BY <2>2, <3>3, <3>4
  <2>3. CASE l # k /\ \A r \in Slots(t) : ~Holds(t, r, l)
    <3>1. \A r \in Slots(u) : ~Holds(u, r, l)
      BY <1>3, <1>5, <2>3
    <3>2. QED
      BY <1>10, <2>3, <3>1, LookupFinds
  <2>4. QED
    BY <2>1, <2>2, <2>3
<1>12. \A l \in Keys : Has(u, l) <=> l = k \/ Has(t, l)
  <2>1. \A r \in Slots(t) : \A l \in Keys : Holds(t, r, l) => r # s
    BY DEF Holds
  <2>2. QED
    BY <1>1, <1>3, <1>5, <2>1 DEF Has
<1>13. QED
  BY <1>1, <1>2, <1>5, <1>10, <1>11, <1>12

(* An insertion binds its key and leaves every other binding alone. It takes *)
(* at most one slot more, and counts it.                                     *)
LEMMA PutInserts ==
  ASSUME NEW t, Sound(t), NEW k \in Keys, NEW v \in Values \cup {NULL}, Stops(t, k) # {},
         NEW u, u = Put(t, k, v)
  PROVE  /\ Sound(u)
         /\ u.capacity = t.capacity
         /\ \A l \in Keys : Lookup(u, l) = IF l = k THEN v ELSE Lookup(t, l)
         /\ \A l \in Keys : Has(u, l) <=> l = k \/ Has(t, l)
         /\ NoTombstones(t) => NoTombstones(u)
         /\ \/ /\ Occupied(u) = Occupied(t)
               /\ u.count + u.tombstones = t.count + t.tombstones
            \/ \E s \in Slots(t) :
                 /\ Occupied(u) = Occupied(t) \cup {s}
                 /\ u.count + u.tombstones = t.count + t.tombstones + 1
<1>1. CASE \E s \in Slots(t) : Holds(t, s, k) /\ u = Overwrite(t, s, v)
  <2>1. PICK s \in Slots(t) : Holds(t, s, k) /\ u = Overwrite(t, s, v)
    BY <1>1
  <2>2. /\ Sound(u)
        /\ u.capacity = t.capacity /\ u.count = t.count /\ u.tombstones = t.tombstones
        /\ \A l \in Keys : Lookup(u, l) = IF l = k THEN v ELSE Lookup(t, l)
        /\ \A l \in Keys : Has(u, l) <=> l = k \/ Has(t, l)
        /\ \A r \in Slots(t) : State(u, r) = State(t, r)
    BY <2>1, PutOverwrites
  <2>3. Slots(u) = Slots(t)
    BY <2>2 DEF Slots
  <2>4. QED
    BY <2>2, <2>3 DEF Occupied, NoTombstones
<1>2. CASE \E m, s \in Slots(t) :
              /\ s = Slot(t, k, m)
              /\ \A r \in Slots(t) : ~Holds(t, r, k)
              /\ \A l \in 0 .. m - 1 : State(t, Slot(t, k, l)) # FREE
              /\ State(t, s) # USED
              /\ u = Fill(t, s, k, v)
  <2>1. PICK m \in Slots(t), s \in Slots(t) :
              /\ s = Slot(t, k, m)
              /\ \A r \in Slots(t) : ~Holds(t, r, k)
              /\ \A l \in 0 .. m - 1 : State(t, Slot(t, k, l)) # FREE
              /\ State(t, s) # USED
              /\ u = Fill(t, s, k, v)
    BY <1>2
  <2>2. /\ Sound(u)
        /\ u.capacity = t.capacity
        /\ u.count + u.tombstones = t.count + t.tombstones + IF State(t, s) = FREE THEN 1 ELSE 0
        /\ \A l \in Keys : Lookup(u, l) = IF l = k THEN v ELSE Lookup(t, l)
        /\ \A l \in Keys : Has(u, l) <=> l = k \/ Has(t, l)
        /\ s \in Slots(t)
        /\ \A r \in Slots(t) : State(u, r) = IF r = s THEN USED ELSE State(t, r)
    BY <2>1, PutFills
  <2>3. Slots(u) = Slots(t)
    BY <2>2 DEF Slots
  <2>4. NoTombstones(t) => NoTombstones(u)
    BY <2>2, <2>3 DEF NoTombstones
  <2>5. Occupied(u) = Occupied(t) \cup {s}
    BY <2>2, <2>3 DEF Occupied
  <2>6. t.count + t.tombstones \in Int
    BY DEF Sound, WellFormed
  <2>7. CASE State(t, s) = FREE
    BY <2>2, <2>4, <2>5, <2>6, <2>7
  <2>8. CASE State(t, s) # FREE
    <3>1. Occupied(u) = Occupied(t)
      BY <2>2, <2>5, <2>8 DEF Occupied
    <3>2. QED
      BY <2>2, <2>4, <2>6, <2>8, <3>1
  <2>9. QED
    BY <2>7, <2>8
<1>3. QED
  BY <1>1, <1>2, PutFindsItsSlot

-----------------------------------------------------------------------------
(* The slots of a table can be counted. *)
LEMMA OccupiedFinite ==
  ASSUME NEW t, WellFormed(t)
  PROVE  /\ IsFiniteSet(Slots(t)) /\ Cardinality(Slots(t)) = t.capacity
         /\ IsFiniteSet(Occupied(t)) /\ Cardinality(Occupied(t)) \in Nat
<1>1. t.capacity \in Nat \ {0}
  BY DEF WellFormed
<1>2. IsFiniteSet(Slots(t)) /\ Cardinality(Slots(t)) = t.capacity
  <2> DEFINE last == t.capacity - 1
  <2>1. last \in Nat /\ last - 0 + 1 = t.capacity /\ ~(0 > last)
    BY <1>1
  <2> HIDE DEF last
  <2>2. IsFiniteSet(0 .. last) /\ Cardinality(0 .. last) = last - 0 + 1
    BY <2>1, FS_Interval
  <2>3. QED
    BY <2>1, <2>2 DEF Slots, last
<1>3. Occupied(t) \in SUBSET Slots(t)
  BY DEF Occupied
<1>4. QED
  BY <1>2, <1>3, FS_Subset, FS_CardinalityType

(* A probe ends in a table that is not full. *)
LEMMA RoomEndsProbe ==
  ASSUME NEW t, WellFormed(t), Cardinality(Occupied(t)) < t.capacity, NEW k \in Keys
  PROVE  Stops(t, k) # {}
<1>1. PICK s \in Slots(t) : State(t, s) = FREE
  <2>1. Occupied(t) # Slots(t)
    BY OccupiedFinite DEF WellFormed
  <2>2. QED
    BY <2>1 DEF Occupied
<1>2. PICK j \in Slots(t) : Slot(t, k, j) = s
  BY ProbeOfTable
<1>3. j \in Stops(t, k)
  BY <1>1, <1>2 DEF Stops
<1>4. QED
  BY <1>3

(* How an insertion changes the number of occupied slots, and that the       *)
(* counters keep covering all but d of them.                                 *)
LEMMA OccupiedAfterPut ==
  ASSUME NEW t, Sound(t), NEW k \in Keys, NEW v \in Values \cup {NULL}, Stops(t, k) # {},
         NEW u, u = Put(t, k, v), NEW d \in Nat
  PROVE  /\ Cardinality(Occupied(u)) \in Nat
         /\ Cardinality(Occupied(u)) <= Cardinality(Occupied(t)) + 1
         /\ Cardinality(Occupied(t)) <= t.count + t.tombstones + d
              => Cardinality(Occupied(u)) <= u.count + u.tombstones + d
<1>1. /\ IsFiniteSet(Occupied(t)) /\ Cardinality(Occupied(t)) \in Nat
      /\ t.count + t.tombstones \in Int
  BY OccupiedFinite DEF Sound, WellFormed
<1>2. CASE /\ Occupied(u) = Occupied(t)
           /\ u.count + u.tombstones = t.count + t.tombstones
  BY <1>1, <1>2
<1>3. CASE \E s \in Slots(t) :
             /\ Occupied(u) = Occupied(t) \cup {s}
             /\ u.count + u.tombstones = t.count + t.tombstones + 1
  <2>1. PICK s \in Slots(t) :
             /\ Occupied(u) = Occupied(t) \cup {s}
             /\ u.count + u.tombstones = t.count + t.tombstones + 1
    BY <1>3
  <2>2. Cardinality(Occupied(u)) = IF s \in Occupied(t) THEN Cardinality(Occupied(t)) ELSE Cardinality(Occupied(t)) + 1
    BY <1>1, <2>1, FS_AddElement
  <2>3. QED
    BY <1>1, <2>1, <2>2
<1>4. QED
  BY <1>2, <1>3, PutInserts

(* A table without tombstones whose keys, but for the stray, are keys of     *)
(* another one has at most one slot more in use: send each slot but the      *)
(* stray's to the slot with the same key.                                    *)
LEMMA CopyIsHardlyLarger ==
  ASSUME NEW t, Sound(t), NEW n, Sound(n), NoTombstones(n),
         NEW stray \in Keys, CopiedBut(n, t, stray)
  PROVE  Cardinality(Occupied(n)) <= Cardinality(Occupied(t)) + 1
<1> DEFINE key(s) == n.entries[s].key
           copied == {s \in Occupied(n) : key(s) # stray}
           f == [s \in copied |-> CHOOSE r \in Slots(t) : Holds(t, r, key(s))]
<1>1. ASSUME NEW s \in Occupied(n)
      PROVE  s \in Slots(n) /\ key(s) \in Keys /\ Holds(n, s, key(s))
  <2>1. s \in Slots(n) /\ State(n, s) = USED
    BY DEF Occupied, NoTombstones, Sound, WellFormed, State
  <2>2. QED
    BY <2>1 DEF Sound, WellFormed, Holds
<1>2. ASSUME NEW s \in copied
      PROVE  f[s] \in Occupied(t) /\ Holds(t, f[s], key(s))
  <2>1. key(s) \in Keys \ {stray} /\ Has(n, key(s))
    BY <1>1 DEF Has
  <2>2. \E r \in Slots(t) : Holds(t, r, key(s))
    BY <2>1 DEF CopiedBut, Has
  <2>3. f[s] \in Slots(t) /\ Holds(t, f[s], key(s))
    BY <2>2
  <2>4. QED
    BY <2>3 DEF Occupied, Holds
<1>3. \A r, s \in Occupied(n) : key(r) = key(s) => r = s
  BY <1>1 DEF Sound, OneSlotEach
<1>4. f \in Injection(copied, Occupied(t))
  <2>1. f \in [copied -> Occupied(t)]
    BY <1>2
  <2>2. ASSUME NEW r \in copied, NEW s \in copied, f[r] = f[s]
        PROVE  r = s
    <3>1. Holds(t, f[r], key(r)) /\ Holds(t, f[r], key(s))
      BY <1>2, <2>2
    <3>2. key(r) = key(s)
      BY <3>1 DEF Holds
    <3>3. QED
      BY <1>3, <3>2
  <2> HIDE DEF f
  <2>3. QED
    BY <2>1, <2>2 DEF Injection, IsInjective
<1>5. /\ IsFiniteSet(copied) /\ Cardinality(copied) \in Nat
      /\ Cardinality(copied) <= Cardinality(Occupied(t))
  <2>1. IsFiniteSet(Occupied(t)) /\ IsFiniteSet(Occupied(n))
    BY OccupiedFinite DEF Sound
  <2>2. IsFiniteSet(copied) /\ Cardinality(copied) \in Nat
    BY <2>1, FS_Subset, FS_CardinalityType
  <2>3. QED
    BY <1>4, <2>1, <2>2, FS_Injection
<1>6. Cardinality(Occupied(t)) \in Nat
  BY OccupiedFinite DEF Sound
<1>7. CASE \E s \in Occupied(n) : key(s) = stray
  <2>1. PICK s \in Occupied(n) : key(s) = stray
    BY <1>7
  <2>2. Occupied(n) = copied \cup {s} /\ s \notin copied
    BY <1>3, <2>1
  <2> HIDE DEF copied
  <2>3. Cardinality(Occupied(n)) = Cardinality(copied) + 1
    BY <1>5, <2>2, FS_AddElement
  <2>4. QED
    BY <1>5, <1>6, <2>3
<1>8. CASE \A s \in Occupied(n) : key(s) # stray
  <2>1. copied = Occupied(n)
    BY <1>8
  <2> HIDE DEF copied
  <2>2. QED
    BY <1>5, <1>6, <2>1
<1>9. QED
  BY <1>7, <1>8

(* A new table is sound and has no binding. *)
LEMMA NoBinding ==
  ASSUME NEW c \in Nat \ {0}
  PROVE  /\ Sound(Empty(c))
         /\ Empty(c).capacity = c
         /\ NoTombstones(Empty(c))
         /\ Cardinality(Occupied(Empty(c))) = 0
         /\ \A k \in Keys : Lookup(Empty(c), k) = NULL /\ ~Has(Empty(c), k)
<1> DEFINE t == Empty(c)
<1>1. /\ t.capacity = c /\ t.count = 0 /\ t.tombstones = 0
      /\ t.entries = [s \in 0 .. c - 1 |-> [key |-> 0, value |-> NULL, state |-> FREE]]
      /\ t \in TableOver(0 .. c - 1)
  BY DEF Empty
<1> HIDE DEF t
<1>2. Slots(t) = 0 .. c - 1
  BY <1>1 DEF Slots
<1>3. \A s \in Slots(t) : State(t, s) = FREE /\ t.entries[s].key = 0
  BY <1>1, <1>2 DEF State
<1>4. \A s \in Slots(t), k \in Keys : ~Holds(t, s, k)
  BY <1>3 DEF Holds
<1>5. Sound(t)
  BY <1>1, <1>2, <1>3, <1>4 DEF Sound, WellFormed, Reachable, OneSlotEach
<1>6. Occupied(t) = {}
  BY <1>3 DEF Occupied
<1>7. \A k \in Keys : Lookup(t, k) = NULL /\ ~Has(t, k)
  BY <1>4, <1>5, LookupFinds DEF Has
<1>8. QED
  BY <1>1, <1>3, <1>5, <1>6, <1>7, FS_EmptySet DEF NoTombstones, t

-----------------------------------------------------------------------------
(* The invariant holds in the beginning, *)
LEMMA InitSound == Init => TablesInv
<1> SUFFICES ASSUME Init PROVE TablesInv
  OBVIOUS
<1>1. /\ table = Empty(InitialCapacity) /\ pending = NULL /\ extensions = 0
      /\ InitialCapacity \in Nat \ {0} /\ InitialCapacity >= 4
  BY DEF Init
<1>2. /\ Sound(table) /\ table.capacity = InitialCapacity /\ Cardinality(Occupied(table)) = 0
  BY <1>1, NoBinding
<1>3. table.count = 0 /\ table.tombstones = 0
  BY <1>1 DEF Empty
<1>4. QED
  BY <1>1, <1>2, <1>3 DEF TablesInv, TableSound, CopySound

(* (in every state the numbers in it are integers,) *)
LEMMA Numbers ==
  ASSUME TablesInv
  PROVE  /\ table.capacity \in Nat /\ table.capacity >= 4 /\ extensions \in Nat
         /\ table.count \in Int /\ table.tombstones \in Int
         /\ Cardinality(Occupied(table)) \in Nat
         /\ 3 * Cardinality(Occupied(table)) + 3 <= 3 * table.capacity
<1>1. /\ table.capacity \in Nat /\ table.count \in Int /\ table.tombstones \in Int
      /\ Cardinality(Occupied(table)) \in Nat
  BY OccupiedFinite DEF TablesInv, TableSound, Sound, WellFormed
<1>2. /\ extensions \in Nat /\ 4 * (extensions + 1) <= table.capacity
      /\ 3 * Cardinality(Occupied(table)) < 2 * table.capacity + 3 * extensions
  BY DEF TablesInv, TableSound
<1>3. QED
  BY <1>1, <1>2

(* an insertion that has room keeps it, *)
LEMMA InsertKeepsInv ==
  ASSUME TablesInv, NEW k \in Keys, NEW v \in Values, HashtableInsert(k, v)
  PROVE  TablesInv'
<1>1. /\ table' = Put(table, k, v) /\ Stops(table, k) # {} /\ ~NeedsRoom(table)
      /\ pending = NULL /\ pending' = NULL /\ extensions' = extensions
  BY DEF HashtableInsert, Idle
<1>2. /\ Sound(table) /\ extensions \in Nat
      /\ 4 * (extensions + 1) <= table.capacity
      /\ Cardinality(Occupied(table)) <= table.count + table.tombstones + extensions
  BY DEF TablesInv, TableSound
<1>3. Sound(table') /\ table'.capacity = table.capacity
  BY <1>1, <1>2, PutInserts
<1>4. /\ Cardinality(Occupied(table')) \in Nat
      /\ Cardinality(Occupied(table')) <= Cardinality(Occupied(table)) + 1
      /\ Cardinality(Occupied(table')) <= table'.count + table'.tombstones + extensions
  BY <1>1, <1>2, OccupiedAfterPut
<1>5. 3 * (table.count + table.tombstones + 1) < 2 * table.capacity
  BY <1>1, Numbers DEF NeedsRoom
<1>6. 3 * Cardinality(Occupied(table')) < 2 * table'.capacity + 3 * extensions
  BY <1>2, <1>3, <1>4, <1>5, Numbers
<1>7. QED
  BY <1>1, <1>2, <1>3, <1>4, <1>6 DEF TablesInv, TableSound, CopySound, Occupied, Slots, State

(* so does the start of an extension, *)
LEMMA BeginExtendKeepsInv ==
  ASSUME TablesInv, NEW k \in Keys, NEW v \in Values, BeginExtend(k, v)
  PROVE  TablesInv'
<1>1. /\ table' = table /\ pending' = <<k, v>> /\ next' = -1 /\ extensions' = extensions
      /\ new' = Empty(table.capacity * 2)
  BY DEF BeginExtend
<1>2. TableSound'
  BY <1>1 DEF TablesInv, TableSound
<1>3. table.capacity * 2 \in Nat \ {0} /\ table.capacity \in Nat \ {0}
  BY Numbers
<1>4. /\ Sound(new') /\ new'.capacity = table.capacity * 2 /\ NoTombstones(new')
      /\ \A l \in Keys : ~Has(new', l)
  BY <1>1, <1>3, NoBinding
<1>5. CopiedBut(new', table', k)
  BY <1>4 DEF CopiedBut
<1>6. CopySound'
  BY <1>1, <1>3, <1>4, <1>5 DEF CopySound
<1>7. QED
  BY <1>2, <1>6 DEF TablesInv

(* whose copy is never short of room, as it is twice as large and holds at   *)
(* most one key more than the table,                                         *)
LEMMA CopyHasRoom ==
  ASSUME TablesInv, pending # NULL
  PROVE  /\ Cardinality(Occupied(new)) \in Nat
         /\ Cardinality(Occupied(new)) <= Cardinality(Occupied(table)) + 1
         /\ 3 * (Cardinality(Occupied(new)) + 1) < 2 * new.capacity
         /\ \A k \in Keys : Stops(new, k) # {}
<1>1. /\ Sound(new) /\ NoTombstones(new) /\ new.capacity = table.capacity * 2
      /\ \E stray \in Keys : CopiedBut(new, table, stray)
  BY DEF TablesInv, CopySound
<1>2. /\ Sound(table) /\ 4 * (extensions + 1) <= table.capacity
      /\ 3 * Cardinality(Occupied(table)) < 2 * table.capacity + 3 * extensions
  BY DEF TablesInv, TableSound
<1>3. Cardinality(Occupied(new)) <= Cardinality(Occupied(table)) + 1
  BY <1>1, <1>2, CopyIsHardlyLarger
<1>4. Cardinality(Occupied(new)) \in Nat
  BY <1>1, OccupiedFinite DEF Sound
<1>5. /\ 3 * (Cardinality(Occupied(new)) + 1) < 2 * new.capacity
      /\ Cardinality(Occupied(new)) < new.capacity
  BY <1>1, <1>2, <1>3, <1>4, Numbers
<1>6. \A k \in Keys : Stops(new, k) # {}
  BY <1>1, <1>5, RoomEndsProbe DEF Sound
<1>7. QED
  BY <1>3, <1>4, <1>5, <1>6

(* and stays so when a key is put into it. *)
LEMMA PutIntoCopy ==
  ASSUME TablesInv, pending # NULL, NEW k \in Keys, NEW v \in Values \cup {NULL},
         NEW u, u = Put(new, k, v)
  PROVE  /\ Sound(u) /\ NoTombstones(u) /\ u.capacity = table.capacity * 2
         /\ \A l \in Keys : Lookup(u, l) = IF l = k THEN v ELSE Lookup(new, l)
         /\ \A l \in Keys : Has(u, l) <=> l = k \/ Has(new, l)
<1>1. /\ Sound(new) /\ NoTombstones(new) /\ Stops(new, k) # {}
      /\ new.capacity = table.capacity * 2
  BY CopyHasRoom DEF TablesInv, CopySound
<1>2. QED
  BY <1>1, PutInserts

(* The first iteration may put any key into the copy, which becomes the      *)
(* stray,                                                                    *)
LEMMA VisitUninitializedKeepsInv ==
  ASSUME TablesInv, VisitUninitialized
  PROVE  TablesInv'
<1>1. /\ pending # NULL /\ UNCHANGED <<table, pending, extensions>>
      /\ next = -1 /\ next' \in {-1, 0}
      /\ (new' = new \/ next' = 0)
  BY DEF VisitUninitialized
<1>2. TableSound'
  BY <1>1 DEF TablesInv, TableSound
<1>3. /\ pending \in Keys \X Values /\ Sound(new) /\ NoTombstones(new)
      /\ new.capacity = table.capacity * 2
      /\ \A k \in Keys : ~Has(new, k)
  BY <1>1 DEF TablesInv, CopySound
<1>4. /\ Sound(new') /\ NoTombstones(new') /\ new'.capacity = table.capacity * 2
      /\ next' = -1 => \A k \in Keys : ~Has(new', k)
      /\ \E stray \in Keys : CopiedBut(new', table, stray)
  <2>1. CASE new' = new
    <3>1. pending[1] \in Keys
      BY <1>3
    <3>2. CopiedBut(new', table, pending[1])
      BY <1>3, <2>1 DEF CopiedBut
    <3>3. QED
      BY <1>3, <2>1, <3>1, <3>2
  <2>2. CASE new' # new
    <3>1. PICK k \in Keys, v \in Values \cup {NULL} : new' = Put(new, k, v)
      BY <2>2 DEF VisitUninitialized
    <3>2. /\ Sound(new') /\ NoTombstones(new') /\ new'.capacity = table.capacity * 2
          /\ \A l \in Keys : Has(new', l) <=> l = k \/ Has(new, l)
      BY <1>1, <3>1, PutIntoCopy
    <3>3. CopiedBut(new', table, k)
      BY <1>3, <3>2 DEF CopiedBut
    <3>4. next' # -1
      BY <1>1, <2>2
    <3>5. QED
      BY <3>2, <3>3, <3>4
  <2>3. QED
    BY <2>1, <2>2
<1>5. next' \in -1 .. table.capacity - 1 /\ \A s \in 0 .. next' - 1 : FALSE
  <2>1. table.capacity - 1 >= 0 /\ table.capacity - 1 \in Int
    BY Numbers
  <2>2. CASE next' = -1
    BY <2>1, <2>2
  <2>3. CASE next' = 0
    BY <2>1, <2>3
  <2>4. QED
    BY <1>1, <2>2, <2>3
<1>6. CopySound'
  BY <1>1, <1>3, <1>4, <1>5 DEF CopySound
<1>7. QED
  BY <1>2, <1>6 DEF TablesInv

(* each other iteration copies the slot it passes. *)
LEMMA VisitSlotKeepsInv ==
  ASSUME TablesInv, VisitSlot
  PROVE  TablesInv'
<1> DEFINE k == table.entries[next].key
           v == table.entries[next].value
<1>1. /\ pending # NULL /\ UNCHANGED <<table, pending, extensions>>
      /\ next \in 0 .. table.capacity - 2 /\ next' = next + 1
      /\ new' = IF k = 0 THEN new ELSE Put(new, k, v)
      /\ table.capacity \in Nat
  BY Numbers DEF VisitSlot
<1>2. TableSound'
  BY <1>1 DEF TablesInv, TableSound
<1>3. /\ pending \in Keys \X Values /\ Sound(new) /\ NoTombstones(new) /\ Sound(table)
      /\ new.capacity = table.capacity * 2
      /\ \A s \in 0 .. next - 1, l \in Keys : Holds(table, s, l) => Lookup(new, l) = Lookup(table, l)
  BY <1>1 DEF TablesInv, TableSound, CopySound
<1>4. PICK stray \in Keys : CopiedBut(new, table, stray)
  BY <1>1 DEF TablesInv, CopySound
<1>5. next \in Slots(table) /\ next' \in -1 .. table.capacity - 1 /\ next' # -1
  BY <1>1 DEF Slots
<1>6. ASSUME NEW s \in 0 .. next' - 1
      PROVE  s \in 0 .. next - 1 \/ s = next
  BY <1>1
<1>7. CASE k = 0
  <2>1. \A l \in Keys : ~Holds(table, next, l)
    BY <1>7 DEF Holds
  <2>2. new' = new
    BY <1>1, <1>7
  <2>3. \A s \in 0 .. next' - 1, l \in Keys : Holds(table, s, l) => Lookup(new', l) = Lookup(table, l)
    BY <1>3, <1>6, <2>1, <2>2
  <2>4. CopySound'
    BY <1>1, <1>3, <1>4, <1>5, <2>2, <2>3 DEF CopySound
  <2>5. QED
    BY <1>2, <2>4 DEF TablesInv
<1>8. CASE k # 0
  <2>1. k \in Keys /\ v \in Values \cup {NULL} /\ Holds(table, next, k)
    <3>1. State(table, next) = USED
      BY <1>3, <1>5, <1>8 DEF Sound, WellFormed
    <3>2. QED
      BY <1>3, <1>5, <3>1, SMTT(20) DEF Sound, WellFormed, Holds
  <2>2. Has(table, k) /\ Lookup(table, k) = v
    <3>1. \A l \in Keys : Holds(table, next, l) => Lookup(table, l) = table.entries[next].value
      BY <1>3, <1>5, LookupFinds, SMTT(20)
    <3>2. QED
      BY <1>5, <2>1, <3>1 DEF Has
  <2>3. \A l \in Keys : Holds(table, next, l) => l = k
    BY DEF Holds
  <2> HIDE DEF k, v
  <2>4. /\ Sound(new') /\ NoTombstones(new') /\ new'.capacity = table.capacity * 2
        /\ \A l \in Keys : Lookup(new', l) = IF l = k THEN v ELSE Lookup(new, l)
        /\ \A l \in Keys : Has(new', l) <=> l = k \/ Has(new, l)
    BY <1>1, <1>8, <2>1, PutIntoCopy
  <2>5. CopiedBut(new', table, stray)
    BY <1>4, <2>2, <2>4 DEF CopiedBut
  <2>6. \A s \in 0 .. next' - 1, l \in Keys : Holds(table, s, l) => Lookup(new', l) = Lookup(table, l)
    BY <1>3, <1>6, <2>2, <2>3, <2>4
  <2>7. CopySound'
    BY <1>1, <1>3, <1>5, <2>4, <2>5, <2>6 DEF CopySound
  <2>8. QED
    BY <1>2, <2>7 DEF TablesInv
<1>9. QED
  BY <1>7, <1>8

(* The end of an extension inserts into a table with the entries of the copy *)
(* and the counters of the old table, which cover all but one more slot.     *)
LEMMA FinishExtendMoves ==
  ASSUME TablesInv, FinishExtend
  PROVE  \E k \in Keys, v \in Values :
           /\ pending = <<k, v>>
           /\ Sound(table')
           /\ table'.capacity = new.capacity
           /\ Cardinality(Occupied(table')) \in Nat
           /\ Cardinality(Occupied(table')) <= Cardinality(Occupied(new)) + 1
           /\ Cardinality(Occupied(table')) <= table'.count + table'.tombstones + (extensions + 1)
           /\ \A l \in Keys : Lookup(table', l) = IF l = k THEN v ELSE Lookup(new, l)
<1> DEFINE grown == [table EXCEPT !.capacity = new.capacity, !.entries = new.entries]
<1>1. PICK k \in Keys, v \in Values : pending = <<k, v>>
  BY DEF TablesInv, CopySound, FinishExtend
<1>2. /\ table' = Put(grown, k, v) /\ Stops(grown, k) # {} /\ pending # NULL
  BY <1>1 DEF FinishExtend
<1>3. /\ Sound(table) /\ Sound(new)
      /\ Cardinality(Occupied(table)) <= table.count + table.tombstones + extensions
      /\ extensions \in Nat
      /\ table.count + table.tombstones \in Int
      /\ Cardinality(Occupied(table)) \in Nat
  BY <1>2, OccupiedFinite DEF TablesInv, TableSound, CopySound, Sound, WellFormed
<1>4. /\ grown.capacity = new.capacity /\ grown.entries = new.entries
      /\ grown.count = table.count /\ grown.tombstones = table.tombstones
      /\ WellFormed(grown)
  <2>1. /\ grown.capacity = new.capacity /\ grown.entries = new.entries
        /\ grown.count = table.count /\ grown.tombstones = table.tombstones
    BY <1>3 DEF Sound, WellFormed
  <2>2. grown \in TableOver(Slots(new))
    BY <1>3 DEF Sound, WellFormed
  <2> HIDE DEF grown
  <2>3. Slots(grown) = Slots(new) /\ \A s \in Slots(new) : State(grown, s) = State(new, s)
    BY <2>1 DEF Slots, State
  <2>4. QED
    BY <1>3, <2>1, <2>2, <2>3 DEF Sound, WellFormed
<1> HIDE DEF grown
<1>5. /\ Slots(grown) = Slots(new)
      /\ \A s : State(grown, s) = State(new, s)
      /\ \A s, l : Holds(grown, s, l) <=> Holds(new, s, l)
      /\ \A l, j : Slot(grown, l, j) = Slot(new, l, j)
  BY <1>4 DEF Slots, State, Holds, Slot
<1>6. Sound(grown)
  BY <1>3, <1>4, <1>5 DEF Sound, Reachable, OneSlotEach
<1>7. Occupied(grown) = Occupied(new) /\ \A l \in Keys : Lookup(grown, l) = Lookup(new, l)
  <2>1. Occupied(grown) = Occupied(new)
    BY <1>5 DEF Occupied
  <2>2. ASSUME NEW l \in Keys
        PROVE  Lookup(grown, l) = Lookup(new, l)
    <3>1. CASE \E s \in Slots(new) : Holds(new, s, l)
      <4>1. PICK s \in Slots(new) : Holds(new, s, l)
        BY <3>1
      <4>2. Lookup(new, l) = new.entries[s].value
        BY <1>3, <4>1, LookupFinds
      <4>3. s \in Slots(grown) /\ Holds(grown, s, l)
        BY <1>5, <4>1
      <4>4. Lookup(grown, l) = grown.entries[s].value
        BY <1>6, <4>3, LookupFinds
      <4>5. QED
        BY <1>4, <4>2, <4>4
    <3>2. CASE \A s \in Slots(new) : ~Holds(new, s, l)
      BY <1>3, <1>5, <1>6, <3>2, LookupFinds
    <3>3. QED
      BY <3>1, <3>2
  <2>3. QED
    BY <2>1, <2>2
<1>8. /\ extensions + 1 \in Nat
      /\ Cardinality(Occupied(grown)) <= grown.count + grown.tombstones + (extensions + 1)
  BY <1>2, <1>3, <1>4, <1>7, CopyHasRoom
<1>9. /\ Cardinality(Occupied(table')) \in Nat
      /\ Cardinality(Occupied(table')) <= Cardinality(Occupied(new)) + 1
      /\ Cardinality(Occupied(table')) <= table'.count + table'.tombstones + (extensions + 1)
  BY <1>2, <1>6, <1>7, <1>8, OccupiedAfterPut
<1>10. Sound(table') /\ table'.capacity = new.capacity
       /\ \A l \in Keys : Lookup(table', l) = IF l = k THEN v ELSE Lookup(new, l)
  BY <1>2, <1>4, <1>6, <1>7, PutInserts
<1>11. QED
  BY <1>1, <1>9, <1>10

(* The new table has room for the insertion, and for its extensions.         *)
LEMMA FinishExtendKeepsInv ==
  ASSUME TablesInv, FinishExtend
  PROVE  TablesInv'
<1>1. pending # NULL /\ pending' = NULL /\ extensions' = extensions + 1
  BY DEF FinishExtend
<1>2. /\ Sound(table')
      /\ table'.capacity = new.capacity
      /\ Cardinality(Occupied(table')) \in Nat
      /\ Cardinality(Occupied(table')) <= Cardinality(Occupied(new)) + 1
      /\ Cardinality(Occupied(table')) <= table'.count + table'.tombstones + (extensions + 1)
  BY FinishExtendMoves
<1>3. /\ Cardinality(Occupied(new)) \in Nat
      /\ 3 * (Cardinality(Occupied(new)) + 1) < 2 * new.capacity
      /\ new.capacity = table.capacity * 2
      /\ 4 * (extensions + 1) <= table.capacity
  BY <1>1, CopyHasRoom DEF TablesInv, TableSound, CopySound
<1>4. TableSound'
  <2>1. 3 * Cardinality(Occupied(table')) < 2 * table'.capacity + 3 * (extensions + 1)
    BY <1>2, <1>3, Numbers
  <2>2. extensions + 1 \in Nat /\ 4 * ((extensions + 1) + 1) <= table'.capacity
    BY <1>2, <1>3, Numbers
  <2>3. QED
    BY <1>1, <1>2, <2>1, <2>2 DEF TableSound, Occupied, Slots, State
<1>5. QED
  BY <1>1, <1>4 DEF TablesInv, CopySound

-----------------------------------------------------------------------------
(* What a removal leaves. *)
Erased(t, s) ==
  [t EXCEPT !.entries[s].key = 0,
            !.entries[s].state = TOMBSTONE,
            !.count = @ - 1,
            !.tombstones = @ + 1]

(* A removal keeps the table sound, for its tombstone keeps the probes that  *)
(* cross it going, and takes away one binding.                               *)
LEMMA EraseRemoves ==
  ASSUME NEW t, Sound(t), NEW k \in Keys,
         NEW s \in Slots(t), Holds(t, s, k),
         NEW u, u = Erased(t, s)
  PROVE  /\ Sound(u)
         /\ u.capacity = t.capacity
         /\ u.count + u.tombstones = t.count + t.tombstones
         /\ \A l \in Keys : Lookup(u, l) = IF l = k THEN NULL ELSE Lookup(t, l)
         /\ Occupied(u) = Occupied(t)
<1>1. /\ t \in TableOver(Slots(t))
      /\ State(t, s) = USED
  BY DEF Sound, WellFormed, Holds
<1>2. /\ u.capacity = t.capacity
      /\ u.count + u.tombstones = t.count + t.tombstones
      /\ u.entries = [t.entries EXCEPT ![s] = [key |-> 0, value |-> t.entries[s].value, state |-> TOMBSTONE]]
      /\ u \in TableOver(Slots(t))
  <2>1. u.capacity = t.capacity /\ u.count = t.count - 1 /\ u.tombstones = t.tombstones + 1
    BY <1>1 DEF Erased
  <2>2. u.entries = [t.entries EXCEPT ![s] = [key |-> 0, value |-> t.entries[s].value, state |-> TOMBSTONE]]
    BY <1>1 DEF Erased
  <2>3. u.entries \in [Slots(t) -> Entry]
    BY <1>1, <2>2
  <2>4. u.count \in Int /\ u.tombstones \in Int
    BY <1>1, <2>1
  <2>5. u = [t EXCEPT !.entries = u.entries, !.count = u.count, !.tombstones = u.tombstones]
    BY <1>1 DEF Erased
  <2>6. u \in TableOver(Slots(t))
    BY <1>1, <2>3, <2>4, <2>5
  <2>7. u.count + u.tombstones = t.count + t.tombstones
    BY <1>1, <2>1
  <2>8. QED
    BY <2>1, <2>2, <2>6, <2>7
<1>3. Slots(u) = Slots(t)
  BY <1>2 DEF Slots
<1>4. \A r \in Slots(t) :
        u.entries[r] = IF r = s THEN [key |-> 0, value |-> t.entries[s].value, state |-> TOMBSTONE]
                       ELSE t.entries[r]
  BY <1>1, <1>2
<1>5. \A r \in Slots(t) :
        /\ State(u, r) = IF r = s THEN TOMBSTONE ELSE State(t, r)
        /\ \A l \in Keys : Holds(u, r, l) <=> r # s /\ Holds(t, r, l)
  BY <1>4 DEF State, Holds
<1>6. WellFormed(u)
  BY <1>2, <1>3, <1>4, <1>5 DEF Sound, WellFormed
<1>7. \A l \in Keys, j \in Slots(t) : Slot(u, l, j) = Slot(t, l, j) /\ Slot(t, l, j) \in Slots(t)
  BY <1>2, ProbeOfTable DEF Slot, Sound
<1>8. Reachable(u)
  <2>1. \A j \in Slots(t) : \A i \in 0 .. j : i \in Slots(t)
    BY <1>1 DEF Slots
  <2>2. \A r \in Slots(t) : State(t, r) # FREE => State(u, r) # FREE
    BY <1>5
  <2>3. QED
    BY <1>3, <1>5, <1>7, <2>1, <2>2 DEF Sound, Reachable
<1>9. OneSlotEach(u)
  BY <1>3, <1>5 DEF Sound, OneSlotEach
<1>10. Sound(u)
  BY <1>6, <1>8, <1>9 DEF Sound
<1>11. ASSUME NEW l \in Keys
       PROVE  Lookup(u, l) = IF l = k THEN NULL ELSE Lookup(t, l)
  <2>1. CASE \A r \in Slots(t) : ~(r # s /\ Holds(t, r, l))
    <3>1. Lookup(u, l) = NULL
      BY <1>3, <1>5, <1>10, <2>1, LookupFinds
    <3>2. l # k => \A r \in Slots(t) : ~Holds(t, r, l)
      BY <2>1 DEF Holds
    <3>3. QED
      BY <3>1, <3>2, LookupFinds
  <2>2. CASE \E r \in Slots(t) : r # s /\ Holds(t, r, l)
    <3>1. PICK r \in Slots(t) : r # s /\ Holds(t, r, l)
      BY <2>2
    <3>2. l # k
      BY <3>1 DEF Sound, OneSlotEach
    <3>3. r \in Slots(u) /\ Holds(u, r, l) /\ u.entries[r].value = t.entries[r].value
      BY <1>3, <1>4, <1>5, <3>1
    <3>4. Lookup(u, l) = u.entries[r].value /\ Lookup(t, l) = t.entries[r].value
      BY <1>10, <3>1, <3>3, LookupFinds
    <3>5. QED
      BY <3>2, <3>3, <3>4
  <2>3. QED
    BY <2>1, <2>2
<1>12. Occupied(u) = Occupied(t)
  BY <1>1, <1>3, <1>5 DEF Occupied
<1>13. QED
  BY <1>2, <1>10, <1>11, <1>12

(* The same of hashtable_remove, which does nothing when the key is not      *)
(* there.                                                                    *)
LEMMA RemoveErases ==
  ASSUME TablesInv, NEW k \in Keys, HashtableRemove(k)
  PROVE  /\ Sound(table')
         /\ table'.capacity = table.capacity
         /\ table'.count + table'.tombstones = table.count + table.tombstones
         /\ \A l \in Keys : Lookup(table', l) = IF l = k THEN NULL ELSE Lookup(table, l)
         /\ Occupied(table') = Occupied(table)
<1>1. Sound(table)
  BY DEF TablesInv, TableSound
<1>2. CASE Found(table, k) = {}
  <2>1. table' = table
    BY <1>2 DEF HashtableRemove, Erase
  <2>2. Lookup(table, k) = NULL
    BY <1>2 DEF Lookup
  <2>3. QED
    BY <1>1, <2>1, <2>2
<1>3. CASE Found(table, k) # {}
  <2> DEFINE s == CHOOSE s \in Found(table, k) : TRUE
  <2>1. s \in Slots(table) /\ Holds(table, s, k)
    BY <1>3 DEF Found
  <2>2. table' = Erased(table, s)
    BY <1>3 DEF HashtableRemove, Erase, Erased
  <2> HIDE DEF s
  <2>3. QED
    BY <1>1, <2>1, <2>2, EraseRemoves
<1>4. QED
  BY <1>2, <1>3

(* A removal changes neither the occupied slots nor what the counters sum    *)
(* to.                                                                       *)
LEMMA RemoveKeepsInv ==
  ASSUME TablesInv, NEW k \in Keys, HashtableRemove(k)
  PROVE  TablesInv'
<1>1. pending = NULL /\ pending' = NULL /\ extensions' = extensions
  BY DEF HashtableRemove, Erase, Idle
<1>2. /\ Sound(table') /\ table'.capacity = table.capacity
      /\ table'.count + table'.tombstones = table.count + table.tombstones
      /\ Occupied(table') = Occupied(table)
  BY RemoveErases
<1>3. /\ extensions \in Nat /\ 4 * (extensions + 1) <= table.capacity
      /\ Cardinality(Occupied(table)) <= table.count + table.tombstones + extensions
      /\ 3 * Cardinality(Occupied(table)) < 2 * table.capacity + 3 * extensions
  BY DEF TablesInv, TableSound
<1>4. QED
  BY <1>1, <1>2, <1>3 DEF TablesInv, TableSound, CopySound, Occupied, Slots, State

(* Every step keeps the invariant. *)
LEMMA StepKeepsInv == TablesInv /\ [Next]_vars => TablesInv'
<1> SUFFICES ASSUME TablesInv, [Next]_vars PROVE TablesInv'
  OBVIOUS
<1>1. ASSUME NEW k \in Keys, NEW v \in Values, HashtableInsert(k, v)
      PROVE  TablesInv'
  BY <1>1, InsertKeepsInv
<1>2. ASSUME NEW k \in Keys, NEW v \in Values, BeginExtend(k, v)
      PROVE  TablesInv'
  BY <1>2, BeginExtendKeepsInv
<1>3. CASE VisitUninitialized
  BY <1>3, VisitUninitializedKeepsInv
<1>4. CASE VisitSlot
  BY <1>4, VisitSlotKeepsInv
<1>5. CASE FinishExtend
  BY <1>5, FinishExtendKeepsInv
<1>6. ASSUME NEW k \in Keys, HashtableGet(k)
      PROVE  TablesInv'
  BY <1>6 DEF HashtableGet, TablesInv, TableSound, CopySound
<1>7. ASSUME NEW k \in Keys, HashtableRemove(k)
      PROVE  TablesInv'
  BY <1>7, RemoveKeepsInv
<1>8. CASE UNCHANGED vars
  BY <1>8 DEF vars, TablesInv, TableSound, CopySound
<1>9. QED
  BY <1>1, <1>2, <1>3, <1>4, <1>5, <1>6, <1>7, <1>8 DEF Next

(* TablesInv holds in every state: whatever is inserted, removed and copied, *)
(* and whatever the uninitialized pointer found, the table is sound, has a   *)
(* free slot, and the copy made of it has one key from elsewhere at most.    *)
THEOREM TablesInvariant == Spec => []TablesInv
BY InitSound, StepKeepsInv, PTL DEF Spec

-----------------------------------------------------------------------------
(* LoadBounded: fewer than two thirds of the slots are occupied, but for one *)
(* for each extension, and a slot is free, in the table and in the copy,     *)
(* however stale the counters are.                                           *)
THEOREM TableLoadBounded == Spec => []LoadBounded
<1>1. TablesInv => LoadBounded
  <2> SUFFICES ASSUME TablesInv PROVE LoadBounded
    OBVIOUS
  <2>1. 3 * (Cardinality(Occupied(table)) - extensions) < 2 * table.capacity
    BY Numbers DEF TablesInv, TableSound
  <2>2. Cardinality(Occupied(table)) < table.capacity
    BY Numbers
  <2>3. ASSUME pending # NULL
        PROVE  3 * Cardinality(Occupied(new)) < 2 * new.capacity
    <3>1. new.capacity \in Nat
      BY <2>3, Numbers DEF TablesInv, CopySound
    <3>2. QED
      BY <2>3, <3>1, CopyHasRoom
  <2>4. QED
    BY <2>1, <2>2, <2>3 DEF LoadBounded
<1>2. QED
  BY <1>1, TablesInvariant, PTL

(* The loop of hashtable_insert, which ends at a free slot or at the key     *)
(* only, ends for every key, in the table and in the copy: the guards Stops  *)
(* # {} of the actions never stop the program.                               *)
THEOREM TableProbesEnd ==
  Spec => [](\A k \in Keys : Stops(table, k) # {} /\ (pending # NULL => Stops(new, k) # {}))
<1>1. TablesInv => \A k \in Keys : Stops(table, k) # {} /\ (pending # NULL => Stops(new, k) # {})
  <2> SUFFICES ASSUME TablesInv, NEW k \in Keys
               PROVE  Stops(table, k) # {} /\ (pending # NULL => Stops(new, k) # {})
    OBVIOUS
  <2>1. Cardinality(Occupied(table)) < table.capacity
    BY Numbers
  <2>2. QED
    BY <2>1, RoomEndsProbe, CopyHasRoom DEF TablesInv, TableSound, Sound
<1>2. QED
  BY <1>1, TablesInvariant, PTL

(* CountsCoverSlots: the counters that decide when to grow understate what   *)
(* the slots hold by one slot for each extension at most, though each takes  *)
(* the old ones over.                                                        *)
THEOREM TableCountsCoverSlots == Spec => []CountsCoverSlots
<1>1. TablesInv => CountsCoverSlots
  <2> SUFFICES ASSUME TablesInv PROVE CountsCoverSlots
    OBVIOUS
  <2> DEFINE used == InState(table, USED)
             tombs == InState(table, TOMBSTONE)
  <2>1. used \cup tombs = Occupied(table) /\ used \cap tombs = {}
    BY DEF InState, Occupied, TablesInv, TableSound, Sound, WellFormed, State
  <2>2. IsFiniteSet(used) /\ IsFiniteSet(tombs)
    BY <2>1, OccupiedFinite, FS_Subset DEF TablesInv, TableSound, Sound
  <2> HIDE DEF used, tombs
  <2>3. Cardinality(used) \in Nat /\ Cardinality(tombs) \in Nat
    BY <2>2, FS_CardinalityType
  <2>4. Cardinality(Occupied(table)) = Cardinality(used) + Cardinality(tombs) - 0
    BY <2>1, <2>2, FS_Union, FS_EmptySet
  <2>5. Cardinality(Occupied(table)) <= table.count + table.tombstones + extensions
    BY DEF TablesInv, TableSound
  <2>6. QED
    BY <2>3, <2>4, <2>5 DEF CountsCoverSlots, used, tombs
<1>2. QED
  BY <1>1, TablesInvariant, PTL

(* KeysFindable: every key in a slot is found there by probing, across the   *)
(* tombstones, in the table and in the copy.                                 *)
THEOREM TableKeysFindable == Spec => []KeysFindable
<1>1. ASSUME NEW t, Sound(t)
      PROVE  Findable(t)
  <2>1. ASSUME NEW s \in InState(t, USED)
        PROVE  Found(t, t.entries[s].key) = {s}
    <3>1. s \in Slots(t) /\ t.entries[s].key \in Keys /\ Holds(t, s, t.entries[s].key)
      BY <1>1 DEF InState, Sound, WellFormed, Holds
    <3>2. QED
      BY <1>1, <3>1, LookupFinds
  <2>2. QED
    BY <2>1 DEF Findable
<1>2. TablesInv => KeysFindable
  BY <1>1 DEF TablesInv, TableSound, CopySound, KeysFindable
<1>3. QED
  BY <1>2, TablesInvariant, PTL

(* OnlyLastSlotLost: when ht_foreach ends, the copy has every binding but    *)
(* that of the last slot, whatever key and value the uninitialized pointer   *)
(* found: a slot that is visited overwrites what came from elsewhere.        *)
THEOREM TableOnlyLastSlotLost == Spec => []OnlyLastSlotLost
<1>1. TablesInv => OnlyLastSlotLost
  <2> SUFFICES ASSUME TablesInv, pending # NULL, next = table.capacity - 1,
                      NEW k \in Keys, Lookup(table, k) # NULL,
                      ~Holds(table, table.capacity - 1, k)
               PROVE  Lookup(new, k) = Lookup(table, k)
    BY DEF OnlyLastSlotLost
  <2>1. PICK s \in Slots(table) : Holds(table, s, k)
    BY LookupIsInSlot DEF Has, TablesInv, TableSound
  <2>2. s \in 0 .. next - 1
    BY <2>1, Numbers DEF Slots
  <2>3. QED
    BY <2>1, <2>2 DEF TablesInv, CopySound
<1>2. QED
  BY <1>1, TablesInvariant, PTL

-----------------------------------------------------------------------------
(* Seen as a dictionary, a new table is empty, *)
LEMMA InitIsMapInit == Init => Map!Init
<1> SUFFICES ASSUME Init PROVE Map!Init
  OBVIOUS
<1>1. \A k \in Keys : Lookup(table, k) = NULL
  BY NoBinding DEF Init
<1>2. QED
  BY <1>1 DEF Init, Map!Init

(* an insertion binds a key, *)
LEMMA InsertIsMapInsert ==
  ASSUME TablesInv, NEW k \in Keys, NEW v \in Values, HashtableInsert(k, v)
  PROVE  Map!Insert(k, v)
<1>1. /\ table' = Put(table, k, v) /\ Stops(table, k) # {} /\ Sound(table) /\ answer' = answer
  BY DEF HashtableInsert, TablesInv, TableSound
<1>2. \A l \in Keys : Lookup(table', l) = IF l = k THEN v ELSE Lookup(table, l)
  BY <1>1, PutInserts
<1>3. QED
  BY <1>1, <1>2 DEF Map!Insert

(* one that grows the table also loses the key of the last slot and gains    *)
(* the stray, unless these happen to be the same or in the table,            *)
LEMMA FinishIsMapInsert ==
  ASSUME TablesInv, FinishExtend
  PROVE  Map!InsertGrowing(pending[1], pending[2])
<1>1. PICK k \in Keys, v \in Values :
        /\ pending = <<k, v>>
        /\ \A l \in Keys : Lookup(table', l) = IF l = k THEN v ELSE Lookup(new, l)
  BY FinishExtendMoves
<1>2. /\ pending # NULL /\ next = table.capacity - 1 /\ answer' = answer
      /\ Sound(table) /\ Sound(new) /\ table.capacity \in Nat
      /\ \A s \in 0 .. next - 1, l \in Keys :
           Holds(table, s, l) => Lookup(new, l) = Lookup(table, l)
  BY Numbers DEF FinishExtend, TablesInv, TableSound, CopySound
<1>3. PICK stray \in Keys : CopiedBut(new, table, stray)
  BY <1>2 DEF TablesInv, CopySound
<1>4. ASSUME NEW l \in Keys, Has(table, l), ~Holds(table, next, l)
      PROVE  Lookup(new, l) = Lookup(table, l)
  <2>1. PICK s \in Slots(table) : Holds(table, s, l)
    BY <1>4 DEF Has
  <2>2. s \in 0 .. next - 1
    BY <1>2, <1>4, <2>1 DEF Slots
  <2>3. QED
    BY <1>2, <2>1, <2>2
<1>5. \A l \in Keys : /\ ~Has(table, l) => Lookup(table, l) = NULL
                      /\ ~Has(new, l) => Lookup(new, l) = NULL
                      /\ Lookup(new, l) \in Values \cup {NULL}
  BY <1>2, LookupFinds, LookupIsInSlot DEF Has
<1>6. ASSUME NEW l \in Keys \ {stray}, Has(new, l) \/ ~Holds(table, next, l)
      PROVE  Lookup(new, l) = Lookup(table, l)
  BY <1>3, <1>4, <1>5, <1>6 DEF CopiedBut
<1>7. \E lost, gained \in Keys, w \in Values \cup {NULL} :
        /\ gained = lost \/ Lookup(table, gained) = NULL
        /\ \A l \in Keys :
             Lookup(new, l) =
               IF l = gained THEN w ELSE IF l = lost THEN NULL ELSE Lookup(table, l)
  <2>1. CASE \A l \in Keys \ {stray} : Has(new, l) \/ ~Holds(table, next, l)
    <3>1. \A l \in Keys : l # stray => Lookup(new, l) = Lookup(table, l)
      BY <1>6, <2>1
    <3> Lookup(new, stray) \in Values \cup {NULL}
      BY <1>5
    <3>2. WITNESS stray \in Keys, stray \in Keys, Lookup(new, stray) \in Values \cup {NULL}
    <3>3. QED
      BY <3>1
  <2>2. CASE \E l \in Keys \ {stray} : ~Has(new, l) /\ Holds(table, next, l)
    <3>1. PICK lost \in Keys \ {stray} : ~Has(new, lost) /\ Holds(table, next, lost)
      BY <2>2
    <3>2. \A l \in Keys : l # lost => ~Holds(table, next, l)
      BY <3>1 DEF Holds
    <3>3. Lookup(new, lost) = NULL
      BY <1>5, <3>1
    <3>4. \A l \in Keys : l # lost /\ l # stray => Lookup(new, l) = Lookup(table, l)
      BY <1>6, <3>2
    <3>5. CASE Has(table, stray)
      <4>1. Lookup(new, stray) = Lookup(table, stray)
        BY <1>4, <3>1, <3>2, <3>5
      <4>2. WITNESS lost \in Keys, lost \in Keys, NULL \in Values \cup {NULL}
      <4>3. QED
        BY <3>3, <3>4, <4>1
    <3>6. CASE ~Has(table, stray)
      <4>1. Lookup(table, stray) = NULL
        BY <1>5, <3>6
      <4> Lookup(new, stray) \in Values \cup {NULL}
        BY <1>5
      <4>2. WITNESS lost \in Keys, stray \in Keys, Lookup(new, stray) \in Values \cup {NULL}
      <4>3. QED
        BY <3>1, <3>3, <3>4, <4>1
    <3>7. QED
      BY <3>5, <3>6
  <2>3. QED
    BY <2>1, <2>2
<1>8. PICK lost \in Keys, gained \in Keys, w \in Values \cup {NULL} :
        /\ gained = lost \/ Lookup(table, gained) = NULL
        /\ \A l \in Keys :
             Lookup(new, l) =
               IF l = gained THEN w ELSE IF l = lost THEN NULL ELSE Lookup(table, l)
  BY <1>7
<1> DEFINE dict == [l \in Keys |-> Lookup(table, l)]
<1>9. [l \in Keys |-> Lookup(table', l)] = [dict EXCEPT ![lost] = NULL, ![gained] = w, ![k] = v]
  BY <1>1, <1>8
<1>10. gained = lost \/ dict[gained] = NULL
  BY <1>8
<1>11. QED
  BY <1>1, <1>2, <1>9, <1>10 DEF Map!InsertGrowing

(* and a removal takes a binding away. *)
LEMMA RemoveIsMapRemove ==
  ASSUME TablesInv, NEW k \in Keys, HashtableRemove(k)
  PROVE  Map!Remove(k)
<1>1. \A l \in Keys : Lookup(table', l) = IF l = k THEN NULL ELSE Lookup(table, l)
  BY RemoveErases
<1>2. answer' = answer
  BY DEF HashtableRemove, Erase
<1>3. QED
  BY <1>1, <1>2 DEF Map!Remove

(* ImplementsMap: the table is a dictionary whose calls do what SymbolMap    *)
(* says, for every capacity and key set.                                     *)
THEOREM TableImplementsMap == Spec => ImplementsMap
<1> DEFINE A == /\ \A k \in Keys, v \in Values : HashtableInsert(k, v) => Map!Insert(k, v)
                /\ FinishExtend => Map!InsertGrowing(pending[1], pending[2])
                /\ \A k \in Keys : HashtableGet(k) => Map!Get(k)
                /\ \A k \in Keys : HashtableRemove(k) => Map!Remove(k)
<1>1. TablesInv => A
  <2>1. \A k \in Keys : HashtableGet(k) => Map!Get(k)
    BY DEF HashtableGet, Map!Get
  <2>2. QED
    BY <2>1, InsertIsMapInsert, FinishIsMapInsert, RemoveIsMapRemove
<1> HIDE DEF A
<1>2. TablesInv => [A]_vars
  BY <1>1
<1>3. Spec => [][A]_vars
  BY <1>2, TablesInvariant, PTL
<1>4. QED
  BY <1>3, InitIsMapInit, PTL DEF ImplementsMap, A, Spec
=============================================================================
