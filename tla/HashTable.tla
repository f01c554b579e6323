------------------------------ MODULE HashTable ------------------------------
(***************************************************************************)
(* The open-addressing hash table (Support/hashtable.c) that holds the     *)
(* bindings of a function or of a module while IR is generated: linear     *)
(* probing, tombstones, doubling by copying into a new table. A key is     *)
(* named by its 64-bit hash, as in the code, which never sees the key      *)
(* again. Hash 0 is excluded: it marks an entry without a key.             *)
(*                                                                         *)
(* hashtable_extend is one action per iteration of ht_foreach. That macro  *)
(* (hashtable.h:52) moves its iterator after the body, so the body runs    *)
(* once with the uninitialized pointer and never for the last slot.        *)
(*                                                                         *)
(* Bound for TLC: the table grows up to MaxCapacity.                       *)
(***************************************************************************)
EXTENDS Integers, FiniteSets

CONSTANTS
  Keys,             (* hashes of the keys in use                            *)
  Values,
  NULL,
  InitialCapacity,  (* HT_INITIAL_CAPACITY                                  *)
  MaxCapacity,
  Removes           (* may hashtable_remove be called                       *)

ASSUME HashTableAssumption ==
  /\ Keys \subseteq Nat \ {0}
  /\ NULL \notin Values
  /\ InitialCapacity \in Nat /\ InitialCapacity >= 4
  /\ MaxCapacity \in Nat
  /\ Removes \in BOOLEAN

VARIABLES
  table,       (* the table the caller holds                                *)
  new,         (* the table hashtable_extend copies into, else NULL         *)
  next,        (* the next slot ht_foreach visits, -1 before the first      *)
  pending,     (* the insertion that called hashtable_extend                *)
  answer,      (* what the last hashtable_get returned                      *)
  status,      (* "crashed" once the uninitialized pointer faulted          *)
  extensions   (* how often the table has grown: kept by no code, for the   *)
               (* properties                                                *)

vars == <<table, new, next, pending, answer, status, extensions>>

FREE == "FREE"
USED == "USED"
TOMBSTONE == "TOMBSTONE"

-----------------------------------------------------------------------------
(* hashtable_create_with_capacity: zeroed memory is a free entry. *)
Empty(capacity) ==
  [capacity   |-> capacity,
   count      |-> 0,
   tombstones |-> 0,
   entries    |-> [s \in 0 .. capacity - 1 |-> [key |-> 0, value |-> NULL, state |-> FREE]]]

Slots(t) == 0 .. t.capacity - 1

Slot(t, k, j) == (k + j) % t.capacity

State(t, s) == t.entries[s].state

Holds(t, s, k) == State(t, s) = USED /\ t.entries[s].key = k

Least(S) == CHOOSE j \in S : \A l \in S : j <= l

(* The probe lengths at which the loop of hashtable_insert stops for k.      *)
Stops(t, k) ==
  {j \in Slots(t) : State(t, Slot(t, k, j)) = FREE \/ Holds(t, Slot(t, k, j), k)}

(* Mutant: the first tombstone is taken without looking for the key behind   *)
(* it.                                                                       *)
PutAtTombstone(t, k, v) ==
  LET stop == Least({j \in Slots(t) :
                       State(t, Slot(t, k, j)) # USED \/ Holds(t, Slot(t, k, j), k)})
      at   == Slot(t, k, stop)
  IN  IF Holds(t, at, k)
      THEN [t EXCEPT !.entries[at].value = v]
      ELSE [t EXCEPT !.entries[at] = [key |-> k, value |-> v, state |-> USED],
                     !.count = @ + 1,
                     !.tombstones = IF State(t, at) = TOMBSTONE THEN @ - 1 ELSE @]

(* hashtable_insert once there is room. The loop has no other exit than a    *)
(* free slot or the key: Put means something only where Stops is not empty.  *)
Put(t, k, v) ==
  LET stop  == Least(Stops(t, k))
      at    == Slot(t, k, stop)
      tombs == {j \in 0 .. stop - 1 : State(t, Slot(t, k, j)) = TOMBSTONE}
      into  == IF tombs = {} THEN at ELSE Slot(t, k, Least(tombs))
  IN  IF Holds(t, at, k)
      THEN [t EXCEPT !.entries[at].value = v]
      ELSE [t EXCEPT !.entries[into] = [key |-> k, value |-> v, state |-> USED],
                     !.count = @ + 1,
                     !.tombstones = IF tombs = {} THEN @ ELSE @ - 1]

(* Mutant: the table grows only when it would be more than full. *)
NeedsRoomLate(t) == t.count + t.tombstones + 1 > t.capacity

(* The test that makes hashtable_insert extend the table first. *)
NeedsRoom(t) == (t.count + t.tombstones + 1) * 3 >= t.capacity * 2

(* hashtable_get_entry: the slots of k's probe before a free one. *)
Found(t, k) ==
  {s \in Slots(t) :
     /\ Holds(t, s, k)
     /\ \E j \in Slots(t) :
          /\ Slot(t, k, j) = s
          /\ \A l \in 0 .. j : State(t, Slot(t, k, l)) # FREE}

Lookup(t, k) ==
  IF Found(t, k) = {} THEN NULL ELSE t.entries[CHOOSE s \in Found(t, k) : TRUE].value

-----------------------------------------------------------------------------
Init ==
  /\ table = Empty(InitialCapacity)
  /\ new = NULL
  /\ next = -1
  /\ pending = NULL
  /\ answer = NULL
  /\ status = "ok"
  /\ extensions = 0

Idle == status = "ok" /\ pending = NULL

HashtableInsert(k, v) ==
  /\ Idle
  /\ ~NeedsRoom(table)
  /\ Stops(table, k) # {}
  /\ table' = Put(table, k, v)
  /\ UNCHANGED <<new, next, pending, answer, status, extensions>>

(* hashtable_insert calls hashtable_extend. *)
BeginExtend(k, v) ==
  /\ Idle
  /\ NeedsRoom(table)
  /\ table.capacity * 2 <= MaxCapacity
  /\ new' = Empty(table.capacity * 2)
  /\ next' = -1
  /\ pending' = <<k, v>>
  /\ UNCHANGED <<table, answer, status, extensions>>

(* The first iteration reads through an uninitialized pointer: it faults, or *)
(* finds a key of 0 and skips it, or finds a key and copies it. What it      *)
(* finds may be anything that is readable: an entry of this table, of the    *)
(* other table of bindings, of an array freed since, with whatever value.    *)
VisitUninitialized ==
  /\ status = "ok" /\ pending # NULL /\ next = -1
  /\ \/ /\ status' = "crashed"
        /\ UNCHANGED <<new, next>>
     \/ /\ next' = 0
        /\ UNCHANGED <<new, status>>
     \/ \E k \in Keys, v \in Values \cup {NULL} :
          /\ new' = Put(new, k, v)
          /\ next' = 0
          /\ UNCHANGED status
  /\ UNCHANGED <<table, pending, answer, extensions>>

(* Mutant: copying stops at the first entry without a key. *)
VisitSlotBreaks ==
  /\ status = "ok" /\ pending # NULL
  /\ next \in 0 .. table.capacity - 2
  /\ IF table.entries[next].key = 0
     THEN next' = table.capacity - 1 /\ UNCHANGED new
     ELSE /\ new' = Put(new, table.entries[next].key, table.entries[next].value)
          /\ next' = next + 1
  /\ UNCHANGED <<table, pending, answer, status, extensions>>

VisitSlot ==
  /\ status = "ok" /\ pending # NULL
  /\ next \in 0 .. table.capacity - 2
  /\ new' = IF table.entries[next].key = 0 THEN new
            ELSE Put(new, table.entries[next].key, table.entries[next].value)
  /\ next' = next + 1
  /\ UNCHANGED <<table, pending, answer, status, extensions>>

(* Only capacity and entries are taken over, then the insertion goes on. *)
FinishExtend ==
  LET grown == [table EXCEPT !.capacity = new.capacity, !.entries = new.entries]
  IN  /\ status = "ok" /\ pending # NULL
      /\ next = table.capacity - 1
      /\ Stops(grown, pending[1]) # {}
      /\ table' = Put(grown, pending[1], pending[2])
      /\ new' = NULL
      /\ next' = -1
      /\ pending' = NULL
      /\ extensions' = extensions + 1
      /\ UNCHANGED <<answer, status>>

HashtableGet(k) ==
  /\ Idle
  /\ answer' = Lookup(table, k)
  /\ UNCHANGED <<table, new, next, pending, status, extensions>>

(* What a removal leaves in a slot, and how it changes the counters. *)
Erase(k, entry, tombs) ==
  /\ Removes
  /\ Idle
  /\ table' = IF Found(table, k) = {} THEN table
              ELSE LET s == CHOOSE s \in Found(table, k) : TRUE
                   IN  [table EXCEPT !.entries[s].key = entry.key,
                                     !.entries[s].state = entry.state,
                                     !.count = @ - 1,
                                     !.tombstones = @ + tombs]
  /\ UNCHANGED <<new, next, pending, answer, status, extensions>>

(* Mutants: the slot is freed; the tombstone is not counted. *)
HashtableRemoveFrees(k) == Erase(k, [key |-> 0, state |-> FREE], 0)
HashtableRemoveUncounted(k) == Erase(k, [key |-> 0, state |-> TOMBSTONE], 0)

HashtableRemove(k) == Erase(k, [key |-> 0, state |-> TOMBSTONE], 1)

Next ==
  \/ \E k \in Keys, v \in Values : HashtableInsert(k, v)
  \/ \E k \in Keys, v \in Values : BeginExtend(k, v)
  \/ VisitUninitialized
  \/ VisitSlot
  \/ FinishExtend
  \/ \E k \in Keys : HashtableGet(k)
  \/ \E k \in Keys : HashtableRemove(k)

Spec == Init /\ [][Next]_vars

-----------------------------------------------------------------------------
InState(t, st) == {s \in Slots(t) : State(t, s) = st}

(* The slots that are in use or tombstones. *)
Occupied(t) == {s \in Slots(t) : State(t, s) # FREE}

(* Fewer than two thirds of the slots are in use or tombstones, but for the  *)
(* entry that each extension may have copied from elsewhere and that no      *)
(* counter counts. These never fill the table: a slot stays free, in it and  *)
(* in the one being filled, so that the probing loop of hashtable_insert,    *)
(* which has no other end than the key or a free slot, ends.                 *)
LoadBounded ==
  /\ 3 * (Cardinality(Occupied(table)) - extensions) < 2 * table.capacity
  /\ Cardinality(Occupied(table)) < table.capacity
  /\ pending # NULL => 3 * Cardinality(Occupied(new)) < 2 * new.capacity

(* The counters that decide when to grow are taken over from the old table   *)
(* by an extension. They understate what the slots hold by at most the one   *)
(* entry that each extension may have copied from elsewhere.                 *)
CountsCoverSlots ==
  Cardinality(InState(table, USED)) + Cardinality(InState(table, TOMBSTONE))
    <= table.count + table.tombstones + extensions

Findable(t) ==
  \A s \in InState(t, USED) : Found(t, t.entries[s].key) = {s}

(* Every key in a slot is found by probing for it, and is in one slot only,  *)
(* whatever was removed or overwritten in between.                           *)
KeysFindable ==
  /\ Findable(table)
  /\ pending # NULL => Findable(new)

(* Extending the table keeps every binding but that of the last slot, with   *)
(* its value, whatever the first iteration has copied into the new one.      *)
OnlyLastSlotLost ==
  pending # NULL /\ next = table.capacity - 1 =>
    \A k \in Keys :
      Lookup(table, k) # NULL /\ ~Holds(table, table.capacity - 1, k) =>
        Lookup(new, k) = Lookup(table, k)

(* hlir.c:444 asserts that the symbol of an expression is found in the       *)
(* bindings: a key that was inserted and not removed is found.               *)
BindingsStay ==
  [][\A k \in Keys :
       Lookup(table, k) # NULL => Lookup(table, k)' # NULL]_vars

(* The table is a dictionary: each call does what it does to a dictionary,   *)
(* and only an insertion for which the table grows may lose one binding and  *)
(* may gain one that nobody inserted.                                        *)
Map ==
  INSTANCE SymbolMap WITH
    dict <- [k \in Keys |-> Lookup(table, k)]

ImplementsMap ==
  /\ Map!Init
  /\ [][/\ \A k \in Keys, v \in Values : HashtableInsert(k, v) => Map!Insert(k, v)
        /\ FinishExtend => Map!InsertGrowing(pending[1], pending[2])
        /\ \A k \in Keys : HashtableGet(k) => Map!Get(k)
        /\ \A k \in Keys : HashtableRemove(k) => Map!Remove(k)]_vars
=============================================================================
