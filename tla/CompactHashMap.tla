--------------------------- MODULE CompactHashMap ---------------------------
(***************************************************************************)
(* core/dsa/hash_map.py: the dict of CompactHashMap, a sparse table of     *)
(* slots that hold offsets into a dense array of entries, searched by the  *)
(* probe sequence of CPython.  One iteration of the loop of _lookup is one *)
(* step; whatever the caller does with the slot it found is done in the    *)
(* step that ends the search.  A key stands for its own hash, as a small   *)
(* integer does in Python.                                                 *)
(***************************************************************************)
EXTENDS Integers, Sequences, FiniteSets

CONSTANTS
    PositiveHashes,    \* the hashes of the keys that are not negative ...
    NegativeHashes,    \* ... and the magnitudes of those that are
    InitialCapacity,   \* INITIAL_CAPACITY, a power of two
    Shift,             \* the perturbation loses five bits a probe: 2^5
    MaxHashEntries     \* a bound on the entries ever appended

ASSUME HashMapAssumption ==
    /\ PositiveHashes \subseteq Nat /\ NegativeHashes \subseteq Nat
    /\ InitialCapacity \in Nat /\ InitialCapacity > 1
    /\ Shift \in Nat /\ Shift > 1

HashKeys == PositiveHashes \cup {0 - h : h \in NegativeHashes}

EMPTY == -1
DUMMY == -2

VARIABLES
    indices,   \* _indices: slot -> EMPTY, DUMMY or an offset into entries
    entries,   \* _entries: [key, active], in the order of insertion
    size,      \* _size
    probing,   \* the search under way, or NoProbe
    stored     \* the keys a dict given the same calls would hold, in its order
hashVars == <<indices, entries, size, probing, stored>>

NoProbe == [op |-> "none"]
FreshTable(n) == [i \in 0 .. n - 1 |-> EMPTY]
TableCapacity == Cardinality(DOMAIN indices)

HashInit ==
    /\ indices = FreshTable(InitialCapacity)
    /\ entries = <<>>
    /\ size = 0
    /\ probing = NoProbe
    /\ stored = <<>>

-----------------------------------------------------------------------------
(* The recurrence.  & mask is a remainder and >>= 5 a floor division: both *)
(* round towards minus infinity, for negative numbers too.                 *)
NextSlot(i, perturb, capacity) == (5 * i + 1 + perturb) % capacity
NextPerturb(perturb) == perturb \div Shift

(* A call of __setitem__, __getitem__, __contains__ or delete starts at the *)
(* slot the low bits of the hash name (none after MaxHashEntries appends).  *)
StartProbe(op, k) ==
    /\ probing = NoProbe
    /\ Len(entries) < MaxHashEntries
    /\ probing' = [op |-> op, key |-> k, slot |-> k % TableCapacity, perturb |-> k,
                 dummy |-> EMPTY]
    /\ UNCHANGED <<indices, entries, size, stored>>

(* The loop reaches a live entry of the same key or an EMPTY slot. *)
Holds(i, k) == indices[i] >= 0 /\ entries[indices[i] + 1] = [key |-> k, active |-> TRUE]
Ends(p) == indices[p.slot] = EMPTY \/ Holds(p.slot, p.key)

(* Occupied by another key or by a tombstone: remember the first tombstone  *)
(* and try the next slot.                                                  *)
ProbeOn ==
    /\ probing # NoProbe
    /\ ~Ends(probing)
    /\ probing' = [probing EXCEPT
          !.slot = NextSlot(probing.slot, probing.perturb, TableCapacity),
          !.perturb = NextPerturb(probing.perturb),
          !.dummy = IF indices[probing.slot] = DUMMY /\ @ = EMPTY THEN probing.slot ELSE @]
    /\ UNCHANGED <<indices, entries, size, stored>>

(* _resize: live entries move to a dense array in order, each to the first  *)
(* EMPTY slot of its own probe sequence.                                   *)
Live == SelectSeq(entries, LAMBDA e : e.active)
RECURSIVE FirstEmpty(_, _, _)
FirstEmpty(table, i, perturb) ==
    IF table[i] = EMPTY
    THEN i
    ELSE FirstEmpty(table, NextSlot(i, perturb, Cardinality(DOMAIN table)),
                    NextPerturb(perturb))
RECURSIVE RebuiltIndices(_, _, _)
RebuiltIndices(table, live, n) ==
    IF n > Len(live)
    THEN table
    ELSE LET k == live[n].key
         IN  RebuiltIndices([table EXCEPT
                          ![FirstEmpty(table, k % Cardinality(DOMAIN table), k)] = n - 1],
                       live, n + 1)

Overfull == (Len(entries) + 1) * 3 >= TableCapacity * 2

(* __setitem__ of a key that is there: the value changes in place. *)
SetExisting ==
    /\ probing.op = "set"
    /\ Holds(probing.slot, probing.key)
    /\ probing' = NoProbe
    /\ UNCHANGED <<indices, entries, size, stored>>

(* __setitem__ of a new key: the table doubles first when two thirds of it  *)
(* are used, counting deleted entries; the entry is appended and its slot,  *)
(* the first tombstone met or else the EMPTY one, points at it.            *)
SetNew ==
    /\ probing.op = "set"
    /\ indices[probing.slot] = EMPTY
    /\ LET table == IF Overfull THEN RebuiltIndices(FreshTable(2 * TableCapacity), Live, 1)
                    ELSE indices
           dense == IF Overfull THEN Live ELSE entries
           slot  == IF Overfull
                    THEN FirstEmpty(table, probing.key % Cardinality(DOMAIN table), probing.key)
                    ELSE IF probing.dummy # EMPTY THEN probing.dummy ELSE probing.slot
       IN  /\ indices' = [table EXCEPT ![slot] = Len(dense)]
           /\ entries' = Append(dense, [key |-> probing.key, active |-> TRUE])
    /\ size' = size + 1
    /\ stored' = Append(stored, probing.key)
    /\ probing' = NoProbe

(* __getitem__, __contains__ and get: nothing changes. *)
GetKey ==
    /\ probing.op = "get"
    /\ Ends(probing)
    /\ probing' = NoProbe
    /\ UNCHANGED <<indices, entries, size, stored>>

(* Mutation of DeleteKey: the slot becomes empty instead of a tombstone. *)
MutDeleteKey ==
    /\ probing.op = "delete"
    /\ Ends(probing)
    /\ IF indices[probing.slot] = EMPTY
       THEN UNCHANGED <<indices, entries, size, stored>>
       ELSE /\ entries' = [entries EXCEPT ![indices[probing.slot] + 1].active = FALSE]
            /\ indices' = [indices EXCEPT ![probing.slot] = EMPTY]
            /\ size' = size - 1
            /\ stored' = SelectSeq(stored, LAMBDA k : k # probing.key)
    /\ probing' = NoProbe

(* delete: the entry goes inactive and its slot becomes a tombstone. *)
DeleteKey ==
    /\ probing.op = "delete"
    /\ Ends(probing)
    /\ IF indices[probing.slot] = EMPTY
       THEN UNCHANGED <<indices, entries, size, stored>>
       ELSE /\ entries' = [entries EXCEPT ![indices[probing.slot] + 1].active = FALSE]
            /\ indices' = [indices EXCEPT ![probing.slot] = DUMMY]
            /\ size' = size - 1
            /\ stored' = SelectSeq(stored, LAMBDA k : k # probing.key)
    /\ probing' = NoProbe

(* clear, called between two other calls. *)
ClearMap ==
    /\ probing = NoProbe
    /\ indices' = FreshTable(InitialCapacity)
    /\ entries' = <<>>
    /\ size' = 0
    /\ stored' = <<>>
    /\ UNCHANGED probing

(* The calls the caller makes, and the steps of the one under way. *)
HashCall == \E k \in HashKeys, op \in {"set", "get", "delete"} : StartProbe(op, k)
HashStep == ProbeOn \/ SetExisting \/ SetNew \/ GetKey \/ DeleteKey
HashNext == HashCall \/ ClearMap \/ HashStep
HashFairness == WF_hashVars(HashStep)
HashSpec == HashInit /\ [][HashNext]_hashVars /\ HashFairness

-----------------------------------------------------------------------------
(* keys(), and the order of values(), items() and iteration. *)
KeysInOrder == [n \in 1 .. Len(Live) |-> Live[n].key]

(* The map agrees with a dict given the same calls: it yields exactly the  *)
(* stored keys in their order of insertion, _size counts them, and a       *)
(* search that ends reports a key present exactly when it is stored,       *)
(* whatever tombstones and doublings the probe chain went through          *)
(* (hash_map.py:83-129).                                                   *)
SearchesAgree ==
    /\ KeysInOrder = stored
    /\ size = Len(stored)
    /\ probing # NoProbe /\ Ends(probing) =>
          (Holds(probing.slot, probing.key) <=> \E n \in 1 .. size : stored[n] = probing.key)

(* Every call returns.  "Power-of-2 capacity guarantee: full period         *)
(* traversal of all slots" (hash_map.py:9): a search that misses its key    *)
(* must come upon an EMPTY slot, of which the load factor leaves a third.   *)
EverySearchEnds == (probing # NoProbe) ~> (probing = NoProbe)
=============================================================================
