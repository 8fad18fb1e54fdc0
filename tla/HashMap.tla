------------------------------ MODULE HashMap -------------------------------
(***************************************************************************)
(* containers::OpenAddressingHashMap (containers/hash_map.hpp): linear     *)
(* probing over a fixed table, with tombstones.                            *)
(*                                                                         *)
(* A map value m is a record of the class's members:                       *)
(*   m.slots[i]     the Slot at index i: state, key and value              *)
(*   m.size         size_                                                  *)
(*   m.tombstones   tombstones_                                            *)
(* and of m.home, the hash: mix64(key) & mask_ is some function from keys  *)
(* to indices, and nothing the map promises may depend on which one, so    *)
(* Init leaves it open and no operation changes it.                        *)
(*                                                                         *)
(* The operations are functions of a map value, so that a module that owns *)
(* a map (LinkedBook) can call them; the state machine below runs them.    *)
(***************************************************************************)
EXTENDS Integers, FiniteSets, FiniteSetsExt, PowersOfTwo

CONSTANTS
  Keys,            \* the keys in use
  Values,          \* the values in use
  NoValue,         \* V{}, and find()'s nullptr
  CapacityHint,    \* the constructor's capacity_hint
  Hashes,          \* the hash functions considered
  MaxLive          \* how many keys callers keep live at most

VARIABLE map

round_up_to_power_of_two(n) ==
  IF n <= 1 THEN 1 ELSE CHOOSE c \in n .. 2 * n - 1 : IsPowerOfTwo(c)

Capacity == round_up_to_power_of_two(CapacityHint)

Indices == 0 .. Capacity - 1

States == {"Empty", "Occupied", "Tombstone"}

EmptySlot == [state |-> "Empty", key |-> 0, value |-> NoValue]

EmptyMap(home) ==
  [slots |-> [i \in Indices |-> EmptySlot], size |-> 0, tombstones |-> 0,
   home |-> home]

(* What mix64 may compute. *)
Homes == [Keys -> Indices]

ASSUME MapAssumption ==
  /\ CapacityHint \in Nat /\ MaxLive \in Nat
  /\ NoValue \notin Values /\ Keys \subseteq Nat
  /\ Hashes \subseteq Homes

probe_start(m, key) == m.home[key]

(* The slot that the probe for key looks at after n others. *)
ProbeAt(m, key, n) == m.slots[(probe_start(m, key) + n) % Capacity]

Holds(slot, key) == slot.state = "Occupied" /\ slot.key = key

(* The probe loop of insert, find and erase: how many slots it passes      *)
(* before one that is empty or holds the key; Capacity if there is none.   *)
Probes(m, key) ==
  Min({n \in Indices : \/ ProbeAt(m, key, n).state = "Empty"
                       \/ Holds(ProbeAt(m, key, n), key)} \cup {Capacity})

Found(m, key) ==
  Probes(m, key) < Capacity /\ ProbeAt(m, key, Probes(m, key)).state # "Empty"

find(m, key) ==
  IF Found(m, key) THEN ProbeAt(m, key, Probes(m, key)).value ELSE NoValue

(* Mutant: reusing a tombstone does not uncount it. *)
place_keeps_count(m, i, key, value) ==
  [m EXCEPT !.slots[i] = [state |-> "Occupied", key |-> key, value |-> value],
            !.size = @ + 1]

place(m, i, key, value) ==
  [m EXCEPT !.slots[i] = [state |-> "Occupied", key |-> key, value |-> value],
            !.size = @ + 1,
            !.tombstones = IF m.slots[i].state = "Tombstone" THEN @ - 1 ELSE @]

(* The tombstones that the probe for key passes, by probe distance. *)
Passed(m, key) ==
  {n \in 0 .. Probes(m, key) - 1 : ProbeAt(m, key, n).state = "Tombstone"}

(* Mutant: the first tombstone is taken without probing further. *)
insert_at_first_tombstone(m, key, value) ==
  LET n     == Min({n \in Indices : ProbeAt(m, key, n).state # "Occupied"}
                     \cup {Probes(m, key)})
      index == (probe_start(m, key) + n) % Capacity
  IN  IF n = Capacity \/ Holds(ProbeAt(m, key, n), key)
      THEN [ok |-> FALSE, map |-> m]
      ELSE [ok |-> TRUE, map |-> place(m, index, key, value)]

(* Mutant: tombstones are not reused. *)
insert_at_empty(m, key, value) ==
  LET index == (probe_start(m, key) + Probes(m, key)) % Capacity
  IN  IF Found(m, key) \/ Probes(m, key) = Capacity
      THEN [ok |-> FALSE, map |-> m]
      ELSE [ok |-> TRUE, map |-> place(m, index, key, value)]

(* Mutant: a full table is not noticed. *)
insert_when_full(m, key, value) ==
  LET n     == Min(Passed(m, key) \cup {Probes(m, key)})
      index == (probe_start(m, key) + n) % Capacity
  IN  IF Found(m, key)
      THEN [ok |-> FALSE, map |-> m]
      ELSE [ok |-> TRUE, map |-> place(m, index, key, value)]

(* insert: the new key goes into the first tombstone its probe has passed, *)
(* else into the empty slot that ended it; it is refused when the probe    *)
(* meets the key, or neither tombstone nor empty slot.                     *)
insert(m, key, value) ==
  LET n     == Min(Passed(m, key) \cup {Probes(m, key)})
      index == (probe_start(m, key) + n) % Capacity
  IN  IF Found(m, key) \/ n = Capacity
      THEN [ok |-> FALSE, map |-> m]
      ELSE [ok |-> TRUE, map |-> place(m, index, key, value)]

erase(m, key) ==
  LET index == (probe_start(m, key) + Probes(m, key)) % Capacity
  IN  IF ~Found(m, key)
      THEN [ok |-> FALSE, map |-> m]
      ELSE [ok |-> TRUE,
            map |-> [m EXCEPT !.slots[index] = [EmptySlot EXCEPT !.state = "Tombstone"],
                              !.size = @ - 1,
                              !.tombstones = @ + 1]]

-----------------------------------------------------------------------------
MapInit == \E home \in Hashes : map = EmptyMap(home)

Insert(key, value) ==
  /\ map.size < MaxLive
  /\ map' = insert(map, key, value).map

Erase(key) == map' = erase(map, key).map

MapNext ==
  \/ \E k \in Keys, v \in Values : Insert(k, v)
  \/ \E k \in Keys : Erase(k)

MapSpec == MapInit /\ [][MapNext]_map

-----------------------------------------------------------------------------
SlotsIn(m, state) == {i \in Indices : m.slots[i].state = state}

(* The live entries, found by looking at every slot. *)
Content(m) ==
  [k \in {m.slots[i].key : i \in SlotsIn(m, "Occupied")} |->
     m.slots[CHOOSE i \in Indices : Holds(m.slots[i], k)].value]

Abstract == INSTANCE BoundedMap WITH content <- Content(map), Limit <- Capacity

(* Every member keeps the type its declaration gives it, and the counters  *)
(* behind size(), tombstone_count() and load_factor() count what the slots *)
(* say (place, erase).                                                     *)
MapTypeOK ==
  /\ map.slots \in [Indices -> [state : States, key : Keys \cup {0},
                                value : Values \cup {NoValue}]]
  /\ map.home \in Hashes
  /\ map.size = Cardinality(SlotsIn(map, "Occupied"))
  /\ map.tombstones = Cardinality(SlotsIn(map, "Tombstone"))

(* The map implements a bounded partial function, for every hash and every *)
(* history of tombstones: an insert or erase changes one key and never     *)
(* moves, loses or overwrites another.                                     *)
ImplementsMap == Abstract!Spec

(* No key is stored twice: a tombstone near the start of a probe never     *)
(* hides a copy of the key further on (insert, erase).                     *)
NoDuplicates ==
  \A i, j \in SlotsIn(map, "Occupied") :
    map.slots[i].key = map.slots[j].key => i = j

(* No key is stored twice, and find answers the value of every key that is *)
(* stored, wherever collisions and reused tombstones have put it, and      *)
(* nullptr for every other key, for key 0 too, which is also what erase    *)
(* leaves in a tombstone.                                                  *)
FindExact ==
  /\ NoDuplicates
  /\ \A k \in Keys :
       find(map, k) = IF k \in DOMAIN Content(map) THEN Content(map)[k] ELSE NoValue

(* insert refuses a new key only when every slot is occupied, however many *)
(* are tombstones, and erase answers whether the key was there.            *)
AnswersExact ==
  /\ \A k \in Keys, v \in Values :
       insert(map, k, v).ok = Abstract!insert_ok(Content(map), k)
  /\ \A k \in Keys : erase(map, k).ok = Abstract!erase_ok(Content(map), k)
=============================================================================
