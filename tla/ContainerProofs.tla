-------------------------- MODULE ContainerProofs ---------------------------
(***************************************************************************)
(* Proofs about the containers.                                            *)
(*                                                                         *)
(* First the open-addressing map, for every capacity, every set of keys    *)
(* and every hash function.  Then the object pool and the intrusive lists  *)
(* that share its memory, for every capacity and every set of lists: what  *)
(* the walks along the links find (Forward, Backward, FreeChain), what     *)
(* each operation does to the sequence it finds, and from these the        *)
(* invariant PooledInv and both refinements.                               *)
(***************************************************************************)
EXTENDS HashMap, PooledLists, ArithmeticProofs, FiniteSetTheorems, FunctionTheorems

-----------------------------------------------------------------------------
(* The table. *)

LEMMA CapacityType == Capacity \in Nat /\ Capacity >= 1
<1>1. CapacityHint \in Nat
  BY MapAssumption
<1>2. CASE CapacityHint <= 1
  BY <1>2 DEF Capacity, round_up_to_power_of_two
<1>3. CASE CapacityHint > 1
  <2>1. Capacity = CHOOSE c \in CapacityHint .. 2 * CapacityHint - 1 : IsPowerOfTwo(c)
    BY <1>1, <1>3 DEF Capacity, round_up_to_power_of_two
  <2>2. \E c \in CapacityHint .. 2 * CapacityHint - 1 : IsPowerOfTwo(c)
    BY <1>1, <1>3, PowerAtLeast
  <2>3. Capacity \in CapacityHint .. 2 * CapacityHint - 1
    BY <2>1, <2>2
  <2> QED BY <1>1, <1>3, <2>3
<1> QED BY <1>1, <1>2, <1>3

LEMMA CapacityFits == Capacity >= CapacityHint
<1>1. CapacityHint \in Nat
  BY MapAssumption
<1>2. CASE CapacityHint <= 1
  BY <1>1, <1>2 DEF Capacity, round_up_to_power_of_two
<1>3. CASE CapacityHint > 1
  <2>1. Capacity = CHOOSE c \in CapacityHint .. 2 * CapacityHint - 1 : IsPowerOfTwo(c)
    BY <1>1, <1>3 DEF Capacity, round_up_to_power_of_two
  <2>2. \E c \in CapacityHint .. 2 * CapacityHint - 1 : IsPowerOfTwo(c)
    BY <1>1, <1>3, PowerAtLeast
  <2>3. Capacity \in CapacityHint .. 2 * CapacityHint - 1
    BY <2>1, <2>2
  <2> QED BY <1>1, <2>3
<1> QED BY <1>1, <1>2, <1>3

(* The index n places after h, and every index is some places after h. *)
Place(h, n) == (h + n) % Capacity

LEMMA PlaceValue ==
  ASSUME NEW h \in Indices, NEW n \in Indices
  PROVE  /\ Place(h, n) \in Indices
         /\ Place(h, n) = IF h + n < Capacity THEN h + n ELSE h + n - Capacity
BY CapacityType DEF Place, Indices

LEMMA PlaceOnto ==
  ASSUME NEW h \in Indices, NEW i \in Indices
  PROVE  \E n \in Indices : Place(h, n) = i
<1>1. CASE h <= i
  <2>1. i - h \in Indices
    BY <1>1, CapacityType DEF Indices
  <2>2. Place(h, i - h) = i
    BY <1>1, <2>1, PlaceValue, CapacityType DEF Indices
  <2> QED BY <2>1, <2>2
<1>2. CASE i < h
  <2>1. i - h + Capacity \in Indices
    BY <1>2, CapacityType DEF Indices
  <2>2. Place(h, i - h + Capacity) = i
    BY <1>2, <2>1, PlaceValue, CapacityType DEF Indices
  <2> QED BY <2>1, <2>2
<1> QED BY <1>1, <1>2, CapacityType DEF Indices

LEMMA PlaceOnce ==
  ASSUME NEW h \in Indices, NEW n \in Indices, NEW j \in Indices,
         Place(h, n) = Place(h, j)
  PROVE  n = j
<1> DEFINE p == Place(h, n)
<1>1. p \in Indices
      /\ p = (IF h + n < Capacity THEN h + n ELSE h + n - Capacity)
  BY PlaceValue
<1>2. p = (IF h + j < Capacity THEN h + j ELSE h + j - Capacity)
  BY PlaceValue
<1> HIDE DEF p
<1> QED BY ONLY <1>1, <1>2, CapacityType, h \in Indices, n \in Indices,
                j \in Indices DEF Indices

(* The least of a set of numbers, where there is one. *)
LEMMA MinIsLeast ==
  ASSUME NEW T \in SUBSET Nat, T # {}
  PROVE  Min(T) \in T /\ \A y \in T : Min(T) <= y
BY LeastNat DEF Min

-----------------------------------------------------------------------------
(***************************************************************************)
(* The inductive invariant.                                                *)
(***************************************************************************)
Slot == [state : States, key : Keys \cup {0}, value : Values \cup {NoValue}]

MapRecord ==
  [slots : [Indices -> Slot], size : Int, tombstones : Int, home : Hashes]

CountsSound(m) ==
  /\ m.size = Cardinality(SlotsIn(m, "Occupied"))
  /\ m.tombstones = Cardinality(SlotsIn(m, "Tombstone"))

(* An occupied slot holds an entry. *)
EntriesSound(m) ==
  \A i \in Indices : m.slots[i].state = "Occupied" =>
    m.slots[i].key \in Keys /\ m.slots[i].value \in Values

UniqueKeys(m) ==
  \A i, j \in SlotsIn(m, "Occupied") :
    m.slots[i].key = m.slots[j].key => i = j

(* No empty slot lies between the home of a key and the slot it is in, so  *)
(* the probe for it does not stop early.                                   *)
Reachable(m) ==
  \A k \in Keys, n \in Indices : Holds(ProbeAt(m, k, n), k) =>
    \A j \in 0 .. n - 1 : ProbeAt(m, k, j).state # "Empty"

MapSound(m) ==
  /\ m \in MapRecord
  /\ CountsSound(m)
  /\ EntriesSound(m)
  /\ UniqueKeys(m)
  /\ Reachable(m)

(* The slot a probe looks at. *)
LEMMA ProbeSlot ==
  ASSUME NEW m \in MapRecord, NEW k \in Keys, NEW n \in Indices
  PROVE  /\ m.home[k] \in Indices
         /\ Place(m.home[k], n) \in Indices
         /\ ProbeAt(m, k, n) = m.slots[Place(m.home[k], n)]
         /\ ProbeAt(m, k, n) \in Slot
<1>1. m.home \in Homes
  BY MapAssumption DEF MapRecord
<1>2. m.home[k] \in Indices
  BY <1>1 DEF Homes
<1>3. Place(m.home[k], n) \in Indices
  BY <1>2, PlaceValue
<1>4. ProbeAt(m, k, n) = m.slots[Place(m.home[k], n)]
  BY DEF ProbeAt, probe_start, Place
<1> QED BY <1>2, <1>3, <1>4 DEF MapRecord

(* Where a probe ends. *)
LEMMA ProbesFacts ==
  ASSUME NEW m \in MapRecord, NEW k \in Keys
  PROVE  /\ Probes(m, k) \in 0 .. Capacity
         /\ \A n \in 0 .. Probes(m, k) - 1 :
              ProbeAt(m, k, n).state # "Empty" /\ ~Holds(ProbeAt(m, k, n), k)
         /\ Probes(m, k) < Capacity =>
              \/ ProbeAt(m, k, Probes(m, k)).state = "Empty"
              \/ Holds(ProbeAt(m, k, Probes(m, k)), k)
<1> DEFINE T == {n \in Indices : \/ ProbeAt(m, k, n).state = "Empty"
                                 \/ Holds(ProbeAt(m, k, n), k)}
<1>1. Capacity \in Nat
  BY CapacityType
<1>2. T \cup {Capacity} \in SUBSET Nat /\ T \cup {Capacity} # {}
  BY <1>1 DEF Indices
<1>3. Probes(m, k) = Min(T \cup {Capacity})
  BY DEF Probes
<1> HIDE DEF T
<1>4. /\ Probes(m, k) \in T \cup {Capacity}
      /\ \A y \in T \cup {Capacity} : Probes(m, k) <= y
  BY <1>2, <1>3, MinIsLeast
<1>5. Probes(m, k) \in 0 .. Capacity
  BY <1>1, <1>4 DEF T, Indices
<1>6. ASSUME NEW n \in 0 .. Probes(m, k) - 1
      PROVE  n \notin T /\ n \in Indices
  BY <1>1, <1>4, <1>5 DEF Indices
<1>7. Probes(m, k) < Capacity => Probes(m, k) \in T
  BY <1>1, <1>4, <1>5
<1> QED BY <1>5, <1>6, <1>7 DEF T

(* A probe finds a key exactly when some slot holds it, and ends there. *)
LEMMA FoundFacts ==
  ASSUME NEW m, MapSound(m), NEW k \in Keys
  PROVE  /\ Found(m, k) <=> \E i \in Indices : Holds(m.slots[i], k)
         /\ Found(m, k) => /\ Probes(m, k) \in Indices
                           /\ Holds(ProbeAt(m, k, Probes(m, k)), k)
<1> DEFINE p == Probes(m, k)
<1>0. m \in MapRecord /\ Capacity \in Nat
  BY CapacityType DEF MapSound
<1>1. /\ p \in 0 .. Capacity
      /\ \A n \in 0 .. p - 1 :
           ProbeAt(m, k, n).state # "Empty" /\ ~Holds(ProbeAt(m, k, n), k)
      /\ p < Capacity => \/ ProbeAt(m, k, p).state = "Empty"
                         \/ Holds(ProbeAt(m, k, p), k)
  BY <1>0, ProbesFacts
<1>2. ASSUME Found(m, k)
      PROVE  p \in Indices /\ Holds(ProbeAt(m, k, p), k)
  BY <1>0, <1>1, <1>2 DEF Found, Indices
<1>3. ASSUME Found(m, k)
      PROVE  \E i \in Indices : Holds(m.slots[i], k)
  BY <1>0, <1>2, <1>3, ProbeSlot
<1>4. ASSUME NEW i \in Indices, Holds(m.slots[i], k)
      PROVE  Found(m, k)
  <2>1. m.home[k] \in Indices
    <3>1. 0 \in Indices
      BY <1>0, CapacityType DEF Indices
    <3> QED BY <1>0, <3>1, ProbeSlot
  <2>2. PICK n \in Indices : Place(m.home[k], n) = i
    BY <2>1, PlaceOnto
  <2>3. Holds(ProbeAt(m, k, n), k)
    BY <1>0, <1>4, <2>2, ProbeSlot
  <2>4. p <= n
    BY <1>0, <1>1, <2>3 DEF Indices
  <2>5. ProbeAt(m, k, p).state # "Empty"
    <3>1. CASE p < n
      BY <1>1, <2>3, <3>1 DEF MapSound, Reachable, Indices
    <3>2. CASE p = n
      BY <2>3, <3>2 DEF Holds
    <3> QED BY <1>1, <2>4, <3>1, <3>2 DEF Indices
  <2> QED BY <1>0, <1>1, <2>4, <2>5 DEF Found, Indices
<1> QED BY <1>2, <1>3, <1>4

-----------------------------------------------------------------------------
(* Writing one slot. *)

Written(m, i, slot, size, tombstones) ==
  [m EXCEPT !.slots[i] = slot, !.size = size, !.tombstones = tombstones]

LEMMA WrittenFields ==
  ASSUME NEW m \in MapRecord, NEW i \in Indices, NEW slot \in Slot,
         NEW size \in Int, NEW tombstones \in Int,
         NEW w, w = Written(m, i, slot, size, tombstones)
  PROVE  /\ w \in MapRecord
         /\ w.home = m.home /\ w.size = size /\ w.tombstones = tombstones
         /\ w.slots[i] = slot
         /\ \A j \in Indices : j # i => w.slots[j] = m.slots[j]
<1>1. w = [slots |-> [m.slots EXCEPT ![i] = slot], size |-> size,
           tombstones |-> tombstones, home |-> m.home]
  BY DEF Written, MapRecord
<1>2. m.slots \in [Indices -> Slot] /\ m.home \in Hashes
  BY DEF MapRecord
<1> QED BY <1>1, <1>2 DEF MapRecord

LEMMA SlotsInFinite ==
  ASSUME NEW m, NEW s
  PROVE  IsFiniteSet(SlotsIn(m, s)) /\ Cardinality(SlotsIn(m, s)) \in Nat
<1>1. IsFiniteSet(Indices)
  BY CapacityType, FS_Interval DEF Indices
<1>2. SlotsIn(m, s) \in SUBSET Indices
  BY DEF SlotsIn
<1>3. IsFiniteSet(SlotsIn(m, s))
  BY <1>1, <1>2, FS_Subset
<1> QED BY <1>3, FS_CardinalityType

(* A slot that is not occupied and is not skipped by the key's probe takes *)
(* a new key: the other keys stay where their probes find them.            *)
LEMMA PlaceSound ==
  ASSUME NEW m, MapSound(m), NEW key \in Keys, NEW value \in Values,
         ~Found(m, key), NEW n \in Indices, n <= Probes(m, key),
         ProbeAt(m, key, n).state # "Occupied",
         NEW i, i = Place(m.home[key], n), NEW w, w = place(m, i, key, value)
  PROVE  MapSound(w)
<1> DEFINE slot == [state |-> "Occupied", key |-> key, value |-> value]
           was  == m.slots[i].state
           ts   == IF was = "Tombstone" THEN m.tombstones - 1 ELSE m.tombstones
<1>1. m \in MapRecord
  BY DEF MapSound
<1>2. i \in Indices /\ m.home[key] \in Indices /\ was # "Occupied" /\ was \in States
  BY <1>1, ProbeSlot DEF Slot
<1>3. slot \in Slot /\ m.size \in Int /\ m.tombstones \in Int /\ ts \in Int
  BY <1>1 DEF Slot, States, MapRecord
<1>4. w = Written(m, i, slot, m.size + 1, ts)
  BY <1>1 DEF place, Written, MapRecord
<1>5. /\ w \in MapRecord
      /\ w.home = m.home /\ w.size = m.size + 1 /\ w.tombstones = ts
      /\ w.slots[i] = slot
      /\ \A j \in Indices : j # i => w.slots[j] = m.slots[j]
  <2>1. m.size + 1 \in Int
    BY <1>3
  <2> HIDE DEF slot, ts, was
  <2> QED BY ONLY <2>1, <1>1, <1>2, <1>3, <1>4, WrittenFields
<1>6. CountsSound(w)
  <2>1. SlotsIn(w, "Occupied") = SlotsIn(m, "Occupied") \cup {i}
    BY <1>2, <1>5 DEF SlotsIn
  <2>2. SlotsIn(w, "Tombstone") = SlotsIn(m, "Tombstone") \ {i}
    BY <1>2, <1>5 DEF SlotsIn
  <2>3. i \notin SlotsIn(m, "Occupied")
        /\ (i \in SlotsIn(m, "Tombstone") <=> was = "Tombstone")
    BY <1>2 DEF SlotsIn
  <2>4. Cardinality(SlotsIn(w, "Occupied")) = Cardinality(SlotsIn(m, "Occupied")) + 1
    BY <2>1, <2>3, SlotsInFinite, FS_AddElement
  <2>5. Cardinality(SlotsIn(w, "Tombstone"))
          = IF was = "Tombstone" THEN Cardinality(SlotsIn(m, "Tombstone")) - 1
            ELSE Cardinality(SlotsIn(m, "Tombstone"))
    BY <2>2, <2>3, SlotsInFinite, FS_RemoveElement
  <2> QED BY <1>5, <2>4, <2>5 DEF MapSound, CountsSound
<1>7. EntriesSound(w)
  BY <1>5 DEF EntriesSound, MapSound
<1>8. UniqueKeys(w)
  <2>1. \A j \in Indices : ~Holds(m.slots[j], key)
    BY FoundFacts
  <2> SUFFICES ASSUME NEW a \in SlotsIn(w, "Occupied"),
                      NEW b \in SlotsIn(w, "Occupied"),
                      w.slots[a].key = w.slots[b].key
               PROVE  a = b
    BY DEF UniqueKeys
  <2>2. a \in Indices /\ b \in Indices
    BY DEF SlotsIn
  <2>3. CASE a # i /\ b # i
    BY <1>5, <2>2, <2>3 DEF SlotsIn, MapSound, UniqueKeys
  <2>4. CASE a = i /\ b # i
    <3>1. Holds(m.slots[b], key)
      BY <1>5, <2>2, <2>4 DEF SlotsIn, Holds
    <3> QED BY <2>1, <2>2, <3>1
  <2>5. CASE a # i /\ b = i
    <3>1. Holds(m.slots[a], key)
      BY <1>5, <2>2, <2>5 DEF SlotsIn, Holds
    <3> QED BY <2>1, <2>2, <3>1
  <2> QED BY <2>3, <2>4, <2>5
<1>9. Reachable(w)
  <2> SUFFICES ASSUME NEW k \in Keys, NEW d \in Indices,
                      Holds(ProbeAt(w, k, d), k), NEW j \in 0 .. d - 1
               PROVE  ProbeAt(w, k, j).state # "Empty"
    BY DEF Reachable
  <2>1. j \in Indices /\ Capacity \in Nat
    BY CapacityType DEF Indices
  <2>2. /\ ProbeAt(w, k, d) = w.slots[Place(m.home[k], d)]
        /\ ProbeAt(w, k, j) = w.slots[Place(m.home[k], j)]
        /\ ProbeAt(m, k, d) = m.slots[Place(m.home[k], d)]
        /\ ProbeAt(m, k, j) = m.slots[Place(m.home[k], j)]
        /\ Place(m.home[k], d) \in Indices /\ Place(m.home[k], j) \in Indices
    BY <1>1, <1>5, <2>1, ProbeSlot
  <2>3. CASE Place(m.home[k], j) = i
    BY <1>5, <2>2, <2>3
  <2>4. CASE Place(m.home[k], j) # i
    <3>1. SUFFICES ProbeAt(m, k, j).state # "Empty"
      BY <1>5, <2>2, <2>4
    <3>2. CASE Place(m.home[k], d) # i
      <4>1. Holds(ProbeAt(m, k, d), k)
        BY <1>5, <2>2, <3>2
      <4> QED BY <4>1 DEF MapSound, Reachable
    <3>3. CASE Place(m.home[k], d) = i
      <4>1. k = key
        BY <1>5, <2>2, <3>3 DEF Holds
      <4>2. d = n
        BY <1>2, <3>3, <4>1, PlaceOnce
      <4>3. j \in 0 .. Probes(m, key) - 1
        <5>1. Probes(m, key) \in 0 .. Capacity
          BY <1>1, ProbesFacts
        <5> QED BY <2>1, <4>2, <5>1 DEF Indices
      <4> QED BY <1>1, <4>1, <4>3, ProbesFacts
    <3> QED BY <3>2, <3>3
  <2> QED BY <2>3, <2>4
<1> QED BY <1>5, <1>6, <1>7, <1>8, <1>9 DEF MapSound

-----------------------------------------------------------------------------
(* insert and erase. *)

(* insert refuses a key that is there and a table that is full; otherwise  *)
(* it places the key in the first slot of its probe that is not occupied.  *)
LEMMA InsertFacts ==
  ASSUME NEW m, MapSound(m), NEW key \in Keys, NEW value \in Values,
         NEW c, c = insert(m, key, value)
  PROVE  \/ /\ c.ok = FALSE /\ c.map = m
            /\ \/ Found(m, key)
               \/ \A i \in Indices : m.slots[i].state = "Occupied"
         \/ /\ c.ok = TRUE /\ ~Found(m, key)
            /\ \E n \in Indices :
                 /\ n <= Probes(m, key)
                 /\ ProbeAt(m, key, n).state # "Occupied"
                 /\ c.map = place(m, Place(m.home[key], n), key, value)
<1> DEFINE p == Probes(m, key)
           T == Passed(m, key)
           n == Min(T \cup {p})
<1>1. m \in MapRecord /\ Capacity \in Nat
  BY CapacityType DEF MapSound
<1>2. /\ p \in 0 .. Capacity
      /\ \A d \in 0 .. p - 1 :
           ProbeAt(m, key, d).state # "Empty" /\ ~Holds(ProbeAt(m, key, d), key)
      /\ p < Capacity => \/ ProbeAt(m, key, p).state = "Empty"
                         \/ Holds(ProbeAt(m, key, p), key)
  BY <1>1, ProbesFacts
<1>3. T \in SUBSET (0 .. p - 1)
      /\ \A d \in 0 .. p - 1 : d \in T <=> ProbeAt(m, key, d).state = "Tombstone"
  BY DEF Passed
<1>4. c = IF Found(m, key) \/ n = Capacity
          THEN [ok |-> FALSE, map |-> m]
          ELSE [ok |-> TRUE, map |-> place(m, Place(m.home[key], n), key, value)]
  BY DEF insert, Place, probe_start
<1> HIDE DEF p, T
<1>5. n \in T \cup {p} /\ \A y \in T \cup {p} : n <= y
  <2>1. T \cup {p} \in SUBSET Nat /\ T \cup {p} # {}
    BY <1>1, <1>2, <1>3
  <2> QED BY <2>1, MinIsLeast
<1> HIDE DEF n
<1>6. n \in 0 .. Capacity /\ n <= p
  BY <1>1, <1>2, <1>3, <1>5
<1>7. CASE Found(m, key)
  BY <1>4, <1>7
<1>8. CASE ~Found(m, key) /\ n = Capacity
  <2>1. p = Capacity /\ T = {}
    BY <1>1, <1>2, <1>3, <1>5, <1>8
  <2>2. ASSUME NEW i \in Indices
        PROVE  m.slots[i].state = "Occupied"
    <3>1. 0 \in Indices
      BY CapacityType DEF Indices
    <3>2. PICK d \in Indices : Place(m.home[key], d) = i
      BY <1>1, <3>1, PlaceOnto, ProbeSlot
    <3>3. ProbeAt(m, key, d) = m.slots[i] /\ ProbeAt(m, key, d) \in Slot
      BY <1>1, <3>2, ProbeSlot
    <3>4. d \in 0 .. p - 1
      BY <1>1, <2>1 DEF Indices
    <3>5. ProbeAt(m, key, d).state # "Empty"
          /\ ProbeAt(m, key, d).state # "Tombstone"
      BY <1>2, <1>3, <2>1, <3>4
    <3> QED BY <3>3, <3>5 DEF Slot, States
  <2> QED BY <1>4, <1>8, <2>2
<1>9. CASE ~Found(m, key) /\ n # Capacity
  <2>1. n \in Indices
    BY <1>1, <1>6, <1>9 DEF Indices
  <2>2. ProbeAt(m, key, n).state # "Occupied"
    <3>1. CASE n \in T
      BY <1>3, <3>1
    <3>2. CASE n = p
      <4>1. p < Capacity
        BY <1>1, <1>2, <1>9, <3>2
      <4>2. ProbeAt(m, key, p).state = "Empty"
        BY <1>9, <4>1 DEF Found, p
      <4> QED BY <3>2, <4>2
    <3> QED BY <1>5, <3>1, <3>2
  <2> QED BY <1>4, <1>6, <1>9, <2>1, <2>2 DEF p
<1> QED BY <1>7, <1>8, <1>9

LEMMA InsertSound ==
  ASSUME NEW m, MapSound(m), NEW key \in Keys, NEW value \in Values
  PROVE  MapSound(insert(m, key, value).map)
<1> DEFINE c == insert(m, key, value)
<1>0. \/ c.map = m
      \/ /\ ~Found(m, key)
         /\ \E n \in Indices :
              /\ n <= Probes(m, key)
              /\ ProbeAt(m, key, n).state # "Occupied"
              /\ c.map = place(m, Place(m.home[key], n), key, value)
  BY InsertFacts
<1> SUFFICES MapSound(c.map)
  OBVIOUS
<1> HIDE DEF c
<1>1. CASE c.map = m
  BY <1>1
<1>2. CASE /\ ~Found(m, key)
           /\ \E n \in Indices :
                /\ n <= Probes(m, key)
                /\ ProbeAt(m, key, n).state # "Occupied"
                /\ c.map = place(m, Place(m.home[key], n), key, value)
  <2>1. PICK n \in Indices :
               /\ n <= Probes(m, key)
               /\ ProbeAt(m, key, n).state # "Occupied"
               /\ c.map = place(m, Place(m.home[key], n), key, value)
    BY <1>2
  <2> QED BY <1>2, <2>1, PlaceSound
<1> QED BY <1>0, <1>1, <1>2

(* What erase leaves in the slot. *)
Buried == [state |-> "Tombstone", key |-> 0, value |-> NoValue]

(* erase buries the slot its probe ends at, if that holds the key. *)
LEMMA EraseFacts ==
  ASSUME NEW m, MapSound(m), NEW key \in Keys, NEW c, c = erase(m, key)
  PROVE  \/ c.ok = FALSE /\ c.map = m /\ ~Found(m, key)
         \/ /\ c.ok = TRUE /\ Found(m, key)
            /\ \E i \in Indices :
                 /\ Holds(m.slots[i], key)
                 /\ c.map = Written(m, i, Buried, m.size - 1, m.tombstones + 1)
<1> DEFINE i == Place(m.home[key], Probes(m, key))
<1>1. m \in MapRecord
  BY DEF MapSound
<1>2. CASE ~Found(m, key)
  BY <1>2 DEF erase
<1>3. CASE Found(m, key)
  <2>1. Probes(m, key) \in Indices /\ Holds(ProbeAt(m, key, Probes(m, key)), key)
    BY <1>3, FoundFacts
  <2>2. i \in Indices /\ Holds(m.slots[i], key)
    BY <1>1, <2>1, ProbeSlot
  <2>3. [EmptySlot EXCEPT !.state = "Tombstone"] = Buried
    BY DEF EmptySlot, Buried
  <2>4. c = [ok |-> TRUE,
             map |-> [m EXCEPT !.slots[i] = [EmptySlot EXCEPT !.state = "Tombstone"],
                               !.size = @ - 1,
                               !.tombstones = @ + 1]]
    BY <1>3 DEF erase, Place, probe_start
  <2> HIDE DEF i
  <2>5. c.map = [m EXCEPT !.slots[i] = Buried, !.size = @ - 1, !.tombstones = @ + 1]
    BY ONLY <2>3, <2>4
  <2>6. c.map = Written(m, i, Buried, m.size - 1, m.tombstones + 1)
    BY ONLY <1>1, <2>5 DEF Written, MapRecord
  <2> QED BY <1>3, <2>2, <2>4, <2>6
<1> QED BY <1>2, <1>3

LEMMA EraseSound ==
  ASSUME NEW m, MapSound(m), NEW key \in Keys
  PROVE  MapSound(erase(m, key).map)
<1> DEFINE w == erase(m, key).map
<1>1. CASE w = m
  BY <1>1
<1>2. ASSUME NEW i \in Indices, Holds(m.slots[i], key),
             w = Written(m, i, Buried, m.size - 1, m.tombstones + 1)
      PROVE  MapSound(w)
  <2> HIDE DEF w
  <2>1. m \in MapRecord
    BY DEF MapSound
  <2>2. Buried \in Slot /\ m.size - 1 \in Int /\ m.tombstones + 1 \in Int
    BY <2>1 DEF Buried, Slot, States, MapRecord
  <2>3. /\ w \in MapRecord
        /\ w.home = m.home /\ w.size = m.size - 1
        /\ w.tombstones = m.tombstones + 1
        /\ w.slots[i] = Buried
        /\ \A j \in Indices : j # i => w.slots[j] = m.slots[j]
    BY <1>2, <2>1, <2>2, WrittenFields
  <2>4. CountsSound(w)
    <3>1. SlotsIn(w, "Occupied") = SlotsIn(m, "Occupied") \ {i}
      BY <2>3 DEF SlotsIn, Buried
    <3>2. SlotsIn(w, "Tombstone") = SlotsIn(m, "Tombstone") \cup {i}
      BY <2>3 DEF SlotsIn, Buried
    <3>3. i \in SlotsIn(m, "Occupied") /\ i \notin SlotsIn(m, "Tombstone")
      BY <1>2 DEF SlotsIn, Holds
    <3>4. Cardinality(SlotsIn(w, "Occupied")) = Cardinality(SlotsIn(m, "Occupied")) - 1
      BY <3>1, <3>3, SlotsInFinite, FS_RemoveElement
    <3>5. Cardinality(SlotsIn(w, "Tombstone")) = Cardinality(SlotsIn(m, "Tombstone")) + 1
      BY <3>2, <3>3, SlotsInFinite, FS_AddElement
    <3> QED BY <2>3, <3>4, <3>5 DEF MapSound, CountsSound
  <2>5. EntriesSound(w)
    BY <2>3 DEF EntriesSound, MapSound, Buried
  <2>6. UniqueKeys(w)
    BY <2>3 DEF UniqueKeys, MapSound, SlotsIn, Buried
  <2>7. Reachable(w)
    <3> SUFFICES ASSUME NEW k \in Keys, NEW d \in Indices,
                        Holds(ProbeAt(w, k, d), k), NEW j \in 0 .. d - 1
                 PROVE  ProbeAt(w, k, j).state # "Empty"
      BY DEF Reachable
    <3>1. j \in Indices
      BY CapacityType DEF Indices
    <3>2. /\ ProbeAt(w, k, d) = w.slots[Place(m.home[k], d)]
          /\ ProbeAt(w, k, j) = w.slots[Place(m.home[k], j)]
          /\ ProbeAt(m, k, d) = m.slots[Place(m.home[k], d)]
          /\ ProbeAt(m, k, j) = m.slots[Place(m.home[k], j)]
          /\ Place(m.home[k], d) \in Indices /\ Place(m.home[k], j) \in Indices
      <4>1. w \in MapRecord /\ m \in MapRecord /\ w.home = m.home
        BY <2>1, <2>3
      <4>2. /\ ProbeAt(m, k, d) = m.slots[Place(m.home[k], d)]
            /\ ProbeAt(m, k, j) = m.slots[Place(m.home[k], j)]
            /\ Place(m.home[k], d) \in Indices /\ Place(m.home[k], j) \in Indices
        BY ONLY <4>1, <3>1, ProbeSlot, k \in Keys, d \in Indices
      <4>3. /\ ProbeAt(w, k, d) = w.slots[Place(w.home[k], d)]
            /\ ProbeAt(w, k, j) = w.slots[Place(w.home[k], j)]
        BY ONLY <4>1, <3>1, ProbeSlot, k \in Keys, d \in Indices
      <4> QED BY ONLY <4>1, <4>2, <4>3
    <3>3. Holds(ProbeAt(m, k, d), k)
      BY <2>3, <3>2 DEF Holds, Buried
    <3>4. ProbeAt(m, k, j).state # "Empty"
      BY <3>3 DEF MapSound, Reachable
    <3> QED BY <2>3, <3>2, <3>4 DEF Buried
  <2> QED BY <2>3, <2>4, <2>5, <2>6, <2>7 DEF MapSound
<1> QED BY <1>1, <1>2, EraseFacts

-----------------------------------------------------------------------------
LEMMA EmptySound ==
  ASSUME NEW home \in Hashes
  PROVE  MapSound(EmptyMap(home))
<1> DEFINE m == EmptyMap(home)
<1>1. EmptySlot \in Slot
  BY DEF EmptySlot, Slot, States
<1>2. m \in MapRecord /\ m.size = 0 /\ m.tombstones = 0
      /\ \A i \in Indices : m.slots[i] = EmptySlot
  BY <1>1 DEF EmptyMap, MapRecord
<1> HIDE DEF m
<1>3. SlotsIn(m, "Occupied") = {} /\ SlotsIn(m, "Tombstone") = {}
  BY <1>2 DEF SlotsIn, EmptySlot
<1>4. CountsSound(m)
  BY <1>2, <1>3, FS_EmptySet DEF CountsSound
<1>5. EntriesSound(m) /\ UniqueKeys(m)
  BY <1>2, <1>3 DEF EntriesSound, UniqueKeys, EmptySlot
<1>6. Reachable(m)
  <2>1. ASSUME NEW k \in Keys, NEW n \in Indices
        PROVE  ~Holds(ProbeAt(m, k, n), k)
    BY <1>2, ProbeSlot DEF Holds, EmptySlot
  <2> QED BY <2>1 DEF Reachable
<1>7. MapSound(m)
  BY <1>2, <1>4, <1>5, <1>6 DEF MapSound
<1> QED BY <1>7 DEF m

LEMMA MapStepSound ==
  ASSUME MapSound(map), [MapNext]_map
  PROVE  MapSound(map')
BY InsertSound, EraseSound DEF MapNext, Insert, Erase

LEMMA MapInvariant == MapSpec => []MapSound(map)
<1>1. MapInit => MapSound(map)
  BY EmptySound DEF MapInit
<1>2. MapSound(map) /\ [MapNext]_map => MapSound(map)'
  BY MapStepSound
<1> QED BY <1>1, <1>2, PTL DEF MapSpec

(* Every slot keeps its type and size() and tombstone_count() count the    *)
(* slots, for every capacity, hash and history of inserts and erases.      *)
THEOREM MapTypeCorrect == MapSpec => []MapTypeOK
<1>1. MapSound(map) => MapTypeOK
  BY DEF MapSound, MapTypeOK, MapRecord, CountsSound, Slot
<1> QED BY <1>1, MapInvariant, PTL

-----------------------------------------------------------------------------
(* The map as a partial function. *)

(* The live entries are what the slots hold. *)
LEMMA ContentFacts ==
  ASSUME NEW m, MapSound(m)
  PROVE  /\ \A k : k \in DOMAIN Content(m) <=>
                     \E i \in Indices : Holds(m.slots[i], k)
         /\ DOMAIN Content(m) \subseteq Keys
         /\ \A k : \A i \in Indices : Holds(m.slots[i], k) =>
              Content(m)[k] = m.slots[i].value
<1> DEFINE D == {m.slots[i].key : i \in SlotsIn(m, "Occupied")}
<1>1. DOMAIN Content(m) = D
      /\ \A k \in D :
           Content(m)[k] = m.slots[CHOOSE i \in Indices : Holds(m.slots[i], k)].value
  BY DEF Content
<1>2. ASSUME NEW k
      PROVE  k \in D <=> \E i \in Indices : Holds(m.slots[i], k)
  BY DEF SlotsIn, Holds
<1>3. D \subseteq Keys
  BY DEF SlotsIn, MapSound, EntriesSound
<1>4. ASSUME NEW k, NEW i \in Indices, Holds(m.slots[i], k)
      PROVE  Content(m)[k] = m.slots[i].value
  <2>1. \A j \in Indices : Holds(m.slots[j], k) => j = i
    BY <1>4 DEF Holds, SlotsIn, MapSound, UniqueKeys
  <2>2. (CHOOSE j \in Indices : Holds(m.slots[j], k)) = i
    BY <1>4, <2>1
  <2>3. k \in D
    BY <1>2, <1>4
  <2> HIDE DEF D
  <2> QED BY <1>1, <2>2, <2>3
<1> QED BY <1>1, <1>2, <1>3, <1>4

(* find answers what the slots hold. *)
LEMMA FindFacts ==
  ASSUME NEW m, MapSound(m), NEW k \in Keys
  PROVE  find(m, k) = IF k \in DOMAIN Content(m) THEN Content(m)[k] ELSE NoValue
<1>1. m \in MapRecord
  BY DEF MapSound
<1>2. CASE Found(m, k)
  <2> DEFINE i == Place(m.home[k], Probes(m, k))
  <2>1. Probes(m, k) \in Indices /\ Holds(ProbeAt(m, k, Probes(m, k)), k)
    BY <1>2, FoundFacts
  <2>2. i \in Indices /\ ProbeAt(m, k, Probes(m, k)) = m.slots[i]
    BY <1>1, <2>1, ProbeSlot
  <2> HIDE DEF i
  <2>3. k \in DOMAIN Content(m) /\ Content(m)[k] = m.slots[i].value
    <3>1. Holds(m.slots[i], k)
      BY <2>1, <2>2
    <3> QED BY <2>2, <3>1, ContentFacts
  <2> QED BY <1>2, <2>2, <2>3 DEF find
<1>3. CASE ~Found(m, k)
  <2>1. k \notin DOMAIN Content(m)
    BY <1>3, FoundFacts, ContentFacts
  <2> QED BY <1>3, <2>1 DEF find
<1> QED BY <1>2, <1>3

(* As many keys are live as slots are occupied. *)
LEMMA LiveCount ==
  ASSUME NEW m, MapSound(m)
  PROVE  /\ Cardinality(DOMAIN Content(m)) = Cardinality(SlotsIn(m, "Occupied"))
         /\ Cardinality(DOMAIN Content(m)) < Capacity <=>
              \E i \in Indices : m.slots[i].state # "Occupied"
<1> DEFINE Occ == SlotsIn(m, "Occupied")
           f == [i \in Occ |-> m.slots[i].key]
           D == DOMAIN Content(m)
<1>1. f \in Bijection(Occ, D)
  <2>1. \A i \in Occ : m.slots[i].key \in D
    BY ContentFacts DEF SlotsIn, Holds
  <2>2. \A i, j \in Occ : m.slots[i].key = m.slots[j].key => i = j
    BY DEF MapSound, UniqueKeys
  <2>3. \A k \in D : \E i \in Occ : m.slots[i].key = k
    BY ContentFacts DEF SlotsIn, Holds
  <2> HIDE DEF Occ, D
  <2>4. f \in [Occ -> D] /\ (\A i \in Occ : f[i] = m.slots[i].key)
    BY <2>1
  <2> HIDE DEF f
  <2>5. f \in Injection(Occ, D)
    BY <2>2, <2>4 DEF Injection, IsInjective
  <2>6. f \in Surjection(Occ, D)
    BY <2>3, <2>4 DEF Surjection
  <2> QED BY <2>5, <2>6 DEF Bijection
<1>2. IsFiniteSet(Occ) /\ Cardinality(Occ) \in Nat
  BY SlotsInFinite
<1>3. Cardinality(D) = Cardinality(Occ)
  BY <1>1, <1>2, FS_Bijection DEF ExistsBijection
<1>4. IsFiniteSet(Indices) /\ Cardinality(Indices) = Capacity
  BY CapacityType, FS_Interval DEF Indices
<1>5. Occ \in SUBSET Indices
  BY DEF SlotsIn
<1>6. Cardinality(Occ) <= Capacity /\ (Cardinality(Occ) = Capacity <=> Occ = Indices)
  BY <1>4, <1>5, FS_Subset
<1>7. Occ = Indices <=> \A i \in Indices : m.slots[i].state = "Occupied"
  BY DEF SlotsIn
<1> HIDE DEF Occ, D
<1>8. Cardinality(D) < Capacity <=> \E i \in Indices : m.slots[i].state # "Occupied"
  BY <1>2, <1>3, <1>6, <1>7, CapacityType
<1> QED BY <1>3, <1>8 DEF Occ, D

(* The answers of insert and erase. *)
LEMMA AnswerFacts ==
  ASSUME NEW m, MapSound(m), NEW k \in Keys
  PROVE  /\ \A v \in Values :
              insert(m, k, v).ok = Abstract!insert_ok(Content(m), k)
         /\ erase(m, k).ok = Abstract!erase_ok(Content(m), k)
<1>1. Found(m, k) <=> k \in DOMAIN Content(m)
  BY FoundFacts, ContentFacts
<1>2. ASSUME NEW v \in Values
      PROVE  insert(m, k, v).ok = Abstract!insert_ok(Content(m), k)
  <2> DEFINE c == insert(m, k, v)
  <2>0. c = insert(m, k, v)
    OBVIOUS
  <2> HIDE DEF c
  <2>1. \/ /\ c.ok = FALSE
           /\ Found(m, k) \/ \A i \in Indices : m.slots[i].state = "Occupied"
        \/ /\ c.ok = TRUE /\ ~Found(m, k)
           /\ \E n \in Indices : ProbeAt(m, k, n).state # "Occupied"
    BY <2>0, <1>2, InsertFacts
  <2>2. ASSUME NEW n \in Indices, ProbeAt(m, k, n).state # "Occupied"
        PROVE  \E i \in Indices : m.slots[i].state # "Occupied"
    BY <2>2, ProbeSlot DEF MapSound
  <2>3. Abstract!insert_ok(Content(m), k)
          <=> ~Found(m, k) /\ \E i \in Indices : m.slots[i].state # "Occupied"
    <3>1. Abstract!insert_ok(Content(m), k)
            <=> k \notin DOMAIN Content(m) /\ Cardinality(DOMAIN Content(m)) < Capacity
      BY DEF Abstract!insert_ok, Abstract!Cardinality, Cardinality
    <3>2. Cardinality(DOMAIN Content(m)) < Capacity
            <=> \E i \in Indices : m.slots[i].state # "Occupied"
      BY LiveCount
    <3> QED BY ONLY <1>1, <3>1, <3>2
  <2>4. Abstract!insert_ok(Content(m), k) \in BOOLEAN
    BY DEF Abstract!insert_ok
  <2> HIDE DEF c
  <2>5. c.ok = Abstract!insert_ok(Content(m), k)
    <3>1. CASE c.ok = FALSE
      BY <2>1, <2>2, <2>3, <2>4, <3>1
    <3>2. CASE c.ok = TRUE
      BY <2>1, <2>2, <2>3, <2>4, <3>2
    <3> QED BY <2>1, <3>1, <3>2
  <2> QED BY <2>5 DEF c
<1>3. erase(m, k).ok = Abstract!erase_ok(Content(m), k)
  <2> DEFINE c == erase(m, k)
  <2>1. (c.ok = FALSE /\ ~Found(m, k)) \/ (c.ok = TRUE /\ Found(m, k))
    BY EraseFacts
  <2>2. Abstract!erase_ok(Content(m), k) \in BOOLEAN
        /\ (Abstract!erase_ok(Content(m), k) <=> k \in DOMAIN Content(m))
    BY DEF Abstract!erase_ok
  <2> HIDE DEF c
  <2>3. c.ok = Abstract!erase_ok(Content(m), k)
    BY ONLY <1>1, <2>1, <2>2
  <2> QED BY <2>3 DEF c
<1> QED BY <1>2, <1>3

(* No key is ever stored twice, and find answers the value of every stored *)
(* key and nullptr for every other, whatever collisions and tombstones the *)
(* history has left, for every hash function and every capacity.           *)
THEOREM MapFinds == MapSpec => []FindExact
<1>1. MapSound(map) => FindExact
  BY FindFacts DEF MapSound, UniqueKeys, FindExact, NoDuplicates
<1> QED BY <1>1, MapInvariant, PTL

(* insert refuses a new key only when every slot is occupied, however many *)
(* tombstones there are, and erase answers whether the key was there.      *)
THEOREM MapAnswers == MapSpec => []AnswersExact
<1>1. MapSound(map) => AnswersExact
  BY AnswerFacts DEF AnswersExact
<1> QED BY <1>1, MapInvariant, PTL

-----------------------------------------------------------------------------
(* Two maps with the same entries are the same partial function. *)
LEMMA SameContent ==
  ASSUME NEW D, NEW f, NEW g, f = [k \in D |-> f[k]], g = [k \in D |-> g[k]],
         \A k \in D : f[k] = g[k]
  PROVE  f = g
OBVIOUS

LEMMA ContentIsFunction ==
  ASSUME NEW m
  PROVE  Content(m) = [k \in DOMAIN Content(m) |-> Content(m)[k]]
BY DEF Content

(* An accepted insert adds one entry and keeps all others. *)
LEMMA InsertContent ==
  ASSUME NEW m, MapSound(m), NEW key \in Keys, NEW value \in Values,
         NEW w, w = insert(m, key, value).map, insert(m, key, value).ok
  PROVE  /\ key \notin DOMAIN Content(m) /\ w.size = m.size + 1
         /\ Content(w) = [k \in DOMAIN Content(m) \cup {key} |->
                            IF k = key THEN value ELSE Content(m)[k]]
<1> DEFINE c == insert(m, key, value)
           F == Content(m)
           G == [k \in DOMAIN F \cup {key} |-> IF k = key THEN value ELSE F[k]]
<1>1. m \in MapRecord
  BY DEF MapSound
<1>2. /\ ~Found(m, key)
      /\ \E n \in Indices : /\ ProbeAt(m, key, n).state # "Occupied"
                            /\ c.map = place(m, Place(m.home[key], n), key, value)
  BY InsertFacts
<1>3. PICK n \in Indices : /\ ProbeAt(m, key, n).state # "Occupied"
                           /\ w = place(m, Place(m.home[key], n), key, value)
  BY <1>2
<1> DEFINE i    == Place(m.home[key], n)
           slot == [state |-> "Occupied", key |-> key, value |-> value]
           ts   == IF m.slots[i].state = "Tombstone" THEN m.tombstones - 1
                   ELSE m.tombstones
<1>4. i \in Indices /\ m.slots[i].state # "Occupied"
  BY <1>1, <1>3, ProbeSlot
<1>5. w = Written(m, i, slot, m.size + 1, ts)
  BY <1>1, <1>3 DEF place, Written, MapRecord
<1>6. slot \in Slot /\ m.size + 1 \in Int /\ ts \in Int
  BY <1>1 DEF Slot, States, MapRecord
<1>7. /\ w.slots[i] = slot /\ w.size = m.size + 1
      /\ \A j \in Indices : j # i => w.slots[j] = m.slots[j]
  <2> HIDE DEF i, slot, ts
  <2> QED BY ONLY <1>1, <1>4, <1>5, <1>6, WrittenFields
<1>8. MapSound(w)
  BY InsertSound
<1>9. \A k : \A j \in Indices :
        Holds(w.slots[j], k) <=> \/ j = i /\ k = key
                                 \/ j # i /\ Holds(m.slots[j], k)
  BY <1>7 DEF Holds
<1>10. \A k : Holds(m.slots[i], k) => FALSE
  BY <1>4 DEF Holds
<1>11. \A k : k \in DOMAIN Content(w) <=> k \in DOMAIN F \/ k = key
  <2>1. \A k : k \in DOMAIN Content(w) <=> \E j \in Indices : Holds(w.slots[j], k)
    BY <1>8, ContentFacts
  <2>2. \A k : k \in DOMAIN F <=> \E j \in Indices : Holds(m.slots[j], k)
    BY ContentFacts
  <2> HIDE DEF i, F
  <2> QED BY <1>4, <1>9, <1>10, <2>1, <2>2
<1>12. key \notin DOMAIN F
  BY <1>2, FoundFacts, ContentFacts
<1>13. ASSUME NEW k \in DOMAIN F \cup {key}
       PROVE  Content(w)[k] = G[k]
  <2>1. CASE k = key
    <3>1. Holds(w.slots[i], key)
      BY <1>7 DEF Holds
    <3>2. Content(w)[key] = w.slots[i].value
      BY <1>4, <1>8, <3>1, ContentFacts
    <3> QED BY <1>7, <2>1, <3>2
  <2>2. CASE k # key
    <3>1. PICK j \in Indices : Holds(m.slots[j], k)
      BY <2>2, ContentFacts
    <3>2. j # i
      BY <1>10, <3>1
    <3>3. Holds(w.slots[j], k) /\ w.slots[j] = m.slots[j]
      BY <1>7, <3>1, <3>2
    <3>4. Content(w)[k] = w.slots[j].value /\ F[k] = m.slots[j].value
      BY <1>8, <3>1, <3>3, ContentFacts
    <3> QED BY <2>2, <3>3, <3>4
  <2> QED BY <2>1, <2>2
<1>14. Content(w) = G
  <2>1. DOMAIN Content(w) = DOMAIN F \cup {key}
    BY <1>11
  <2>2. Content(w) = [k \in DOMAIN F \cup {key} |-> Content(w)[k]]
    BY <2>1, ContentIsFunction
  <2>3. G = [k \in DOMAIN F \cup {key} |-> G[k]]
    OBVIOUS
  <2> HIDE DEF F, G
  <2> QED BY <1>13, <2>2, <2>3, SameContent
<1> QED BY <1>7, <1>12, <1>14

(* An accepted erase removes one entry and keeps all others. *)
LEMMA EraseContent ==
  ASSUME NEW m, MapSound(m), NEW key \in Keys,
         NEW w, w = erase(m, key).map, erase(m, key).ok
  PROVE  /\ key \in DOMAIN Content(m) /\ w.size = m.size - 1
         /\ Content(w) = [k \in DOMAIN Content(m) \ {key} |-> Content(m)[k]]
<1> DEFINE F == Content(m)
           G == [k \in DOMAIN F \ {key} |-> F[k]]
<1>1. m \in MapRecord
  BY DEF MapSound
<1>2. PICK i \in Indices :
             /\ Holds(m.slots[i], key)
             /\ w = Written(m, i, Buried, m.size - 1, m.tombstones + 1)
  BY EraseFacts
<1>3. Buried \in Slot /\ m.size - 1 \in Int /\ m.tombstones + 1 \in Int
  BY <1>1 DEF Buried, Slot, States, MapRecord
<1>4. /\ w.slots[i] = Buried /\ w.size = m.size - 1
      /\ \A j \in Indices : j # i => w.slots[j] = m.slots[j]
  BY <1>1, <1>2, <1>3, WrittenFields
<1>5. MapSound(w)
  BY EraseSound
<1>6. \A k : \A j \in Indices :
        Holds(w.slots[j], k) <=> j # i /\ Holds(m.slots[j], k)
  BY <1>4 DEF Holds, Buried
<1>7. \A j \in Indices : Holds(m.slots[j], key) => j = i
  BY <1>2 DEF Holds, SlotsIn, MapSound, UniqueKeys
<1>8. \A k : k \in DOMAIN Content(w) <=> k \in DOMAIN F /\ k # key
  <2>1. \A k : k \in DOMAIN Content(w) <=> \E j \in Indices : Holds(w.slots[j], k)
    BY <1>5, ContentFacts
  <2>2. \A k : k \in DOMAIN F <=> \E j \in Indices : Holds(m.slots[j], k)
    BY ContentFacts
  <2>3. \A k : Holds(m.slots[i], k) => k = key
    BY <1>2 DEF Holds
  <2> HIDE DEF F
  <2> QED BY <1>6, <1>7, <2>1, <2>2, <2>3
<1>9. ASSUME NEW k \in DOMAIN F \ {key}
      PROVE  Content(w)[k] = G[k]
  <2>1. PICK j \in Indices : Holds(m.slots[j], k)
    BY ContentFacts
  <2>2. j # i
    BY <1>2, <2>1 DEF Holds
  <2>3. Holds(w.slots[j], k) /\ w.slots[j] = m.slots[j]
    BY <1>4, <2>1, <2>2
  <2>4. Content(w)[k] = w.slots[j].value /\ F[k] = m.slots[j].value
    BY <1>5, <2>1, <2>3, ContentFacts
  <2> QED BY <2>3, <2>4
<1>10. Content(w) = G
  <2>1. DOMAIN Content(w) = DOMAIN F \ {key}
    BY <1>8
  <2>2. Content(w) = [k \in DOMAIN F \ {key} |-> Content(w)[k]]
    BY <2>1, ContentIsFunction
  <2>3. G = [k \in DOMAIN F \ {key} |-> G[k]]
    OBVIOUS
  <2> HIDE DEF F, G
  <2> QED BY <1>9, <2>2, <2>3, SameContent
<1>11. key \in DOMAIN F
  BY <1>2, ContentFacts
<1> QED BY <1>4, <1>10, <1>11

(* The same in terms of what find answers before and after. *)
LEMMA FindIsContent ==
  ASSUME NEW m, MapSound(m)
  PROVE  /\ DOMAIN Content(m) = {k \in Keys : find(m, k) # NoValue}
         /\ \A k \in DOMAIN Content(m) : find(m, k) = Content(m)[k] /\ find(m, k) \in Values
<1>1. ASSUME NEW k \in DOMAIN Content(m)
      PROVE  k \in Keys /\ find(m, k) = Content(m)[k] /\ find(m, k) \in Values
  <2>1. k \in Keys
    BY ContentFacts
  <2>2. PICK i \in Indices : Holds(m.slots[i], k)
    BY ContentFacts
  <2>3. Content(m)[k] = m.slots[i].value /\ m.slots[i].value \in Values
    BY <2>2, ContentFacts DEF Holds, MapSound, EntriesSound
  <2> QED BY <2>1, <2>3, FindFacts
<1>2. ASSUME NEW k \in Keys, k \notin DOMAIN Content(m)
      PROVE  find(m, k) = NoValue
  BY <1>2, FindFacts
<1> QED BY <1>1, <1>2, MapAssumption

LEMMA InsertFinds ==
  ASSUME NEW m, MapSound(m), NEW key \in Keys, NEW value \in Values,
         NEW c, c = insert(m, key, value)
  PROVE  /\ MapSound(c.map)
         /\ c.ok \in BOOLEAN
         /\ c.ok <=> /\ find(m, key) = NoValue
                     /\ Cardinality({k \in Keys : find(m, k) # NoValue}) < Capacity
         /\ c.ok => /\ c.map.size = m.size + 1
                    /\ \A k \in Keys :
                         find(c.map, k) = IF k = key THEN value ELSE find(m, k)
<1>1. MapSound(c.map)
  BY InsertSound
<1>2. c.ok \in BOOLEAN
  BY InsertFacts
<1>3. c.ok <=> /\ find(m, key) = NoValue
               /\ Cardinality({k \in Keys : find(m, k) # NoValue}) < Capacity
  <2>1. c.ok = Abstract!insert_ok(Content(m), key)
    BY AnswerFacts
  <2>2. Abstract!insert_ok(Content(m), key)
          <=> key \notin DOMAIN Content(m) /\ Cardinality(DOMAIN Content(m)) < Capacity
    BY Zenon DEF Abstract!insert_ok, Abstract!Cardinality, Cardinality
  <2> QED BY <1>2, <2>1, <2>2, FindIsContent
<1>4. ASSUME c.ok
      PROVE  /\ c.map.size = m.size + 1
             /\ \A k \in Keys : find(c.map, k) = IF k = key THEN value ELSE find(m, k)
  <2>0. PICK w : w = c.map
    OBVIOUS
  <2>1. /\ key \notin DOMAIN Content(m) /\ w.size = m.size + 1
        /\ Content(w) = [k \in DOMAIN Content(m) \cup {key} |->
                           IF k = key THEN value ELSE Content(m)[k]]
    BY <1>4, <2>0, InsertContent
  <2>2. ASSUME NEW k \in Keys PROVE find(w, k) = IF k = key THEN value ELSE find(m, k)
    <3>1. find(w, k) = IF k \in DOMAIN Content(w) THEN Content(w)[k] ELSE NoValue
      BY <1>1, <2>0, FindFacts
    <3>2. find(m, k) = IF k \in DOMAIN Content(m) THEN Content(m)[k] ELSE NoValue
      BY FindFacts
    <3> QED BY <2>1, <3>1, <3>2
  <2> QED BY <2>0, <2>1, <2>2
<1> QED BY <1>1, <1>2, <1>3, <1>4

LEMMA EraseFinds ==
  ASSUME NEW m, MapSound(m), NEW key \in Keys, find(m, key) # NoValue,
         NEW w, w = erase(m, key).map
  PROVE  /\ MapSound(w) /\ w.size = m.size - 1
         /\ \A k \in Keys : find(w, k) = IF k = key THEN NoValue ELSE find(m, k)
<1>1. MapSound(w)
  BY EraseSound
<1>2. erase(m, key).ok
  <2>1. erase(m, key).ok = Abstract!erase_ok(Content(m), key)
    BY AnswerFacts
  <2>2. key \in DOMAIN Content(m)
    BY FindIsContent
  <2> QED BY <2>1, <2>2 DEF Abstract!erase_ok
<1>3. /\ w.size = m.size - 1
      /\ Content(w) = [k \in DOMAIN Content(m) \ {key} |-> Content(m)[k]]
  BY <1>2, EraseContent
<1>4. ASSUME NEW k \in Keys PROVE find(w, k) = IF k = key THEN NoValue ELSE find(m, k)
  <2>1. find(w, k) = IF k \in DOMAIN Content(w) THEN Content(w)[k] ELSE NoValue
    BY <1>1, FindFacts
  <2>2. find(m, k) = IF k \in DOMAIN Content(m) THEN Content(m)[k] ELSE NoValue
    BY FindFacts
  <2> QED BY <1>3, <2>1, <2>2
<1> QED BY <1>1, <1>3, <1>4

(* A new table finds nothing; size() is the number of keys that are found. *)
LEMMA EmptyFinds ==
  ASSUME NEW home \in Hashes
  PROVE  MapSound(EmptyMap(home)) /\ \A k \in Keys : find(EmptyMap(home), k) = NoValue
<1> DEFINE m == EmptyMap(home)
<1>1. MapSound(m)
  BY EmptySound
<1>2. \A i \in Indices : m.slots[i] = EmptySlot
  BY DEF EmptyMap
<1>3. SlotsIn(m, "Occupied") = {}
  BY <1>2 DEF SlotsIn, EmptySlot
<1>4. DOMAIN Content(m) = {}
  BY <1>3 DEF Content
<1> HIDE DEF m
<1>5. \A k \in Keys : find(m, k) = NoValue
  BY <1>1, <1>4, FindFacts
<1> QED BY <1>1, <1>5 DEF m

LEMMA SizeFinds ==
  ASSUME NEW m, MapSound(m)
  PROVE  m.size = Cardinality({k \in Keys : find(m, k) # NoValue})
BY FindIsContent, LiveCount DEF MapSound, CountsSound

LEMMA InsertSimulates ==
  ASSUME MapSound(map), NEW key \in Keys, NEW value \in Values,
         map' = insert(map, key, value).map
  PROVE  [Abstract!Next]_(Content(map))
<1> DEFINE c == insert(map, key, value)
<1>1. \/ c.ok = FALSE /\ c.map = map
      \/ c.ok = TRUE
  BY InsertFacts
<1>2. CASE map' = map
  BY <1>2 DEF Content, SlotsIn, Holds
<1>3. CASE c.ok = TRUE
  <2>1. Content(map') = [k \in DOMAIN Content(map) \cup {key} |->
                           IF k = key THEN value ELSE Content(map)[k]]
    BY <1>3, InsertContent
  <2>2. Abstract!insert_ok(Content(map), key)
    <3>1. c.ok = Abstract!insert_ok(Content(map), key)
      BY AnswerFacts
    <3> QED BY <1>3, <3>1
  <2>3. Abstract!Insert(key, value)
    BY <2>1, <2>2 DEF Abstract!Insert, Content, SlotsIn, Holds
  <2> QED BY <2>3 DEF Abstract!Next
<1> QED BY <1>1, <1>2, <1>3

LEMMA EraseSimulates ==
  ASSUME MapSound(map), NEW key \in Keys, map' = erase(map, key).map
  PROVE  [Abstract!Next]_(Content(map))
<1> DEFINE c == erase(map, key)
<1>1. \/ c.ok = FALSE /\ c.map = map
      \/ c.ok = TRUE
  BY EraseFacts
<1>2. CASE map' = map
  BY <1>2 DEF Content, SlotsIn, Holds
<1>3. CASE c.ok = TRUE
  <2>1. Content(map') = [k \in DOMAIN Content(map) \ {key} |-> Content(map)[k]]
    BY <1>3, EraseContent
  <2>2. Abstract!erase_ok(Content(map), key)
    <3>1. c.ok = Abstract!erase_ok(Content(map), key)
      BY AnswerFacts
    <3> QED BY <1>3, <3>1
  <2>3. Abstract!Erase(key)
    BY <2>1, <2>2 DEF Abstract!Erase, Content, SlotsIn, Holds
  <2> QED BY <2>3 DEF Abstract!Next
<1> QED BY <1>1, <1>2, <1>3

LEMMA MapInitSimulates == MapInit => Abstract!Init
<1> SUFFICES ASSUME NEW home \in Hashes, map = EmptyMap(home)
             PROVE  Content(map) = [k \in {} |-> 0]
  BY DEF MapInit, Abstract!Init
<1>1. \A i \in Indices : map.slots[i] = EmptySlot
  BY DEF EmptyMap
<1>2. SlotsIn(map, "Occupied") = {}
  BY <1>1 DEF SlotsIn, EmptySlot
<1> QED BY <1>2 DEF Content

(* The table implements a bounded partial function, for every capacity,    *)
(* every hash function and every history of collisions and tombstones: an  *)
(* insert or erase changes one key and never moves, loses or overwrites    *)
(* another.                                                                *)
THEOREM MapIsPartialFunction == MapSpec => ImplementsMap
<1>1. MapInit => Abstract!Init
  BY MapInitSimulates
<1>2. MapSound(map) /\ [MapNext]_map => [Abstract!Next]_(Content(map))
  <2> SUFFICES ASSUME MapSound(map), [MapNext]_map
               PROVE  [Abstract!Next]_(Content(map))
    OBVIOUS
  <2>1. CASE \E k \in Keys, v \in Values : Insert(k, v)
    BY <2>1, InsertSimulates DEF Insert
  <2>2. CASE \E k \in Keys : Erase(k)
    BY <2>2, EraseSimulates DEF Erase
  <2>3. CASE UNCHANGED map
    BY <2>3 DEF Content, SlotsIn, Holds
  <2> QED BY <2>1, <2>2, <2>3 DEF MapNext
<1> QED BY <1>1, <1>2, MapInvariant, PTL DEF MapSpec, ImplementsMap, Abstract!Spec

-----------------------------------------------------------------------------
(* The pool and the lists: walks along links. *)

(* w[k][n] is what a walk finds from n with k links left to follow; nx     *)
(* gives the links, and a walk ends at the members of ends.                *)
IsWalk(w, A, N, ends, nx) ==
  \A k \in 0 .. N, n \in A :
    w[k][n] = IF n \in ends THEN << >>
              ELSE <<n>> \o (IF k = 0 THEN << >> ELSE w[k - 1][nx[n]])

WalkRec(w, A, N, ends, nx) ==
  [k \in 0 .. N |-> [n \in A |->
     IF n \in ends THEN << >>
     ELSE <<n>> \o (IF k = 0 THEN << >> ELSE w[k - 1][nx[n]])]]

LEMMA WalkExists ==
  ASSUME NEW A, NEW N \in Nat, NEW ends \in SUBSET A, NEW nx \in [A -> A]
  PROVE  \E w : w = WalkRec(w, A, N, ends, nx)
<1> DEFINE T == [A -> Seq(A)]
           a == [n \in A |-> IF n \in ends THEN << >> ELSE <<n>> \o << >>]
           F(g) == [n \in A |-> IF n \in ends THEN << >> ELSE <<n>> \o g[nx[n]]]
           G == [x \in T \X (1 .. N) |-> F(x[1])]
<1>1. a \in T
  <2>1. ASSUME NEW n \in A PROVE <<n>> \o << >> \in Seq(A) /\ << >> \in Seq(A)
    OBVIOUS
  <2> QED BY <2>1
<1>2. ASSUME NEW g \in T PROVE F(g) \in T
  <2>1. ASSUME NEW n \in A PROVE <<n>> \o g[nx[n]] \in Seq(A) /\ << >> \in Seq(A)
    <3>1. g[nx[n]] \in Seq(A) /\ <<n>> \in Seq(A)
      OBVIOUS
    <3> QED BY <3>1
  <2> QED BY <2>1
<1> HIDE DEF T, F
<1>3. G \in [T \X (1 .. N) -> T]
  BY <1>2
<1> HIDE DEF a, G
<1>4. PICK w : Iterates(w, T, N, a, G)
  BY ONLY <1>1, <1>3, N \in Nat, IterationExists
<1>5. /\ w \in [0 .. N -> T] /\ w[0] = a
      /\ \A k \in 1 .. N : w[k] = G[<<w[k - 1], k>>]
  BY <1>4 DEF Iterates
<1>6. ASSUME NEW k \in 0 .. N
      PROVE  w[k] = [n \in A |->
                       IF n \in ends THEN << >>
                       ELSE <<n>> \o (IF k = 0 THEN << >> ELSE w[k - 1][nx[n]])]
  <2>1. CASE k = 0
    BY <1>5, <2>1 DEF a
  <2>2. CASE k # 0
    <3>1. k \in 1 .. N /\ k - 1 \in 0 .. N
      BY <2>2
    <3>2. w[k - 1] \in T /\ w[k] = G[<<w[k - 1], k>>]
      BY <1>5, <3>1
    <3>3. G[<<w[k - 1], k>>] = F(w[k - 1])
      BY <3>1, <3>2 DEF G
    <3> QED BY <2>2, <3>2, <3>3 DEF F
  <2> QED BY <2>1, <2>2
<1>7. w = WalkRec(w, A, N, ends, nx)
  BY <1>5, <1>6 DEF WalkRec
<1> QED BY <1>7

LEMMA WalkUnfold ==
  ASSUME NEW A, NEW N \in Nat, NEW ends, NEW nx, NEW w,
         w = WalkRec(w, A, N, ends, nx)
  PROVE  IsWalk(w, A, N, ends, nx)
<1> SUFFICES ASSUME NEW k \in 0 .. N, NEW n \in A
             PROVE  w[k][n] = IF n \in ends THEN << >>
                              ELSE <<n>> \o (IF k = 0 THEN << >> ELSE w[k - 1][nx[n]])
  BY DEF IsWalk
<1>1. w[k] = [m \in A |->
                IF m \in ends THEN << >>
                ELSE <<m>> \o (IF k = 0 THEN << >> ELSE w[k - 1][nx[m]])]
  BY DEF WalkRec
<1> QED BY <1>1

(* The i-th of a sequence, or null. *)
PtrAt(q, i) == IF i \in 1 .. Len(q) THEN q[i] ELSE Null

Distinct(q) == \A i, j \in 1 .. Len(q) : q[i] = q[j] => i = j

(* The members of q from the i-th on. *)
From(q, i) == [j \in 1 .. Len(q) + 1 - i |-> q[i + j - 1]]

(* The links of q lead from each member to the next. *)
Follows(q, A, ends, nx) ==
  /\ q \in Seq(A)
  /\ \A i \in 1 .. Len(q) : q[i] \notin ends
  /\ \A i \in 1 .. Len(q) : IF i = Len(q) THEN nx[q[i]] \in ends
                            ELSE nx[q[i]] = q[i + 1]

Begins(start, q, ends) == IF q = << >> THEN start \in ends ELSE start = q[1]

(* A walk along the links of a sequence finds the sequence. *)
LEMMA WalkFinds ==
  ASSUME NEW A, NEW N \in Nat, NEW ends \in SUBSET A, NEW nx \in [A -> A], NEW w,
         IsWalk(w, A, N, ends, nx), NEW q, Follows(q, A, ends, nx),
         Len(q) <= N + 1,
         NEW start \in A, Begins(start, q, ends)
  PROVE  w[N][start] = q
<1> DEFINE L == Len(q)
           P(k) == \A i \in 1 .. L : L - i <= k => w[k][q[i]] = From(q, i)
           U == {k \in Nat : k <= N /\ ~P(k)}
<1>1. /\ q \in Seq(A) /\ L \in Nat
      /\ \A i \in 1 .. L : q[i] \in A /\ q[i] \notin ends
      /\ \A i \in 1 .. L : IF i = L THEN nx[q[i]] \in ends ELSE nx[q[i]] = q[i + 1]
  BY DEF Follows
<1>2. ASSUME NEW k \in 0 .. N, NEW n \in A
      PROVE  w[k][n] = IF n \in ends THEN << >>
                       ELSE <<n>> \o (IF k = 0 THEN << >> ELSE w[k - 1][nx[n]])
  BY DEF IsWalk
<1>3. ASSUME NEW i \in 1 .. L
      PROVE  From(q, i) = <<q[i]>> \o (IF i = L THEN << >> ELSE From(q, i + 1))
  <2>1. CASE i = L
    <3>1. Len(q) + 1 - i = 1 /\ \A j \in 1 .. 1 : q[i + j - 1] = q[i]
      BY <1>1, <2>1
    <3>2. From(q, i) = [j \in 1 .. 1 |-> q[i]]
      BY <3>1 DEF From
    <3>3. <<q[i]>> \o << >> = [j \in 1 .. 1 |-> q[i]]
      OBVIOUS
    <3> QED BY <2>1, <3>2, <3>3
  <2>2. CASE i # L
    <3>1. i + 1 \in 1 .. L
      BY <1>1, <2>2
    <3>2. /\ From(q, i) \in Seq(A) /\ Len(From(q, i)) = L + 1 - i
          /\ \A j \in 1 .. L + 1 - i : From(q, i)[j] = q[i + j - 1]
      BY <1>1 DEF From
    <3>3. /\ From(q, i + 1) \in Seq(A) /\ Len(From(q, i + 1)) = L - i
          /\ \A j \in 1 .. L - i : From(q, i + 1)[j] = q[i + j]
      BY <1>1, <3>1 DEF From
    <3> DEFINE s == From(q, i)
               t == From(q, i + 1)
    <3> HIDE DEF s, t
    <3>4. /\ s \in Seq(A) /\ t \in Seq(A) /\ Len(s) = Len(t) + 1 /\ <<q[i]>> \in Seq(A)
          /\ s[1] = q[i] /\ \A j \in 2 .. Len(s) : s[j] = t[j - 1]
      <4>1. q[i] \in A /\ i \in Int /\ L \in Int /\ i < L
        BY <1>1, <2>2
      <4>2. s \in Seq(A) /\ t \in Seq(A) /\ Len(s) = Len(t) + 1 /\ <<q[i]>> \in Seq(A)
        <5>1. s \in Seq(A) /\ t \in Seq(A) /\ Len(s) = L + 1 - i /\ Len(t) = L - i
          BY ONLY <3>2, <3>3 DEF s, t
        <5>2. L + 1 - i = (L - i) + 1
          BY ONLY <4>1
        <5>3. <<q[i]>> \in Seq(A)
          BY ONLY <4>1
        <5> QED BY ONLY <5>1, <5>2, <5>3
      <4>3. s[1] = q[i]
        <5>1. 1 \in 1 .. L + 1 - i /\ i + 1 - 1 = i
          BY <4>1
        <5> QED BY <3>2, <5>1 DEF s
      <4>4. ASSUME NEW j \in 2 .. Len(s) PROVE s[j] = t[j - 1]
        <5>1. j \in 1 .. L + 1 - i /\ j - 1 \in 1 .. L - i /\ i + (j - 1) = i + j - 1
          BY <3>2, <4>1 DEF s
        <5> QED BY <3>2, <3>3, <5>1 DEF s, t
      <4> QED BY <4>2, <4>3, <4>4
    <3>5. s = <<q[i]>> \o t
      BY <3>4
    <3> QED BY <2>2, <3>5 DEF s, t
  <2> QED BY <2>1, <2>2
<1>4. \A k \in 0 .. N : P(k)
  <2> HIDE DEF L
  <2>1. SUFFICES ASSUME U # {} PROVE FALSE
    BY <2>1
  <2>2. PICK k \in U : \A y \in U : k <= y
    BY <2>1, LeastNat
  <2>3. k \in 0 .. N
    BY <2>2
  <2>4. PICK i \in 1 .. L : L - i <= k /\ w[k][q[i]] # From(q, i)
    BY <2>2
  <2>5. q[i] \in A /\ q[i] \notin ends
    BY <1>1
  <2>6. w[k][q[i]] = <<q[i]>> \o (IF k = 0 THEN << >> ELSE w[k - 1][nx[q[i]]])
    BY <1>2, <2>3, <2>5
  <2>7. CASE i = L
    <3>1. k = 0 \/ w[k - 1][nx[q[i]]] = << >>
      <4>1. CASE k = 0
        BY <4>1
      <4>2. CASE k # 0
        <5>1. k - 1 \in 0 .. N /\ nx[q[i]] \in ends /\ nx[q[i]] \in A
          BY <1>1, <2>3, <2>5, <2>7, <4>2
        <5> QED BY <1>2, <5>1
      <4> QED BY <4>1, <4>2
    <3> QED BY <1>3, <2>4, <2>6, <2>7, <3>1
  <2>8. CASE i # L
    <3>1. k # 0 /\ k - 1 \in Nat /\ k - 1 <= N /\ i + 1 \in 1 .. L /\ L - (i + 1) <= k - 1
      <4>1. L \in Nat /\ k \in 0 .. N /\ i \in 1 .. L /\ L - i <= k /\ i # L
        BY <1>1, <2>3, <2>4, <2>8
      <4> QED BY ONLY <4>1, N \in Nat
    <3>2. P(k - 1)
      BY <2>2, <3>1
    <3>3. w[k - 1][q[i + 1]] = From(q, i + 1)
      BY <3>1, <3>2
    <3>4. nx[q[i]] = q[i + 1]
      BY <1>1, <2>8
    <3> QED BY <1>3, <2>4, <2>6, <2>8, <3>1, <3>3, <3>4
  <2> QED BY <2>7, <2>8
<1>5. CASE q = << >>
  <2>1. start \in ends /\ N \in 0 .. N
    BY <1>5 DEF Begins
  <2> QED BY <1>2, <1>5, <2>1
<1>6. CASE q # << >>
  <2>1. 1 \in 1 .. L /\ L - 1 <= N
    BY <1>1, <1>6
  <2>2. w[N][q[1]] = From(q, 1)
    BY <1>4, <2>1
  <2>3. From(q, 1) = q
    <3>1. /\ From(q, 1) \in Seq(A) /\ Len(From(q, 1)) = L
          /\ \A j \in 1 .. L : From(q, 1)[j] = q[j]
      BY <1>1, <2>1 DEF From
    <3> QED BY <1>1, <3>1
  <2> QED BY <1>6, <2>2, <2>3 DEF Begins
<1> QED BY <1>5, <1>6

-----------------------------------------------------------------------------
(* Distinct members of a finite set. *)
RangeOf(q) == {q[i] : i \in 1 .. Len(q)}

LEMMA DistinctCount ==
  ASSUME NEW S, NEW q \in Seq(S), Distinct(q)
  PROVE  /\ IsFiniteSet(RangeOf(q)) /\ Cardinality(RangeOf(q)) = Len(q)
         /\ RangeOf(q) \subseteq S
<1> DEFINE n == Len(q)
           R == RangeOf(q)
<1>1. n \in Nat /\ \A i \in 1 .. n : q[i] \in S
  OBVIOUS
<1>2. IsFiniteSet(1 .. n) /\ Cardinality(1 .. n) = n
  <2>1. ASSUME NEW m \in Nat PROVE IsFiniteSet(1 .. m) /\ Cardinality(1 .. m) = m
    BY ONLY m \in Nat, FS_Interval
  <2> QED BY ONLY <1>1, <2>1
<1>3. q \in [1 .. n -> R]
  BY <1>1 DEF RangeOf
<1>4. q \in Injection(1 .. n, R) /\ q \in Surjection(1 .. n, R)
  BY <1>3 DEF Injection, IsInjective, Surjection, Distinct, RangeOf
<1>5. ExistsBijection(1 .. n, R)
  BY <1>4 DEF ExistsBijection, Bijection
<1>6. IsFiniteSet(R) /\ Cardinality(R) = n
  BY <1>2, <1>5, FS_Bijection
<1> QED BY <1>1, <1>6 DEF RangeOf

LEMMA SlotsFinite ==
  /\ PoolCapacity \in Nat /\ IsFiniteSet(PoolSlots) /\ Cardinality(PoolSlots) = PoolCapacity
  /\ Nodes = PoolSlots /\ Null = 0 /\ None = 0 /\ 0 \notin PoolSlots
  /\ Pointers = PoolSlots \cup {0}
<1>1. PoolCapacity \in Nat /\ Nodes = PoolSlots /\ Null = 0 /\ None = 0
  BY PoolAssumption, PooledAssumption DEF None
<1>2. IsFiniteSet(PoolSlots) /\ Cardinality(PoolSlots) = PoolCapacity
  BY <1>1, FS_Interval DEF PoolSlots
<1> QED BY <1>1, <1>2 DEF PoolSlots, Pointers

LEMMA DistinctFits ==
  ASSUME NEW q \in Seq(PoolSlots), Distinct(q)
  PROVE  Len(q) \in Nat /\ Len(q) <= PoolCapacity
<1>1. IsFiniteSet(RangeOf(q)) /\ Cardinality(RangeOf(q)) = Len(q)
      /\ RangeOf(q) \subseteq PoolSlots
  BY DistinctCount
<1>2. Cardinality(RangeOf(q)) <= Cardinality(PoolSlots)
  BY <1>1, SlotsFinite, FS_Subset
<1> QED BY <1>1, <1>2, SlotsFinite

-----------------------------------------------------------------------------
(* What is in a slot. *)
LEMMA FreeSlotFacts ==
  ASSUME NEW x
  PROVE  /\ ~InUse(FreeSlot(x)) /\ FreeSlot(x).next_free = x
         /\ "next" \notin DOMAIN FreeSlot(x) /\ FreeSlot(x) \notin Objects
BY ObjectsAssumption DEF FreeSlot, InUse, Linkable

LEMMA ObjectFacts ==
  ASSUME NEW o \in Objects
  PROVE  /\ InUse(o) /\ "next" \in DOMAIN o
         /\ o.next \in Pointers /\ o.prev \in Pointers
BY ObjectsAssumption DEF InUse, Linkable

(* Every slot holds an object or a link of the free list. *)
MemOK(mem) ==
  \A n \in PoolSlots : mem[n] \in Objects \/ \E x \in Pointers : mem[n] = FreeSlot(x)

(* The nodes q are linked in both directions between head and tail. *)
ListIs(mem, list, q) ==
  /\ q \in Seq(PoolSlots) /\ Distinct(q)
  /\ \A i \in 1 .. Len(q) : /\ mem[q[i]] \in Objects
                            /\ mem[q[i]].next = PtrAt(q, i + 1)
                            /\ mem[q[i]].prev = PtrAt(q, i - 1)
  /\ list.head = PtrAt(q, 1) /\ list.tail = PtrAt(q, Len(q)) /\ list.size = Len(q)

(* The slots q are linked from the head of the free list. *)
FreeIs(p, q) ==
  /\ q \in Seq(PoolSlots) /\ Distinct(q)
  /\ \A i \in 1 .. Len(q) : p.slots[q[i]] = FreeSlot(PtrAt(q, i + 1))
  /\ p.free_head = PtrAt(q, 1)

LEMMA PtrType ==
  ASSUME NEW q \in Seq(PoolSlots), NEW i \in Int
  PROVE  /\ PtrAt(q, i) \in Pointers
         /\ i \in 1 .. Len(q) => PtrAt(q, i) = q[i] /\ q[i] \in PoolSlots
         /\ i \notin 1 .. Len(q) => PtrAt(q, i) = 0
         /\ PtrAt(q, i) = 0 <=> i \notin 1 .. Len(q)
BY SlotsFinite DEF PtrAt

(* Walking forwards from the head finds the nodes. *)
LEMMA ForwardIs ==
  ASSUME NEW mem, MemOK(mem), NEW list, NEW q, ListIs(mem, list, q)
  PROVE  Forward(mem, list) = q
<1> DEFINE A == PoolSlots \cup {0}
           N == PoolCapacity
           ends == {n \in A : ~IsNode(mem, n)}
           nx == [n \in A |-> IF n \in ends THEN n ELSE mem[n].next]
           Rec(f) == [steps \in 0 .. N |-> [n \in A |->
                        IF ~IsNode(mem, n) THEN << >>
                        ELSE <<n>> \o (IF steps = 0 THEN << >>
                                       ELSE f[steps - 1][mem[n].next])]]
<1>1. N \in Nat /\ ends \in SUBSET A
  BY SlotsFinite
<1>2. ASSUME NEW n \in A, n \notin ends PROVE n \in PoolSlots /\ mem[n] \in Objects
  <2>1. n # 0 /\ "next" \in DOMAIN mem[n]
    BY <1>2, SlotsFinite DEF IsNode
  <2> QED BY <2>1, FreeSlotFacts DEF MemOK
<1>3. nx \in [A -> A]
  BY <1>2, ObjectFacts, SlotsFinite
<1>4. \A f : Rec(f) = WalkRec(f, A, N, ends, nx)
  BY DEF WalkRec
<1>5. Forward(mem, list) = (CHOOSE f : f = Rec(f))[N][list.head]
  BY SlotsFinite DEF Forward
<1> HIDE DEF Rec
<1>6. \E f : f = Rec(f)
  <2> HIDE DEF A, N, ends, nx
  <2>1. \E f : f = WalkRec(f, A, N, ends, nx)
    BY ONLY <1>1, <1>3, WalkExists
  <2> QED BY <1>4, <2>1
<1>7. PICK f : f = Rec(f) /\ Forward(mem, list) = f[N][list.head]
  BY <1>5, <1>6
<1>8. IsWalk(f, A, N, ends, nx)
  BY <1>1, <1>4, <1>7, WalkUnfold
<1>9. /\ q \in Seq(PoolSlots) /\ Distinct(q) /\ Len(q) \in Nat /\ Len(q) <= N
      /\ \A i \in 1 .. Len(q) : /\ q[i] \in PoolSlots /\ mem[q[i]] \in Objects
                                /\ mem[q[i]].next = PtrAt(q, i + 1)
      /\ list.head = PtrAt(q, 1)
  BY DistinctFits DEF ListIs
<1>10. ASSUME NEW i \in 1 .. Len(q)
       PROVE  /\ q[i] \in A /\ q[i] \notin ends
              /\ nx[q[i]] = PtrAt(q, i + 1)
  BY <1>9, ObjectFacts, SlotsFinite DEF IsNode
<1>11. 0 \in ends
  BY SlotsFinite DEF IsNode
<1>12. q \in Seq(A)
  BY <1>9
<1> HIDE DEF A, N, ends, nx
<1>13. Follows(q, A, ends, nx)
  <2>1. ASSUME NEW i \in 1 .. Len(q)
        PROVE  IF i = Len(q) THEN nx[q[i]] \in ends ELSE nx[q[i]] = q[i + 1]
    BY <1>9, <1>10, <1>11, PtrType
  <2> QED BY <1>10, <1>12, <2>1 DEF Follows
<1>14. list.head \in A /\ IF q = << >> THEN list.head \in ends ELSE list.head = q[1]
  BY <1>9, <1>11, PtrType, SlotsFinite DEF A
<1>15. Len(q) <= N + 1
  BY <1>1, <1>9
<1> DEFINE start == list.head
<1> HIDE DEF start
<1>16. start \in A /\ Begins(start, q, ends)
  BY <1>14 DEF start, Begins
<1>17. f[N][start] = q
  BY ONLY <1>1, <1>3, <1>8, <1>13, <1>15, <1>16, WalkFinds
<1> QED BY <1>7, <1>17 DEF start

Reversed(q) == [i \in 1 .. Len(q) |-> q[Len(q) + 1 - i]]

LEMMA ReversedFacts ==
  ASSUME NEW S, NEW q \in Seq(S)
  PROVE  /\ Reversed(q) \in Seq(S) /\ Len(Reversed(q)) = Len(q)
         /\ \A i \in 1 .. Len(q) : Reversed(q)[i] = q[Len(q) + 1 - i]
BY DEF Reversed

(* Walking backwards from the tail finds them in reverse. *)
LEMMA BackwardIs ==
  ASSUME NEW mem, MemOK(mem), NEW list, NEW q, ListIs(mem, list, q)
  PROVE  Backward(mem, list) = Reversed(q)
<1> DEFINE r == Reversed(q)
           A == PoolSlots \cup {0}
           N == PoolCapacity
           ends == {n \in A : ~IsNode(mem, n)}
           nx == [n \in A |-> IF n \in ends THEN n ELSE mem[n].prev]
           Rec(f) == [steps \in 0 .. N |-> [n \in A |->
                        IF ~IsNode(mem, n) THEN << >>
                        ELSE <<n>> \o (IF steps = 0 THEN << >>
                                       ELSE f[steps - 1][mem[n].prev])]]
<1>1. N \in Nat /\ ends \in SUBSET A
  BY SlotsFinite
<1>2. ASSUME NEW n \in A, n \notin ends PROVE n \in PoolSlots /\ mem[n] \in Objects
  <2>1. n # 0 /\ "next" \in DOMAIN mem[n]
    BY <1>2, SlotsFinite DEF IsNode
  <2> QED BY <2>1, FreeSlotFacts DEF MemOK
<1>3. nx \in [A -> A]
  BY <1>2, ObjectFacts, SlotsFinite
<1>4. \A f : Rec(f) = WalkRec(f, A, N, ends, nx)
  BY DEF WalkRec
<1>5. Backward(mem, list) = (CHOOSE f : f = Rec(f))[N][list.tail]
  BY SlotsFinite DEF Backward
<1> HIDE DEF Rec
<1>6. \E f : f = Rec(f)
  <2> HIDE DEF A, N, ends, nx
  <2>1. \E f : f = WalkRec(f, A, N, ends, nx)
    BY ONLY <1>1, <1>3, WalkExists
  <2> QED BY <1>4, <2>1
<1>7. PICK f : f = Rec(f) /\ Backward(mem, list) = f[N][list.tail]
  BY <1>5, <1>6
<1>8. IsWalk(f, A, N, ends, nx)
  BY <1>1, <1>4, <1>7, WalkUnfold
<1>9. /\ r \in Seq(PoolSlots) /\ Len(r) \in Nat /\ Len(r) <= N
      /\ \A i \in 1 .. Len(r) : /\ r[i] \in PoolSlots /\ mem[r[i]] \in Objects
                                /\ mem[r[i]].prev = PtrAt(r, i + 1)
      /\ list.tail = PtrAt(r, 1)
  <2>1. /\ q \in Seq(PoolSlots) /\ Distinct(q) /\ Len(q) \in Nat /\ Len(q) <= N
        /\ \A i \in 1 .. Len(q) : /\ q[i] \in PoolSlots /\ mem[q[i]] \in Objects
                                  /\ mem[q[i]].prev = PtrAt(q, i - 1)
        /\ list.tail = PtrAt(q, Len(q))
    BY DistinctFits DEF ListIs
  <2>2. /\ r \in Seq(PoolSlots) /\ Len(r) = Len(q)
        /\ \A i \in 1 .. Len(q) : r[i] = q[Len(q) + 1 - i]
    BY <2>1, ReversedFacts
  <2> HIDE DEF r, A, N, ends, nx
  <2>3. \A i \in Int : PtrAt(r, i) = PtrAt(q, Len(q) + 1 - i)
    BY <2>1, <2>2 DEF PtrAt
  <2>4. ASSUME NEW i \in 1 .. Len(r)
        PROVE  /\ r[i] \in PoolSlots /\ mem[r[i]] \in Objects
               /\ mem[r[i]].prev = PtrAt(r, i + 1)
    <3>1. /\ Len(q) + 1 - i \in 1 .. Len(q) /\ r[i] = q[Len(q) + 1 - i]
          /\ (Len(q) + 1 - i) - 1 = Len(q) + 1 - (i + 1)
      BY <2>1, <2>2
    <3>2. mem[r[i]].prev = PtrAt(q, (Len(q) + 1 - i) - 1)
      BY <2>1, <3>1
    <3>3. PtrAt(r, i + 1) = PtrAt(q, Len(q) + 1 - (i + 1))
      BY <2>3
    <3> QED BY <2>1, <3>1, <3>2, <3>3
  <2>5. list.tail = PtrAt(r, 1)
    <3>1. Len(q) + 1 - 1 = Len(q)
      BY <2>1
    <3> QED BY <2>1, <2>3, <3>1
  <2> QED BY <2>1, <2>2, <2>4, <2>5
<1>10. ASSUME NEW i \in 1 .. Len(r)
       PROVE  /\ r[i] \in A /\ r[i] \notin ends
              /\ nx[r[i]] = PtrAt(r, i + 1)
  BY <1>9, ObjectFacts, SlotsFinite DEF IsNode
<1>11. 0 \in ends
  BY SlotsFinite DEF IsNode
<1>12. r \in Seq(A)
  BY <1>9
<1> HIDE DEF r, A, N, ends, nx
<1>13. Follows(r, A, ends, nx)
  <2>1. ASSUME NEW i \in 1 .. Len(r)
        PROVE  IF i = Len(r) THEN nx[r[i]] \in ends ELSE nx[r[i]] = r[i + 1]
    BY <1>9, <1>10, <1>11, PtrType
  <2> QED BY <1>10, <1>12, <2>1 DEF Follows
<1>14. list.tail \in A /\ IF r = << >> THEN list.tail \in ends ELSE list.tail = r[1]
  BY <1>9, <1>11, PtrType, SlotsFinite DEF A
<1>15. Len(r) <= N + 1
  BY <1>1, <1>9
<1> DEFINE start == list.tail
<1> HIDE DEF start
<1>16. start \in A /\ Begins(start, r, ends)
  BY <1>14 DEF start, Begins
<1>17. f[N][start] = r
  BY ONLY <1>1, <1>3, <1>8, <1>13, <1>15, <1>16, WalkFinds
<1> QED BY <1>7, <1>17 DEF start, r

(* Walking the free list finds its slots. *)
LEMMA FreeChainIs ==
  ASSUME NEW p, MemOK(p.slots), NEW q, FreeIs(p, q)
  PROVE  FreeChain(p) = q
<1> DEFINE A == PoolSlots \cup {0}
           N == PoolCapacity
           ends == {n \in A : (n = None \/ InUse(p.slots[n]))}
           nx == [n \in A |-> IF n \in ends THEN n ELSE p.slots[n].next_free]
           Rec(f) == [steps \in 0 .. N |-> [n \in A |->
                        IF (n = None \/ InUse(p.slots[n])) THEN << >>
                        ELSE <<n>> \o (IF steps = 0 THEN << >>
                                       ELSE f[steps - 1][p.slots[n].next_free])]]
<1>1. N \in Nat /\ ends \in SUBSET A
  BY SlotsFinite
<1>2. ASSUME NEW n \in A, n \notin ends
      PROVE  \E x \in Pointers : p.slots[n] = FreeSlot(x)
  <2>1. n \in PoolSlots /\ ~InUse(p.slots[n])
    BY <1>2, SlotsFinite
  <2> QED BY <2>1, ObjectFacts DEF MemOK
<1>3. nx \in [A -> A]
  BY <1>2, FreeSlotFacts, SlotsFinite
<1>4. \A f : Rec(f) = WalkRec(f, A, N, ends, nx)
  BY DEF WalkRec
<1>5. FreeChain(p) = (CHOOSE f : f = Rec(f))[N][p.free_head]
  BY SlotsFinite DEF FreeChain
<1> HIDE DEF Rec
<1>6. \E f : f = Rec(f)
  <2> HIDE DEF A, N, ends, nx
  <2>1. \E f : f = WalkRec(f, A, N, ends, nx)
    BY ONLY <1>1, <1>3, WalkExists
  <2> QED BY <1>4, <2>1
<1>7. PICK f : f = Rec(f) /\ FreeChain(p) = f[N][p.free_head]
  BY <1>5, <1>6
<1>8. IsWalk(f, A, N, ends, nx)
  BY <1>1, <1>4, <1>7, WalkUnfold
<1>9. /\ q \in Seq(PoolSlots) /\ Distinct(q) /\ Len(q) \in Nat /\ Len(q) <= N
      /\ \A i \in 1 .. Len(q) : /\ q[i] \in PoolSlots
                                /\ p.slots[q[i]] = FreeSlot(PtrAt(q, i + 1))
      /\ p.free_head = PtrAt(q, 1)
  BY DistinctFits DEF FreeIs
<1>10. ASSUME NEW i \in 1 .. Len(q)
       PROVE  /\ q[i] \in A /\ q[i] \notin ends
              /\ nx[q[i]] = PtrAt(q, i + 1)
  BY <1>9, FreeSlotFacts, SlotsFinite
<1>11. 0 \in ends
  BY SlotsFinite
<1>12. q \in Seq(A)
  BY <1>9
<1> HIDE DEF A, N, ends, nx
<1>13. Follows(q, A, ends, nx)
  <2>1. ASSUME NEW i \in 1 .. Len(q)
        PROVE  IF i = Len(q) THEN nx[q[i]] \in ends ELSE nx[q[i]] = q[i + 1]
    BY <1>9, <1>10, <1>11, PtrType
  <2> QED BY <1>10, <1>12, <2>1 DEF Follows
<1>14. p.free_head \in A /\ IF q = << >> THEN p.free_head \in ends ELSE p.free_head = q[1]
  BY <1>9, <1>11, PtrType, SlotsFinite DEF A
<1>15. Len(q) <= N + 1
  BY <1>1, <1>9
<1> DEFINE start == p.free_head
<1> HIDE DEF start
<1>16. start \in A /\ Begins(start, q, ends)
  BY <1>14 DEF start, Begins
<1>17. f[N][start] = q
  BY ONLY <1>1, <1>3, <1>8, <1>13, <1>15, <1>16, WalkFinds
<1> QED BY <1>7, <1>17 DEF start

-----------------------------------------------------------------------------
(* The inductive invariant. *)

FreeSlots == [next_free : Pointers]

Memory == [PoolSlots -> Objects \cup FreeSlots]

ListValues == [head : Pointers, tail : Pointers, size : Int]

PooledType ==
  /\ pool \in [slots : Memory, free_head : Pointers, size : Int]
  /\ lists \in [Lists -> ListValues]
  /\ owner \in [PoolSlots -> {"pool", "user"} \cup Lists]

Owned(who) == {s \in PoolSlots : owner[s] = who}

(* A slot holds an object while somebody has it; the pool's are linked from *)
(* the head of the free list, and those of a list from its head and tail.  *)
PooledInv ==
  /\ PooledType
  /\ \A s \in PoolSlots : pool.slots[s] \in Objects <=> owner[s] # "pool"
  /\ pool.size = Cardinality(Held)
  /\ \E q : FreeIs(pool, q) /\ RangeOf(q) = Owned("pool")
  /\ \A l \in Lists : \E q : ListIs(pool.slots, lists[l], q) /\ RangeOf(q) = Owned(l)

-----------------------------------------------------------------------------
(* What the operations leave behind. *)

LEMMA MemoryOK ==
  ASSUME NEW mem \in Memory
  PROVE  MemOK(mem)
<1> SUFFICES ASSUME NEW n \in PoolSlots
             PROVE  mem[n] \in Objects \/ \E x \in Pointers : mem[n] = FreeSlot(x)
  BY DEF MemOK
<1>1. mem[n] \in Objects \/ mem[n] \in FreeSlots
  BY DEF Memory
<1>2. ASSUME mem[n] \in FreeSlots PROVE \E x \in Pointers : mem[n] = FreeSlot(x)
  BY <1>2 DEF FreeSlots, FreeSlot
<1> QED BY <1>1, <1>2

LEMMA SetNextFacts ==
  ASSUME NEW mem \in Memory, NEW node \in PoolSlots, mem[node] \in Objects,
         NEW to \in Pointers
  PROVE  /\ SetNext(mem, node, to) \in Memory
         /\ SetNext(mem, node, to)[node] \in Objects
         /\ SetNext(mem, node, to)[node].next = to
         /\ SetNext(mem, node, to)[node].prev = mem[node].prev
         /\ \A m \in PoolSlots \ {node} : SetNext(mem, node, to)[m] = mem[m]
<1>1. SetNext(mem, node, to) = [mem EXCEPT ![node] = [mem[node] EXCEPT !.next = to]]
  BY SlotsFinite DEF SetNext
<1>2. /\ [mem[node] EXCEPT !.next = to] \in Objects
      /\ [mem[node] EXCEPT !.next = to].next = to
      /\ [mem[node] EXCEPT !.next = to].prev = mem[node].prev
  BY ObjectsAssumption DEF Linkable
<1> DEFINE o == [mem[node] EXCEPT !.next = to]
<1> HIDE DEF o
<1>3. SetNext(mem, node, to) = [mem EXCEPT ![node] = o]
  BY <1>1 DEF o
<1>4. o \in Objects /\ o.next = to /\ o.prev = mem[node].prev
  BY <1>2 DEF o
<1> QED BY <1>3, <1>4 DEF Memory

LEMMA SetPrevFacts ==
  ASSUME NEW mem \in Memory, NEW node \in PoolSlots, mem[node] \in Objects,
         NEW to \in Pointers
  PROVE  /\ SetPrev(mem, node, to) \in Memory
         /\ SetPrev(mem, node, to)[node] \in Objects
         /\ SetPrev(mem, node, to)[node].prev = to
         /\ SetPrev(mem, node, to)[node].next = mem[node].next
         /\ \A m \in PoolSlots \ {node} : SetPrev(mem, node, to)[m] = mem[m]
<1>1. SetPrev(mem, node, to) = [mem EXCEPT ![node] = [mem[node] EXCEPT !.prev = to]]
  BY SlotsFinite DEF SetPrev
<1>2. /\ [mem[node] EXCEPT !.prev = to] \in Objects
      /\ [mem[node] EXCEPT !.prev = to].prev = to
      /\ [mem[node] EXCEPT !.prev = to].next = mem[node].next
  BY ObjectsAssumption DEF Linkable
<1> DEFINE o == [mem[node] EXCEPT !.prev = to]
<1> HIDE DEF o
<1>3. SetPrev(mem, node, to) = [mem EXCEPT ![node] = o]
  BY <1>1 DEF o
<1>4. o \in Objects /\ o.prev = to /\ o.next = mem[node].next
  BY <1>2 DEF o
<1> QED BY <1>3, <1>4 DEF Memory

(* A node that gets both links. *)
Linked(mem, node, a, b) == [mem EXCEPT ![node].prev = a, ![node].next = b]

LEMMA LinkedFacts ==
  ASSUME NEW mem \in Memory, NEW node \in PoolSlots, mem[node] \in Objects,
         NEW a \in Pointers, NEW b \in Pointers
  PROVE  /\ Linked(mem, node, a, b) \in Memory
         /\ Linked(mem, node, a, b)[node] \in Objects
         /\ Linked(mem, node, a, b)[node].prev = a
         /\ Linked(mem, node, a, b)[node].next = b
         /\ \A m \in PoolSlots \ {node} : Linked(mem, node, a, b)[m] = mem[m]
<1> DEFINE p == SetPrev(mem, node, a)
<1>1. Linked(mem, node, a, b) = SetNext(p, node, b)
  BY SlotsFinite DEF Linked, SetNext, SetPrev
<1>2. /\ p \in Memory /\ p[node] \in Objects /\ p[node].prev = a
      /\ \A m \in PoolSlots \ {node} : p[m] = mem[m]
  BY SetPrevFacts
<1> HIDE DEF p
<1> QED BY <1>1, <1>2, SetNextFacts

(* The order of the two assignments does not matter. *)
LEMMA LinkedSwapped ==
  ASSUME NEW mem \in Memory, NEW node \in PoolSlots, mem[node] \in Objects,
         NEW a \in Pointers, NEW b \in Pointers
  PROVE  Linked(mem, node, a, b) = [mem EXCEPT ![node].next = b, ![node].prev = a]
<1> DEFINE o2 == [mem[node] EXCEPT !.prev = a, !.next = b]
           o3 == [mem[node] EXCEPT !.next = b, !.prev = a]
<1>1. o2 = o3
  OBVIOUS
<1>2. node \in DOMAIN mem
  BY DEF Memory
<1>3. Linked(mem, node, a, b) = [mem EXCEPT ![node] = o2]
  BY <1>2 DEF Linked
<1>4. [mem EXCEPT ![node].next = b, ![node].prev = a] = [mem EXCEPT ![node] = o3]
  BY <1>2
<1> QED BY ONLY <1>1, <1>3, <1>4

(* Objects stay objects, and only those of S are written to. *)
Relinked(mem, mem2, S) ==
  /\ mem2 \in Memory
  /\ \A m \in PoolSlots : mem2[m] \in Objects <=> mem[m] \in Objects
  /\ \A m \in PoolSlots \ S : mem2[m] = mem[m]

LEMMA PushBackIs ==
  ASSUME NEW mem \in Memory, NEW list \in ListValues, NEW q, ListIs(mem, list, q),
         NEW n \in PoolSlots, mem[n] \in Objects, n \notin RangeOf(q)
  PROVE  LET r == push_back(mem, list, n) IN
         /\ Relinked(mem, r.nodes, RangeOf(q) \cup {n})
         /\ r.list \in ListValues
         /\ ListIs(r.nodes, r.list, Append(q, n))
         /\ RangeOf(Append(q, n)) = RangeOf(q) \cup {n}
<1>0. PICK head \in Pointers, tail \in Pointers, size \in Int :
        list = [head |-> head, tail |-> tail, size |-> size]
  BY DEF ListValues
<1> DEFINE L == Len(q)
           Q == Append(q, n)
           both == Linked(mem, n, tail, Null)
           nodes == SetNext(both, tail, n)
           list2 == [head |-> IF tail = Null THEN n ELSE head, tail |-> n, size |-> size + 1]
<1>1. push_back(mem, list, n) = [nodes |-> nodes, list |-> list2]
  BY <1>0 DEF push_back, Linked
<1>2. /\ q \in Seq(PoolSlots) /\ L \in Nat
      /\ \A i, j \in 1 .. L : q[i] = q[j] => i = j
      /\ \A i \in 1 .. L : /\ q[i] \in PoolSlots /\ q[i] # n /\ q[i] \in RangeOf(q)
                           /\ mem[q[i]] \in Objects
                           /\ mem[q[i]].next = PtrAt(q, i + 1)
                           /\ mem[q[i]].prev = PtrAt(q, i - 1)
      /\ head = PtrAt(q, 1) /\ tail = PtrAt(q, L) /\ size = L
  BY <1>0 DEF ListIs, Distinct, RangeOf
<1>3. /\ tail = 0 <=> L = 0
      /\ L # 0 => tail = q[L] /\ head = q[1]
  BY <1>2, PtrType
<1>4. /\ Q \in Seq(PoolSlots) /\ Len(Q) = L + 1 /\ Q[L + 1] = n
      /\ \A i \in 1 .. L : Q[i] = q[i]
  BY <1>2
<1> HIDE DEF Q, L, list2
<1>5. /\ both \in Memory /\ both[n] \in Objects
      /\ both[n].prev = tail /\ both[n].next = 0
      /\ \A m \in PoolSlots \ {n} : both[m] = mem[m]
  <2>1. Null \in Pointers /\ Null = 0
    BY SlotsFinite
  <2> QED BY <2>1, LinkedFacts
<1> HIDE DEF both
<1>6. /\ nodes \in Memory /\ nodes[n] = both[n]
      /\ \A m \in PoolSlots \ {n} : m # tail => nodes[m] = mem[m]
      /\ L # 0 => /\ nodes[q[L]] \in Objects /\ nodes[q[L]].next = n
                  /\ nodes[q[L]].prev = mem[q[L]].prev
  <2>1. CASE L = 0
    <3>1. nodes = both
      BY <1>3, <2>1, SlotsFinite DEF SetNext
    <3> QED BY <1>5, <2>1, <3>1
  <2>2. CASE L # 0
    <3>1. /\ tail \in PoolSlots /\ tail # n /\ tail = q[L]
          /\ both[tail] \in Objects /\ n \in Pointers
      <4>1. L \in 1 .. L
        BY <1>2, <2>2
      <4> QED BY <1>2, <1>3, <1>5, <2>2, <4>1, SlotsFinite
    <3>2. both[tail] = mem[tail]
      BY <1>5, <3>1
    <3> QED BY <1>5, <3>1, <3>2, SetNextFacts
  <2> QED BY <2>1, <2>2
<1> HIDE DEF nodes
<1>7. Relinked(mem, nodes, RangeOf(q) \cup {n})
  <2>1. tail \in PoolSlots => L # 0 /\ L \in 1 .. L /\ tail = q[L]
    BY <1>2, <1>3, SlotsFinite
  <2> QED BY <1>2, <1>5, <1>6, <2>1 DEF Relinked
<1>8. list2 \in ListValues
  BY SlotsFinite DEF list2, ListValues
<1>9. ListIs(nodes, list2, Q)
  <2>1. Distinct(Q)
    <3>1. ASSUME NEW i \in 1 .. L + 1, NEW j \in 1 .. L + 1, Q[i] = Q[j] PROVE i = j
      <4>1. (i \in 1 .. L \/ i = L + 1) /\ (j \in 1 .. L \/ j = L + 1)
        BY <1>2
      <4>2. \A x \in 1 .. L : Q[x] = q[x] /\ q[x] # n
        BY <1>2, <1>4
      <4>3. CASE i \in 1 .. L /\ j \in 1 .. L
        BY <1>2, <3>1, <4>2, <4>3
      <4> QED BY <1>4, <3>1, <4>1, <4>2, <4>3
    <3> QED BY <1>4, <3>1 DEF Distinct
  <2>2. ASSUME NEW i \in 1 .. L + 1
        PROVE  /\ nodes[Q[i]] \in Objects
               /\ nodes[Q[i]].next = PtrAt(Q, i + 1)
               /\ nodes[Q[i]].prev = PtrAt(Q, i - 1)
    <3>1. CASE i = L + 1
      <4>1. Q[i] = n /\ PtrAt(Q, i + 1) = 0
        BY <1>2, <1>4, <3>1, PtrType
      <4>2. PtrAt(Q, i - 1) = tail
        BY <1>2, <1>3, <1>4, <3>1, SlotsFinite DEF PtrAt
      <4> QED BY <1>5, <1>6, <4>1, <4>2
    <3>2. CASE i = L
      <4>1. i \in 1 .. L /\ L # 0 /\ Q[i] = q[L]
        BY <1>2, <1>4, <3>2
      <4>2. PtrAt(Q, i + 1) = n
        BY <1>2, <1>4, <3>2 DEF PtrAt
      <4>3. PtrAt(Q, i - 1) = PtrAt(q, i - 1)
        BY <1>2, <1>4, <4>1 DEF PtrAt, L
      <4> QED BY <1>2, <1>6, <3>2, <4>1, <4>2, <4>3
    <3>3. CASE i # L + 1 /\ i # L
      <4>1. i \in 1 .. L /\ Q[i] = q[i] /\ L \in 1 .. L
        BY <1>2, <1>4, <3>3
      <4>2. PtrAt(Q, i + 1) = PtrAt(q, i + 1) /\ PtrAt(Q, i - 1) = PtrAt(q, i - 1)
        <5>1. i + 1 \in 1 .. L /\ i + 1 \in 1 .. L + 1 /\ (i - 1 \in 1 .. L <=> i - 1 \in 1 .. L + 1)
          BY <1>2, <3>3, <4>1
        <5>2. PtrAt(Q, i + 1) = Q[i + 1] /\ PtrAt(q, i + 1) = q[i + 1]
          BY <1>4, <5>1 DEF PtrAt, L
        <5>3. PtrAt(Q, i - 1) = PtrAt(q, i - 1)
          BY <1>4, <5>1 DEF PtrAt, L
        <5> QED BY <1>4, <5>1, <5>2, <5>3
      <4>3. q[i] # tail /\ q[i] # n
        BY <1>2, <1>3, <3>3, <4>1
      <4>4. nodes[q[i]] = mem[q[i]]
        BY <1>2, <1>6, <4>1, <4>3
      <4> QED BY <1>2, <4>1, <4>2, <4>4
    <3> QED BY <3>1, <3>2, <3>3
  <2>3. list2.head = PtrAt(Q, 1)
    <3>1. CASE L = 0
      BY <1>3, <1>4, <3>1, SlotsFinite DEF list2, PtrAt
    <3>2. CASE L # 0
      BY <1>2, <1>3, <1>4, <3>2, SlotsFinite DEF list2, PtrAt
    <3> QED BY <3>1, <3>2
  <2>4. list2.tail = PtrAt(Q, L + 1) /\ list2.size = L + 1
    BY <1>2, <1>4 DEF list2, PtrAt
  <2> QED BY <1>4, <2>1, <2>2, <2>3, <2>4 DEF ListIs
<1>10. RangeOf(Q) = RangeOf(q) \cup {n}
  <2>1. RangeOf(Q) = {Q[i] : i \in 1 .. L + 1}
    BY <1>4 DEF RangeOf
  <2>2. RangeOf(q) = {q[i] : i \in 1 .. L}
    BY DEF RangeOf, L
  <2>3. \A i \in 1 .. L + 1 : i \in 1 .. L \/ i = L + 1
    BY <1>2
  <2>4. 1 .. L \subseteq 1 .. L + 1 /\ L + 1 \in 1 .. L + 1
    BY <1>2
  <2> QED BY <1>4, <2>1, <2>2, <2>3, <2>4
<1> QED BY <1>1, <1>7, <1>8, <1>9, <1>10 DEF Q

LEMMA PrependFacts ==
  ASSUME NEW S, NEW q \in Seq(S), NEW n \in S
  PROVE  /\ <<n>> \o q \in Seq(S) /\ Len(<<n>> \o q) = Len(q) + 1
         /\ (<<n>> \o q)[1] = n
         /\ \A i \in 2 .. Len(q) + 1 : (<<n>> \o q)[i] = q[i - 1]
<1>1. <<n>> \in Seq(S) /\ Len(<<n>>) = 1 /\ <<n>>[1] = n
  OBVIOUS
<1> QED BY <1>1

LEMMA PrependRange ==
  ASSUME NEW S, NEW q \in Seq(S), NEW n \in S
  PROVE  /\ RangeOf(<<n>> \o q) = RangeOf(q) \cup {n}
         /\ Distinct(q) /\ n \notin RangeOf(q) => Distinct(<<n>> \o q)
<1> DEFINE Q == <<n>> \o q
           L == Len(q)
<1>1. /\ Len(Q) = L + 1 /\ Q[1] = n /\ \A i \in 2 .. L + 1 : Q[i] = q[i - 1]
      /\ L \in Nat
  BY PrependFacts
<1> HIDE DEF Q
<1>2. RangeOf(Q) = {Q[i] : i \in 1 .. L + 1} /\ RangeOf(q) = {q[i] : i \in 1 .. L}
  BY <1>1 DEF RangeOf
<1> HIDE DEF L
<1>3. \A i \in 1 .. L + 1 : i = 1 \/ (i \in 2 .. L + 1 /\ i - 1 \in 1 .. L)
  BY <1>1
<1>4. \A i \in 1 .. L : i + 1 \in 2 .. L + 1 /\ i + 1 \in 1 .. L + 1 /\ (i + 1) - 1 = i
  BY <1>1
<1>5. RangeOf(Q) = RangeOf(q) \cup {n}
  <2>1. 1 \in 1 .. L + 1
    BY <1>1
  <2>2. \A i \in 1 .. L : q[i] = Q[i + 1]
    BY <1>1, <1>4
  <2>3. \A i \in 1 .. L + 1 : Q[i] = n \/ Q[i] = q[i - 1]
    BY <1>1, <1>3
  <2>4. RangeOf(Q) \subseteq RangeOf(q) \cup {n}
    BY <1>1, <1>2, <1>3
  <2>5. RangeOf(q) \cup {n} \subseteq RangeOf(Q)
    BY <1>1, <1>2, <1>4, <2>1, <2>2
  <2> QED BY <2>4, <2>5
<1>6. ASSUME Distinct(q), n \notin RangeOf(q) PROVE Distinct(Q)
  <2>1. \A i \in 1 .. L : q[i] # n
    BY <1>2, <1>6
  <2>2. \A i, j \in 1 .. L : q[i] = q[j] => i = j
    BY <1>6 DEF Distinct, L
  <2>3. ASSUME NEW i \in 1 .. L + 1, NEW j \in 1 .. L + 1, Q[i] = Q[j] PROVE i = j
    <3>1. CASE i = 1 /\ j = 1
      BY <3>1
    <3>2. CASE i # 1 /\ j = 1
      BY <1>1, <1>3, <2>1, <2>3, <3>2
    <3>3. CASE i = 1 /\ j # 1
      BY <1>1, <1>3, <2>1, <2>3, <3>3
    <3>4. CASE i # 1 /\ j # 1
      <4>1. i - 1 \in 1 .. L /\ j - 1 \in 1 .. L /\ q[i - 1] = q[j - 1]
        BY <1>1, <1>3, <2>3, <3>4
      <4>2. i - 1 = j - 1
        BY <2>2, <4>1
      <4> QED BY <4>2
    <3> QED BY <3>1, <3>2, <3>3, <3>4
  <2> QED BY <1>1, <2>3 DEF Distinct
<1> QED BY <1>5, <1>6 DEF Q

LEMMA PrependPtr ==
  ASSUME NEW q \in Seq(PoolSlots), NEW n \in PoolSlots, NEW j \in Nat \ {0}
  PROVE  PtrAt(<<n>> \o q, j + 1) = PtrAt(q, j)
<1> DEFINE Q == <<n>> \o q
           L == Len(q)
<1>1. /\ Len(Q) = L + 1 /\ \A i \in 2 .. L + 1 : Q[i] = q[i - 1]
      /\ L \in Nat
  BY PrependFacts
<1> HIDE DEF Q
<1>2. CASE j > L
  <2>1. j + 1 \notin 1 .. Len(Q) /\ j \notin 1 .. Len(q)
    BY <1>1, <1>2
  <2>2. PtrAt(Q, j + 1) = PtrAt(q, j)
    BY <2>1 DEF PtrAt
  <2> QED BY <2>2 DEF Q
<1>3. CASE j <= L
  <2>1. /\ j + 1 \in 1 .. Len(Q) /\ j \in 1 .. Len(q)
        /\ j + 1 \in 2 .. L + 1 /\ (j + 1) - 1 = j
    BY <1>1, <1>3
  <2>2. Q[j + 1] = q[j]
    BY <1>1, <2>1
  <2>3. PtrAt(Q, j + 1) = PtrAt(q, j)
    BY <2>1, <2>2 DEF PtrAt
  <2> QED BY <2>3 DEF Q
<1> QED BY <1>1, <1>2, <1>3

LEMMA PushFrontIs ==
  ASSUME NEW mem \in Memory, NEW list \in ListValues, NEW q, ListIs(mem, list, q),
         NEW n \in PoolSlots, mem[n] \in Objects, n \notin RangeOf(q)
  PROVE  LET r == push_front(mem, list, n) IN
         /\ Relinked(mem, r.nodes, RangeOf(q) \cup {n})
         /\ r.list \in ListValues
         /\ ListIs(r.nodes, r.list, <<n>> \o q)
         /\ RangeOf(<<n>> \o q) = RangeOf(q) \cup {n}
<1>0. PICK head \in Pointers, tail \in Pointers, size \in Int :
        list = [head |-> head, tail |-> tail, size |-> size]
  BY DEF ListValues
<1> DEFINE L == Len(q)
           Q == <<n>> \o q
           both == Linked(mem, n, Null, head)
           nodes == SetPrev(both, head, n)
           list2 == [head |-> n, tail |-> IF head = Null THEN n ELSE tail, size |-> size + 1]
<1>1. push_front(mem, list, n) = [nodes |-> nodes, list |-> list2]
  <2>1. Null \in Pointers
    BY SlotsFinite
  <2>2. both = [mem EXCEPT ![n].next = head, ![n].prev = Null]
    BY <2>1, LinkedSwapped
  <2> HIDE DEF both
  <2> QED BY <1>0, <2>2 DEF push_front
<1>2. /\ q \in Seq(PoolSlots) /\ L \in Nat
      /\ \A i, j \in 1 .. L : q[i] = q[j] => i = j
      /\ \A i \in 1 .. L : /\ q[i] \in PoolSlots /\ q[i] # n /\ q[i] \in RangeOf(q)
                           /\ mem[q[i]] \in Objects
                           /\ mem[q[i]].next = PtrAt(q, i + 1)
                           /\ mem[q[i]].prev = PtrAt(q, i - 1)
      /\ head = PtrAt(q, 1) /\ tail = PtrAt(q, L) /\ size = L
  BY <1>0 DEF ListIs, Distinct, RangeOf
<1>3. /\ head = 0 <=> L = 0
      /\ L # 0 => tail = q[L] /\ head = q[1]
  BY <1>2, PtrType
<1>4. /\ Q \in Seq(PoolSlots) /\ Len(Q) = L + 1 /\ Q[1] = n
      /\ \A i \in 2 .. L + 1 : Q[i] = q[i - 1]
  BY <1>2, PrependFacts
<1>5. RangeOf(Q) = RangeOf(q) \cup {n} /\ Distinct(Q)
  <2>1. Distinct(q)
    BY DEF ListIs
  <2> QED BY <1>2, <2>1, PrependRange
<1> HIDE DEF Q, L, list2
<1>6. /\ both \in Memory /\ both[n] \in Objects
      /\ both[n].prev = 0 /\ both[n].next = head
      /\ \A m \in PoolSlots \ {n} : both[m] = mem[m]
  <2>1. Null \in Pointers /\ Null = 0
    BY SlotsFinite
  <2> QED BY <2>1, LinkedFacts
<1> HIDE DEF both
<1>7. /\ nodes \in Memory /\ nodes[n] = both[n]
      /\ \A m \in PoolSlots \ {n} : m # head => nodes[m] = mem[m]
      /\ L # 0 => /\ nodes[q[1]] \in Objects /\ nodes[q[1]].prev = n
                  /\ nodes[q[1]].next = mem[q[1]].next
  <2>1. CASE L = 0
    <3>1. nodes = both
      BY <1>3, <2>1, SlotsFinite DEF SetPrev
    <3> QED BY <1>6, <2>1, <3>1
  <2>2. CASE L # 0
    <3>1. /\ head \in PoolSlots /\ head # n /\ head = q[1]
          /\ both[head] \in Objects /\ n \in Pointers
      <4>1. 1 \in 1 .. L
        BY <1>2, <2>2
      <4> QED BY <1>2, <1>3, <1>6, <2>2, <4>1, SlotsFinite
    <3>2. both[head] = mem[head]
      BY <1>6, <3>1
    <3> QED BY <1>6, <3>1, <3>2, SetPrevFacts
  <2> QED BY <2>1, <2>2
<1> HIDE DEF nodes
<1>8. Relinked(mem, nodes, RangeOf(q) \cup {n})
  <2>1. head \in PoolSlots => L # 0 /\ 1 \in 1 .. L /\ head = q[1]
    BY <1>2, <1>3, SlotsFinite
  <2> QED BY <1>2, <1>6, <1>7, <2>1 DEF Relinked
<1>9. list2 \in ListValues
  BY SlotsFinite DEF list2, ListValues
<1>10. ListIs(nodes, list2, Q)
  <2>1. ASSUME NEW i \in 1 .. L + 1
        PROVE  /\ nodes[Q[i]] \in Objects
               /\ nodes[Q[i]].next = PtrAt(Q, i + 1)
               /\ nodes[Q[i]].prev = PtrAt(Q, i - 1)
    <3>1. CASE i = 1
      <4>1. Q[i] = n /\ PtrAt(Q, i - 1) = 0
        BY <1>2, <1>4, <3>1, PtrType
      <4>2. PtrAt(Q, i + 1) = head
        BY <1>2, <1>3, <1>4, <3>1, SlotsFinite DEF PtrAt
      <4> QED BY <1>6, <1>7, <4>1, <4>2
    <3>2. CASE i = 2
      <4>1. i \in 2 .. L + 1 /\ L # 0 /\ 1 \in 1 .. L /\ Q[i] = q[1]
        BY <1>2, <1>4, <3>2
      <4>2. PtrAt(Q, i - 1) = n
        BY <1>2, <1>4, <3>2 DEF PtrAt
      <4>3. PtrAt(Q, i + 1) = PtrAt(q, 1 + 1)
        BY <1>2, <1>4, <3>2, <4>1 DEF PtrAt, L
      <4> QED BY <1>2, <1>7, <3>2, <4>1, <4>2, <4>3
    <3>3. CASE i # 1 /\ i # 2
      <4>1. i \in 2 .. L + 1 /\ i - 1 \in 1 .. L /\ i - 1 # 1 /\ 1 \in 1 .. L
        BY <1>2, <3>3
      <4>2. Q[i] = q[i - 1]
        BY <1>4, <4>1
      <4>3. PtrAt(Q, i + 1) = PtrAt(q, (i - 1) + 1) /\ PtrAt(Q, i - 1) = PtrAt(q, (i - 1) - 1)
        <5>1. /\ i \in 1 .. L + 1 /\ i - 2 \in 1 .. L + 1
              /\ (i - 2) + 1 = i - 1 /\ (i - 1) + 1 = i /\ (i - 1) - 1 = i - 2
          BY <1>2, <3>3
        <5>2. ASSUME NEW j \in 1 .. L + 1 PROVE PtrAt(Q, j + 1) = PtrAt(q, j)
          <6>1. j \in Nat \ {0}
            BY <1>2
          <6> QED BY <1>2, <6>1, PrependPtr DEF Q
        <5>3. PtrAt(Q, (i - 2) + 1) = PtrAt(q, i - 2)
          BY <5>1, <5>2
        <5> QED BY <5>1, <5>2, <5>3
      <4>4. q[i - 1] # head /\ q[i - 1] # n
        BY <1>2, <1>3, <4>1
      <4>5. nodes[q[i - 1]] = mem[q[i - 1]]
        BY <1>2, <1>7, <4>1, <4>4
      <4> QED BY <1>2, <4>1, <4>2, <4>3, <4>5
    <3> QED BY <3>1, <3>2, <3>3
  <2>2. list2.head = PtrAt(Q, 1) /\ list2.size = L + 1
    BY <1>2, <1>4 DEF list2, PtrAt
  <2>3. list2.tail = PtrAt(Q, L + 1)
    <3>1. CASE L = 0
      BY <1>3, <1>4, <3>1, SlotsFinite DEF list2, PtrAt
    <3>2. CASE L # 0
      BY <1>2, <1>3, <1>4, <3>2, SlotsFinite DEF list2, PtrAt
    <3> QED BY <3>1, <3>2
  <2> QED BY <1>4, <1>5, <2>1, <2>2, <2>3 DEF ListIs
<1> QED BY <1>1, <1>5, <1>8, <1>9, <1>10 DEF Q

(* The sequence without its k-th member. *)
Dropped(q, k) == [j \in 1 .. Len(q) - 1 |-> IF j < k THEN q[j] ELSE q[j + 1]]

LEMMA DroppedFacts ==
  ASSUME NEW S, NEW q \in Seq(S), NEW k \in 1 .. Len(q)
  PROVE  /\ Dropped(q, k) \in Seq(S) /\ Len(Dropped(q, k)) = Len(q) - 1
         /\ \A j \in 1 .. Len(q) - 1 :
              Dropped(q, k)[j] = q[IF j < k THEN j ELSE j + 1]
BY DEF Dropped

LEMMA DroppedRange ==
  ASSUME NEW S, NEW q \in Seq(S), NEW k \in 1 .. Len(q), Distinct(q)
  PROVE  Distinct(Dropped(q, k)) /\ RangeOf(Dropped(q, k)) = RangeOf(q) \ {q[k]}
<1> DEFINE L == Len(q)
           Q == Dropped(q, k)
<1>1. /\ L \in Nat /\ Len(Q) = L - 1
      /\ \A j \in 1 .. L - 1 : Q[j] = q[IF j < k THEN j ELSE j + 1]
      /\ \A i, j \in 1 .. L : q[i] = q[j] => i = j
  <2>1. /\ Len(Q) = L - 1
        /\ \A j \in 1 .. L - 1 : Q[j] = q[IF j < k THEN j ELSE j + 1]
    BY ONLY q \in Seq(S), k \in 1 .. Len(q), DroppedFacts
  <2>2. \A i, j \in 1 .. L : q[i] = q[j] => i = j
    BY DEF Distinct
  <2>3. L \in Nat
    OBVIOUS
  <2> QED BY ONLY <2>1, <2>2, <2>3
<1>2. RangeOf(Q) = {Q[j] : j \in 1 .. L - 1} /\ RangeOf(q) = {q[j] : j \in 1 .. L}
  BY <1>1 DEF RangeOf
<1> HIDE DEF Q, L
<1>3. k \in 1 .. L
  BY DEF L
<1>4. ASSUME NEW i \in 1 .. L - 1, NEW j \in 1 .. L - 1, Q[i] = Q[j] PROVE i = j
  <2> DEFINE u(x) == IF x < k THEN x ELSE x + 1
  <2>1. u(i) \in 1 .. L /\ u(j) \in 1 .. L
    BY <1>1
  <2>2. u(i) = u(j)
    BY <1>1, <1>4, <2>1
  <2> QED BY <1>3, <2>2
<1>5. RangeOf(Q) \subseteq RangeOf(q) \ {q[k]}
  <2>1. ASSUME NEW j \in 1 .. L - 1 PROVE Q[j] \in RangeOf(q) \ {q[k]}
    <3>1. PICK i \in 1 .. L : i # k /\ Q[j] = q[i]
      <4>1. CASE j < k
        BY <1>1, <1>3, <4>1
      <4>2. CASE ~(j < k)
        <5>1. j + 1 \in 1 .. L /\ j + 1 # k /\ Q[j] = q[j + 1]
          BY <1>1, <1>3, <4>2
        <5> QED BY <5>1
      <4> QED BY <4>1, <4>2
    <3> QED BY <1>1, <1>2, <1>3, <3>1
  <2> QED BY <1>2, <2>1
<1>6. RangeOf(q) \ {q[k]} \subseteq RangeOf(Q)
  <2>1. ASSUME NEW i \in 1 .. L, q[i] # q[k] PROVE \E j \in 1 .. L - 1 : q[i] = Q[j]
    <3>1. CASE i < k
      <4>1. i \in 1 .. L - 1 /\ Q[i] = q[i]
        BY <1>1, <1>3, <3>1
      <4> QED BY <4>1
    <3>2. CASE ~(i < k)
      <4>1. i # k
        BY <2>1
      <4>2. i - 1 \in 1 .. L - 1 /\ ~(i - 1 < k) /\ (i - 1) + 1 = i
        BY <1>1, <1>3, <3>2, <4>1
      <4>3. Q[i - 1] = q[i]
        BY <1>1, <4>2
      <4> QED BY <4>2, <4>3
    <3> QED BY <3>1, <3>2
  <2> QED BY <1>2, <2>1
<1>7. Distinct(Q)
  BY <1>1, <1>4 DEF Distinct
<1> QED BY <1>5, <1>6, <1>7 DEF Q

(* The same for a pointer that may be null. *)
LEMMA SetNextAny ==
  ASSUME NEW mem \in Memory, NEW node \in Pointers, NEW to \in Pointers,
         node # 0 => mem[node] \in Objects
  PROVE  /\ SetNext(mem, node, to) \in Memory
         /\ \A m \in PoolSlots :
              IF m = node
              THEN /\ SetNext(mem, node, to)[m] \in Objects
                   /\ SetNext(mem, node, to)[m].next = to
                   /\ SetNext(mem, node, to)[m].prev = mem[m].prev
              ELSE SetNext(mem, node, to)[m] = mem[m]
<1>1. CASE node = 0
  BY <1>1, SlotsFinite DEF SetNext
<1>2. CASE node # 0
  <2>1. node \in PoolSlots
    BY <1>2, SlotsFinite
  <2> QED BY <1>2, <2>1, SetNextFacts
<1> QED BY <1>1, <1>2

LEMMA SetPrevAny ==
  ASSUME NEW mem \in Memory, NEW node \in Pointers, NEW to \in Pointers,
         node # 0 => mem[node] \in Objects
  PROVE  /\ SetPrev(mem, node, to) \in Memory
         /\ \A m \in PoolSlots :
              IF m = node
              THEN /\ SetPrev(mem, node, to)[m] \in Objects
                   /\ SetPrev(mem, node, to)[m].prev = to
                   /\ SetPrev(mem, node, to)[m].next = mem[m].next
              ELSE SetPrev(mem, node, to)[m] = mem[m]
<1>1. CASE node = 0
  BY <1>1, SlotsFinite DEF SetPrev
<1>2. CASE node # 0
  <2>1. node \in PoolSlots
    BY <1>2, SlotsFinite
  <2> QED BY <1>2, <2>1, SetPrevFacts
<1> QED BY <1>1, <1>2

LEMMA RemoveIs ==
  ASSUME NEW mem \in Memory, NEW list \in ListValues, NEW q, ListIs(mem, list, q),
         NEW k \in 1 .. Len(q), NEW n, n = q[k]
  PROVE  LET r == remove(mem, list, n) IN
         /\ Relinked(mem, r.nodes, RangeOf(q))
         /\ r.list \in ListValues
         /\ ListIs(r.nodes, r.list, Dropped(q, k))
         /\ RangeOf(Dropped(q, k)) = RangeOf(q) \ {n}
<1>0. PICK head \in Pointers, tail \in Pointers, size \in Int :
        list = [head |-> head, tail |-> tail, size |-> size]
  BY DEF ListValues
<1> DEFINE L == Len(q)
           Q == Dropped(q, k)
           up(j) == IF j < k THEN j ELSE j + 1
<1>2. /\ q \in Seq(PoolSlots) /\ L \in Nat /\ k \in 1 .. L /\ n \in PoolSlots
      /\ \A i, j \in 1 .. L : q[i] = q[j] => i = j
      /\ \A i \in 1 .. L : /\ q[i] \in PoolSlots /\ q[i] \in RangeOf(q)
                           /\ mem[q[i]] \in Objects
                           /\ mem[q[i]].next = PtrAt(q, i + 1)
                           /\ mem[q[i]].prev = PtrAt(q, i - 1)
      /\ head = PtrAt(q, 1) /\ tail = PtrAt(q, L) /\ size = L
  BY <1>0 DEF ListIs, Distinct, RangeOf
<1>3. PICK before \in Pointers, after \in Pointers :
        before = PtrAt(q, k - 1) /\ after = PtrAt(q, k + 1)
  BY <1>2, PtrType
<1> DEFINE m1 == SetNext(mem, before, after)
           m2 == SetPrev(m1, after, before)
           nodes == Linked(m2, n, Null, Null)
           list2 == [head |-> IF before = Null THEN after ELSE head,
                     tail |-> IF after = Null THEN before ELSE tail,
                     size |-> size - 1]
<1>1. remove(mem, list, n) = [nodes |-> nodes, list |-> list2]
  <2>1. mem[n].prev = before /\ mem[n].next = after
    BY <1>2, <1>3
  <2> QED BY <1>0, <2>1 DEF remove, Linked
<1>4. /\ Q \in Seq(PoolSlots) /\ Len(Q) = L - 1
      /\ \A j \in 1 .. L - 1 : Q[j] = q[up(j)]
  BY <1>2, DroppedFacts
<1>5. RangeOf(Q) = RangeOf(q) \ {n} /\ Distinct(Q)
  <2>1. Distinct(q)
    BY DEF ListIs
  <2> QED BY <1>2, <2>1, DroppedRange
<1> HIDE DEF Q, L, list2
<1>6. /\ before # 0 => k - 1 \in 1 .. L /\ before = q[k - 1]
      /\ after # 0 => k + 1 \in 1 .. L /\ after = q[k + 1]
      /\ k = 1 => before = 0
      /\ k # 1 => before # 0
      /\ k = L => after = 0
      /\ k # L => after # 0
  <2>1. k \in Int /\ k - 1 \in Int /\ k + 1 \in Int /\ Len(q) = L
    BY <1>2 DEF L
  <2>2. /\ k - 1 \in 1 .. L => before = q[k - 1]
        /\ before = 0 <=> k - 1 \notin 1 .. L
    BY <1>2, <1>3, <2>1, PtrType
  <2>3. /\ k + 1 \in 1 .. L => after = q[k + 1]
        /\ after = 0 <=> k + 1 \notin 1 .. L
    BY <1>2, <1>3, <2>1, PtrType
  <2>4. /\ k - 1 \in 1 .. L <=> k # 1
        /\ k + 1 \in 1 .. L <=> k # L
    BY <1>2
  <2> QED BY <2>2, <2>3, <2>4
<1>7. /\ m1 \in Memory
      /\ \A m \in PoolSlots :
           IF m = before
           THEN m1[m] \in Objects /\ m1[m].next = after /\ m1[m].prev = mem[m].prev
           ELSE m1[m] = mem[m]
  <2>1. before # 0 => mem[before] \in Objects
    BY <1>2, <1>6
  <2> QED BY <2>1, SetNextAny
<1> HIDE DEF m1
<1>8. /\ m2 \in Memory
      /\ \A m \in PoolSlots :
           IF m = after
           THEN m2[m] \in Objects /\ m2[m].prev = before /\ m2[m].next = m1[m].next
           ELSE m2[m] = m1[m]
  <2>1. after # 0 => after \in PoolSlots /\ mem[after] \in Objects
    BY <1>2, <1>6
  <2>2. after # 0 => m1[after] \in Objects
    BY <1>7, <2>1
  <2> QED BY <1>7, <2>2, SetPrevAny
<1> HIDE DEF m2
<1>9. /\ nodes \in Memory /\ nodes[n] \in Objects
      /\ \A m \in PoolSlots \ {n} : nodes[m] = m2[m]
  <2>1. m2[n] \in Objects
    BY <1>2, <1>7, <1>8
  <2>2. Null \in Pointers
    BY SlotsFinite
  <2> QED BY <1>2, <1>8, <2>1, <2>2, LinkedFacts
<1> HIDE DEF nodes
<1>10. ASSUME NEW m \in PoolSlots, m # n, mem[m] \in Objects
       PROVE  /\ nodes[m] \in Objects
              /\ nodes[m].next = IF m = before THEN after ELSE mem[m].next
              /\ nodes[m].prev = IF m = after THEN before ELSE mem[m].prev
  <2>1. nodes[m] = m2[m]
    BY <1>9, <1>10
  <2>2. /\ m1[m] \in Objects
        /\ m1[m].next = IF m = before THEN after ELSE mem[m].next
        /\ m1[m].prev = mem[m].prev
    BY <1>7, <1>10
  <2>3. /\ m2[m] \in Objects
        /\ m2[m].next = m1[m].next
        /\ m2[m].prev = IF m = after THEN before ELSE m1[m].prev
    BY <1>8, <2>2
  <2> QED BY <2>1, <2>2, <2>3
<1>11. Relinked(mem, nodes, RangeOf(q))
  <2>1. before \in PoolSlots => before \in RangeOf(q) /\ mem[before] \in Objects
    BY <1>2, <1>6, SlotsFinite
  <2>2. after \in PoolSlots => after \in RangeOf(q) /\ mem[after] \in Objects
    BY <1>2, <1>6, SlotsFinite
  <2>3. n \in RangeOf(q) /\ mem[n] \in Objects
    BY <1>2
  <2>4. ASSUME NEW m \in PoolSlots \ RangeOf(q) PROVE nodes[m] = mem[m]
    BY <1>7, <1>8, <1>9, <2>1, <2>2, <2>3
  <2>5. ASSUME NEW m \in PoolSlots PROVE nodes[m] \in Objects <=> mem[m] \in Objects
    <3>1. CASE m \in {before, after, n}
      BY <1>9, <1>10, <2>1, <2>2, <2>3, <3>1
    <3>2. CASE m \notin {before, after, n}
      BY <1>7, <1>8, <1>9, <3>2
    <3> QED BY <3>1, <3>2
  <2> QED BY <1>9, <2>4, <2>5 DEF Relinked
<1>12. list2 \in ListValues
  BY DEF list2, ListValues
<1>13. ASSUME NEW j \in 0 .. L PROVE PtrAt(Q, j) = PtrAt(q, up(j))
  <2>1. CASE j \in 1 .. L - 1
    <3>1. up(j) \in 1 .. L
      BY <1>2, <2>1
    <3> QED BY <1>4, <2>1, <3>1 DEF PtrAt, L
  <2>2. CASE j = 0
    <3>1. up(j) = 0 /\ 0 \notin 1 .. Len(Q) /\ 0 \notin 1 .. Len(q)
      BY <1>2, <2>2
    <3> QED BY <2>2, <3>1 DEF PtrAt
  <2>3. CASE j = L
    <3>1. up(j) = L + 1 /\ L \notin 1 .. Len(Q) /\ L + 1 \notin 1 .. Len(q)
      BY <1>2, <1>4, <2>3 DEF L
    <3> QED BY <2>3, <3>1 DEF PtrAt
  <2> QED BY <1>2, <2>1, <2>2, <2>3
<1>14. ASSUME NEW j \in 1 .. L - 1
       PROVE  /\ nodes[Q[j]] \in Objects
              /\ nodes[Q[j]].next = PtrAt(Q, j + 1)
              /\ nodes[Q[j]].prev = PtrAt(Q, j - 1)
  <2>1. PICK i \in 1 .. L : i = up(j) /\ i # k /\ Q[j] = q[i]
    <3>1. up(j) \in 1 .. L /\ up(j) # k
      <4>1. L \in Nat /\ k \in 1 .. L /\ j \in 1 .. L - 1
        BY <1>2
      <4> QED BY ONLY <4>1
    <3> QED BY <1>4, <3>1
  <2>2. q[i] \in PoolSlots /\ q[i] # n /\ mem[q[i]] \in Objects
    BY <1>2, <2>1
  <2>3. /\ nodes[q[i]] \in Objects
        /\ nodes[q[i]].next = IF q[i] = before THEN after ELSE mem[q[i]].next
        /\ nodes[q[i]].prev = IF q[i] = after THEN before ELSE mem[q[i]].prev
    BY <1>10, <2>2
  <2>4. mem[q[i]].next = PtrAt(q, i + 1) /\ mem[q[i]].prev = PtrAt(q, i - 1)
    BY <1>2
  <2>5. j + 1 \in 0 .. L /\ j - 1 \in 0 .. L
    <3>1. L \in Nat /\ j \in 1 .. L - 1
      BY <1>2
    <3> QED BY ONLY <3>1
  <2>6. PtrAt(Q, j + 1) = PtrAt(q, up(j + 1)) /\ PtrAt(Q, j - 1) = PtrAt(q, up(j - 1))
    BY <1>13, <2>5
  <2>7. nodes[q[i]].next = PtrAt(q, up(j + 1))
    <3>1. CASE j + 1 = k
      <4>1. i = k - 1 /\ k # 1 /\ up(j + 1) = k + 1
        BY <1>2, <2>1, <3>1
      <4>2. q[i] = before
        BY <1>6, <4>1
      <4> QED BY <1>3, <2>3, <4>1, <4>2
    <3>2. CASE j + 1 # k
      <4>1. i # k - 1 /\ up(j + 1) = i + 1
        <5>1. L \in Nat /\ k \in 1 .. L /\ j \in 1 .. L - 1 /\ i = up(j) /\ j + 1 # k
          BY <1>2, <2>1, <3>2
        <5> QED BY ONLY <5>1
      <4>2. q[i] # before
        BY <1>2, <1>6, <2>2, <4>1, SlotsFinite
      <4> QED BY <2>3, <2>4, <4>1, <4>2
    <3> QED BY <3>1, <3>2
  <2>8. nodes[q[i]].prev = PtrAt(q, up(j - 1))
    <3>1. CASE j = k
      <4>1. i = k + 1 /\ k # L /\ up(j - 1) = k - 1
        BY <1>2, <2>1, <3>1
      <4>2. q[i] = after
        BY <1>6, <4>1
      <4> QED BY <1>3, <2>3, <4>1, <4>2
    <3>2. CASE j # k
      <4>1. i # k + 1 /\ up(j - 1) = i - 1
        <5>1. L \in Nat /\ k \in 1 .. L /\ j \in 1 .. L - 1 /\ i = up(j) /\ j # k
          BY <1>2, <2>1, <3>2
        <5> QED BY ONLY <5>1
      <4>2. q[i] # after
        BY <1>2, <1>6, <2>2, <4>1, SlotsFinite
      <4> QED BY <2>3, <2>4, <4>1, <4>2
    <3> QED BY <3>1, <3>2
  <2> QED BY <2>1, <2>3, <2>6, <2>7, <2>8
<1>15. list2.head = PtrAt(Q, 1)
  <2>1. 1 \in 0 .. L
    BY <1>2
  <2>2. PtrAt(Q, 1) = PtrAt(q, up(1))
    BY <1>13, <2>1
  <2>3. CASE k = 1
    <3>1. up(1) = k + 1
      BY <2>3
    <3> QED BY <1>3, <1>6, <2>2, <2>3, <3>1, SlotsFinite DEF list2
  <2>4. CASE k # 1
    <3>1. up(1) = 1
      BY <1>2, <2>4
    <3> QED BY <1>2, <1>6, <2>2, <2>4, <3>1, SlotsFinite DEF list2
  <2> QED BY <2>3, <2>4
<1>16. list2.tail = PtrAt(Q, L - 1) /\ list2.size = L - 1
  <2>1. L - 1 \in 0 .. L
    BY <1>2
  <2>2. PtrAt(Q, L - 1) = PtrAt(q, up(L - 1))
    BY <1>13, <2>1
  <2>3. CASE k = L
    <3>1. up(L - 1) = k - 1
      BY <1>2, <2>3
    <3> QED BY <1>2, <1>3, <1>6, <2>2, <2>3, <3>1, SlotsFinite DEF list2
  <2>4. CASE k # L
    <3>1. up(L - 1) = L
      BY <1>2, <2>4
    <3> QED BY <1>2, <1>6, <2>2, <2>4, <3>1, SlotsFinite DEF list2
  <2> QED BY <2>3, <2>4
<1>17. ListIs(nodes, list2, Q)
  BY <1>4, <1>5, <1>14, <1>15, <1>16 DEF ListIs
<1> QED BY <1>1, <1>5, <1>11, <1>12, <1>17 DEF Q

-----------------------------------------------------------------------------
(* The steps. *)

LEMMA ListKept ==
  ASSUME NEW mem, NEW mem2, NEW list, NEW q, ListIs(mem, list, q),
         \A s \in RangeOf(q) : mem2[s] = mem[s]
  PROVE  ListIs(mem2, list, q)
<1>1. \A i \in 1 .. Len(q) : mem2[q[i]] = mem[q[i]]
  BY DEF RangeOf
<1> QED BY <1>1 DEF ListIs

(* The sequences that PooledInv speaks of are those the walks find. *)
LEMMA InvFacts ==
  ASSUME PooledInv
  PROVE  /\ pool.slots \in Memory /\ pool.free_head \in Pointers /\ pool.size \in Int
         /\ pool = [slots |-> pool.slots, free_head |-> pool.free_head, size |-> pool.size]
         /\ FreeIs(pool, FreeChain(pool)) /\ RangeOf(FreeChain(pool)) = Owned("pool")
         /\ \A l \in Lists :
              /\ lists[l] \in ListValues
              /\ ListIs(pool.slots, lists[l], Forward(pool.slots, lists[l]))
              /\ RangeOf(Forward(pool.slots, lists[l])) = Owned(l)
<1>1. /\ pool.slots \in Memory /\ pool.free_head \in Pointers /\ pool.size \in Int
      /\ pool = [slots |-> pool.slots, free_head |-> pool.free_head, size |-> pool.size]
      /\ \A l \in Lists : lists[l] \in ListValues
  BY DEF PooledInv, PooledType
<1>2. MemOK(pool.slots)
  BY <1>1, MemoryOK
<1>3. PICK q : FreeIs(pool, q) /\ RangeOf(q) = Owned("pool")
  BY DEF PooledInv
<1>4. FreeChain(pool) = q
  BY <1>2, <1>3, FreeChainIs
<1>5. ASSUME NEW l \in Lists
      PROVE  /\ ListIs(pool.slots, lists[l], Forward(pool.slots, lists[l]))
             /\ RangeOf(Forward(pool.slots, lists[l])) = Owned(l)
  <2>1. PICK f : ListIs(pool.slots, lists[l], f) /\ RangeOf(f) = Owned(l)
    BY DEF PooledInv
  <2>2. Forward(pool.slots, lists[l]) = f
    BY <1>2, <2>1, ForwardIs
  <2> QED BY <2>1, <2>2
<1> QED BY <1>1, <1>3, <1>4, <1>5

(* A call on list l moves slot s between the list and a user. *)
LEMMA RelinkStep ==
  ASSUME PooledInv, NEW l \in Lists, NEW s \in PoolSlots, NEW to \in {"user", l},
         owner[s] \in {"user", l}, NEW nodes, NEW list, NEW q,
         Relink([nodes |-> nodes, list |-> list], l, s, to),
         Relinked(pool.slots, nodes, Owned(l) \cup {s}), list \in ListValues,
         ListIs(nodes, list, q),
         to = l => RangeOf(q) = Owned(l) \cup {s},
         to # l => RangeOf(q) = Owned(l) \ {s}
  PROVE  /\ PooledInv'
         /\ FreeChain(pool') = FreeChain(pool) /\ Held' = Held
         /\ \A k \in Lists : Forward(pool'.slots, lists'[k]) =
                               IF k = l THEN q ELSE Forward(pool.slots, lists[k])
<1>1. "pool" \notin Lists /\ "user" \notin Lists /\ to # "pool" /\ owner[s] # "pool"
  BY PooledAssumption
<1>2. /\ pool' = [pool EXCEPT !.slots = nodes]
      /\ lists' = [lists EXCEPT ![l] = list]
      /\ owner' = [owner EXCEPT ![s] = to]
  BY DEF Relink
<1>3. /\ pool.slots \in Memory /\ pool.free_head \in Pointers /\ pool.size \in Int
      /\ pool = [slots |-> pool.slots, free_head |-> pool.free_head, size |-> pool.size]
      /\ FreeIs(pool, FreeChain(pool)) /\ RangeOf(FreeChain(pool)) = Owned("pool")
      /\ \A k \in Lists :
           /\ lists[k] \in ListValues
           /\ ListIs(pool.slots, lists[k], Forward(pool.slots, lists[k]))
           /\ RangeOf(Forward(pool.slots, lists[k])) = Owned(k)
  BY InvFacts
<1>4. /\ lists \in [Lists -> ListValues]
      /\ owner \in [PoolSlots -> {"pool", "user"} \cup Lists]
      /\ \A n \in PoolSlots : pool.slots[n] \in Objects <=> owner[n] # "pool"
      /\ pool.size = Cardinality(Held)
  BY DEF PooledInv, PooledType
<1>5. /\ pool'.slots = nodes /\ pool'.free_head = pool.free_head /\ pool'.size = pool.size
      /\ pool' = [slots |-> nodes, free_head |-> pool.free_head, size |-> pool.size]
  BY <1>2, <1>3
<1>6. /\ nodes \in Memory
      /\ \A m \in PoolSlots : nodes[m] \in Objects <=> pool.slots[m] \in Objects
      /\ \A m \in PoolSlots : m \notin Owned(l) /\ m # s => nodes[m] = pool.slots[m]
  BY DEF Relinked
<1>7. PooledType'
  <2>1. pool' \in [slots : Memory, free_head : Pointers, size : Int]
    BY <1>3, <1>5, <1>6
  <2>2. lists' \in [Lists -> ListValues]
    BY <1>2, <1>4
  <2>3. owner' \in [PoolSlots -> {"pool", "user"} \cup Lists]
    BY <1>2, <1>4
  <2> QED BY <2>1, <2>2, <2>3 DEF PooledType
<1>8. \A n \in PoolSlots : owner'[n] # "pool" <=> owner[n] # "pool"
  BY <1>1, <1>2, <1>4
<1>9. Held' = Held
  BY <1>8 DEF Held
<1>10. MemOK(pool'.slots)
  BY <1>5, <1>6, MemoryOK
<1>11. FreeIs(pool', FreeChain(pool)) /\ RangeOf(FreeChain(pool)) = Owned("pool")'
  <2> DEFINE c == FreeChain(pool)
  <2> HIDE DEF c
  <2>1. /\ c \in Seq(PoolSlots) /\ Distinct(c) /\ pool.free_head = PtrAt(c, 1)
        /\ \A i \in 1 .. Len(c) : pool.slots[c[i]] = FreeSlot(PtrAt(c, i + 1))
        /\ RangeOf(c) = Owned("pool")
    BY <1>3 DEF FreeIs, c
  <2>2. ASSUME NEW i \in 1 .. Len(c) PROVE nodes[c[i]] = pool.slots[c[i]]
    <3>1. c[i] \in PoolSlots /\ owner[c[i]] = "pool"
      BY <2>1 DEF RangeOf, Owned
    <3>2. c[i] \notin Owned(l) /\ c[i] # s
      BY <1>1, <3>1 DEF Owned
    <3> QED BY <1>6, <3>1, <3>2
  <2>3. FreeIs(pool', c)
    BY <1>5, <2>1, <2>2 DEF FreeIs
  <2>4. Owned("pool")' = Owned("pool")
    BY <1>8 DEF Owned
  <2> QED BY <2>1, <2>3, <2>4 DEF c
<1>12. ASSUME NEW k \in Lists, k # l
       PROVE  /\ ListIs(pool'.slots, lists'[k], Forward(pool.slots, lists[k]))
              /\ RangeOf(Forward(pool.slots, lists[k])) = Owned(k)'
  <2>1. lists'[k] = lists[k]
    BY <1>2, <1>4, <1>12
  <2>2. \A n \in PoolSlots : owner'[n] = k <=> owner[n] = k
    BY <1>1, <1>2, <1>4, <1>12
  <2>3. Owned(k)' = Owned(k)
    BY <2>2 DEF Owned
  <2>4. \A n \in Owned(k) : nodes[n] = pool.slots[n]
    BY <1>1, <1>6, <1>12 DEF Owned
  <2> DEFINE f == Forward(pool.slots, lists[k])
  <2>5. ListIs(pool.slots, lists[k], f) /\ RangeOf(f) = Owned(k)
    BY <1>3
  <2> HIDE DEF f
  <2>6. ListIs(nodes, lists[k], f)
    BY <2>4, <2>5, ListKept
  <2> QED BY <1>5, <2>1, <2>3, <2>5, <2>6 DEF f
<1>13. ListIs(pool'.slots, lists'[l], q) /\ RangeOf(q) = Owned(l)'
  <2>1. lists'[l] = list
    BY <1>2, <1>4
  <2>2. Owned(l)' = IF to = l THEN Owned(l) \cup {s} ELSE Owned(l) \ {s}
    BY <1>2, <1>4 DEF Owned
  <2> QED BY <1>5, <2>1, <2>2
<1>14. PooledInv'
  <2>1. \A n \in PoolSlots : pool'.slots[n] \in Objects <=> owner'[n] # "pool"
    BY <1>4, <1>5, <1>6, <1>8
  <2>2. pool'.size = Cardinality(Held')
    BY <1>4, <1>5, <1>9
  <2>3. \E c : FreeIs(pool', c) /\ RangeOf(c) = Owned("pool")'
    BY <1>11
  <2>4. \A k \in Lists : \E f : ListIs(pool'.slots, lists'[k], f) /\ RangeOf(f) = Owned(k)'
    BY <1>12, <1>13
  <2> QED BY <1>7, <2>1, <2>2, <2>3, <2>4 DEF PooledInv
<1>15. FreeChain(pool') = FreeChain(pool)
  BY <1>10, <1>11, FreeChainIs
<1>16. ASSUME NEW k \in Lists
       PROVE  Forward(pool'.slots, lists'[k]) =
                IF k = l THEN q ELSE Forward(pool.slots, lists[k])
  <2>1. CASE k = l
    BY <1>10, <1>13, <2>1, ForwardIs
  <2>2. CASE k # l
    BY <1>10, <1>12, <2>2, ForwardIs
  <2> QED BY <2>1, <2>2
<1> QED BY <1>9, <1>14, <1>15, <1>16

(* What a list operation does to the sequences. *)
LEMMA PushBackStep ==
  ASSUME PooledInv, NEW l \in Lists, NEW s \in PoolSlots, PushBack(l, s)
  PROVE  /\ PooledInv'
         /\ FreeChain(pool') = FreeChain(pool) /\ Held' = Held
         /\ owner[s] = "user"
         /\ \A k \in Lists : Forward(pool'.slots, lists'[k]) =
              IF k = l THEN Append(Forward(pool.slots, lists[l]), s)
              ELSE Forward(pool.slots, lists[k])
<1> DEFINE mem == pool.slots
           f == Forward(pool.slots, lists[l])
<1>1. mem \in Memory /\ lists[l] \in ListValues
      /\ ListIs(mem, lists[l], f) /\ RangeOf(f) = Owned(l)
  BY InvFacts
<1>2. owner[s] = "user" /\ "user" # l /\ mem[s] \in Objects
  BY PooledAssumption DEF PushBack, PooledInv
<1>3. s \notin RangeOf(f)
  BY <1>1, <1>2 DEF Owned
<1>4. PICK list : list = lists[l]
  OBVIOUS
<1> HIDE DEF f, mem
<1>5. PICK r : r = push_back(mem, list, s)
  OBVIOUS
<1>6. /\ Relinked(mem, r.nodes, RangeOf(f) \cup {s}) /\ r.list \in ListValues
      /\ ListIs(r.nodes, r.list, Append(f, s))
      /\ RangeOf(Append(f, s)) = RangeOf(f) \cup {s}
  <2>1. /\ mem \in Memory /\ list \in ListValues /\ ListIs(mem, list, f)
        /\ s \in PoolSlots /\ mem[s] \in Objects /\ s \notin RangeOf(f)
    BY <1>1, <1>2, <1>3, <1>4
  <2> QED BY ONLY <1>5, <2>1, PushBackIs
<1>7. Relink(r, l, s, l)
  BY <1>4, <1>5 DEF PushBack, mem
<1>8. Relink([nodes |-> r.nodes, list |-> r.list], l, s, l)
  BY <1>7 DEF Relink
<1>9. PICK nodes, list2 : nodes = r.nodes /\ list2 = r.list
  OBVIOUS
<1>10. /\ Relink([nodes |-> nodes, list |-> list2], l, s, l)
       /\ Relinked(pool.slots, nodes, Owned(l) \cup {s}) /\ list2 \in ListValues
       /\ ListIs(nodes, list2, Append(f, s))
       /\ RangeOf(Append(f, s)) = Owned(l) \cup {s}
  BY <1>1, <1>6, <1>8, <1>9 DEF mem
<1>11. owner[s] \in {"user", l} /\ l \in {"user", l}
  BY <1>2
<1>12. /\ PooledInv'
       /\ FreeChain(pool') = FreeChain(pool) /\ Held' = Held
       /\ \A k \in Lists : Forward(pool'.slots, lists'[k]) =
                             IF k = l THEN Append(f, s) ELSE Forward(pool.slots, lists[k])
  BY ONLY <1>10, <1>11, PooledInv, l \in Lists, s \in PoolSlots, RelinkStep
<1> QED BY <1>2, <1>12 DEF f

LEMMA PushFrontStep ==
  ASSUME PooledInv, NEW l \in Lists, NEW s \in PoolSlots, PushFront(l, s)
  PROVE  /\ PooledInv'
         /\ FreeChain(pool') = FreeChain(pool) /\ Held' = Held
         /\ owner[s] = "user"
         /\ \A k \in Lists : Forward(pool'.slots, lists'[k]) =
              IF k = l THEN <<s>> \o Forward(pool.slots, lists[l])
              ELSE Forward(pool.slots, lists[k])
<1> DEFINE mem == pool.slots
           f == Forward(pool.slots, lists[l])
<1>1. mem \in Memory /\ lists[l] \in ListValues
      /\ ListIs(mem, lists[l], f) /\ RangeOf(f) = Owned(l)
  BY InvFacts
<1>2. owner[s] = "user" /\ "user" # l /\ mem[s] \in Objects
  BY PooledAssumption DEF PushFront, PooledInv
<1>3. s \notin RangeOf(f)
  BY <1>1, <1>2 DEF Owned
<1>4. PICK list : list = lists[l]
  OBVIOUS
<1> HIDE DEF f, mem
<1>5. PICK r : r = push_front(mem, list, s)
  OBVIOUS
<1> DEFINE g == <<s>> \o f
<1>6. /\ Relinked(mem, r.nodes, RangeOf(f) \cup {s}) /\ r.list \in ListValues
      /\ ListIs(r.nodes, r.list, g)
      /\ RangeOf(g) = RangeOf(f) \cup {s}
  <2>1. /\ mem \in Memory /\ list \in ListValues /\ ListIs(mem, list, f)
        /\ s \in PoolSlots /\ mem[s] \in Objects /\ s \notin RangeOf(f)
    BY <1>1, <1>2, <1>3, <1>4
  <2> QED BY ONLY <1>5, <2>1, PushFrontIs
<1> HIDE DEF g
<1>7. Relink(r, l, s, l)
  BY <1>4, <1>5 DEF PushFront, mem
<1>8. Relink([nodes |-> r.nodes, list |-> r.list], l, s, l)
  BY <1>7 DEF Relink
<1>9. PICK nodes, list2 : nodes = r.nodes /\ list2 = r.list
  OBVIOUS
<1>10. /\ Relink([nodes |-> nodes, list |-> list2], l, s, l)
       /\ Relinked(pool.slots, nodes, Owned(l) \cup {s}) /\ list2 \in ListValues
       /\ ListIs(nodes, list2, g)
       /\ RangeOf(g) = Owned(l) \cup {s}
  BY <1>1, <1>6, <1>8, <1>9 DEF mem
<1>11. owner[s] \in {"user", l} /\ l \in {"user", l}
  BY <1>2
<1>12. /\ PooledInv'
       /\ FreeChain(pool') = FreeChain(pool) /\ Held' = Held
       /\ \A k \in Lists : Forward(pool'.slots, lists'[k]) =
                             IF k = l THEN g ELSE Forward(pool.slots, lists[k])
  BY ONLY <1>10, <1>11, PooledInv, l \in Lists, s \in PoolSlots, RelinkStep
<1> QED BY <1>2, <1>12 DEF f, g

LEMMA RemoveStep ==
  ASSUME PooledInv, NEW l \in Lists, NEW s \in PoolSlots, Remove(l, s)
  PROVE  /\ PooledInv'
         /\ FreeChain(pool') = FreeChain(pool) /\ Held' = Held
         /\ \E i \in 1 .. Len(Forward(pool.slots, lists[l])) :
              /\ Forward(pool.slots, lists[l])[i] = s
              /\ \A k \in Lists : Forward(pool'.slots, lists'[k]) =
                   IF k = l THEN Dropped(Forward(pool.slots, lists[l]), i)
                   ELSE Forward(pool.slots, lists[k])
<1> DEFINE mem == pool.slots
           f == Forward(pool.slots, lists[l])
<1>1. mem \in Memory /\ lists[l] \in ListValues
      /\ ListIs(mem, lists[l], f) /\ RangeOf(f) = Owned(l)
  BY InvFacts
<1>2. owner[s] = l /\ "user" # l
  BY PooledAssumption DEF Remove
<1>3. s \in RangeOf(f)
  BY <1>1, <1>2 DEF Owned
<1>4. PICK list : list = lists[l]
  OBVIOUS
<1> HIDE DEF f, mem
<1>5. PICK i \in 1 .. Len(f) : s = f[i]
  BY <1>3 DEF RangeOf
<1>6. PICK r : r = remove(mem, list, s)
  OBVIOUS
<1> DEFINE g == Dropped(f, i)
<1>7. /\ Relinked(mem, r.nodes, RangeOf(f)) /\ r.list \in ListValues
      /\ ListIs(r.nodes, r.list, g)
      /\ RangeOf(g) = RangeOf(f) \ {s}
  BY <1>1, <1>4, <1>5, <1>6, RemoveIs
<1> HIDE DEF g
<1>8. Relink(r, l, s, "user")
  BY <1>4, <1>6 DEF Remove, mem
<1>9. Relink([nodes |-> r.nodes, list |-> r.list], l, s, "user")
  BY <1>8 DEF Relink
<1>10. PICK nodes, list2 : nodes = r.nodes /\ list2 = r.list
  OBVIOUS
<1>11. PICK to : to = "user"
  OBVIOUS
<1>12. /\ Relink([nodes |-> nodes, list |-> list2], l, s, to)
       /\ Relinked(pool.slots, nodes, Owned(l) \cup {s}) /\ list2 \in ListValues
       /\ ListIs(nodes, list2, g)
       /\ to # l /\ RangeOf(g) = Owned(l) \ {s}
       /\ owner[s] \in {"user", l} /\ to \in {"user", l}
  <2>1. Owned(l) \cup {s} = Owned(l)
    BY <1>2 DEF Owned
  <2> QED BY <1>1, <1>2, <1>7, <1>9, <1>10, <1>11, <2>1 DEF mem
<1>13. /\ PooledInv'
       /\ FreeChain(pool') = FreeChain(pool) /\ Held' = Held
       /\ \A k \in Lists : Forward(pool'.slots, lists'[k]) =
                             IF k = l THEN g ELSE Forward(pool.slots, lists[k])
  BY ONLY <1>12, PooledInv, l \in Lists, s \in PoolSlots, RelinkStep
<1> QED BY <1>5, <1>13 DEF f, g

LEMMA HeldFinite ==
  IsFiniteSet(Held) /\ Held \subseteq PoolSlots /\ Cardinality(Held) \in Nat
<1>1. Held \subseteq PoolSlots
  BY DEF Held
<1> QED BY <1>1, SlotsFinite, FS_Subset, FS_CardinalityType

LEMMA TailFacts ==
  ASSUME NEW c \in Seq(PoolSlots), c # << >>, Distinct(c)
  PROVE  /\ Tail(c) \in Seq(PoolSlots) /\ Distinct(Tail(c))
         /\ Len(c) \in Nat /\ 1 \in 1 .. Len(c)
         /\ Len(Tail(c)) = Len(c) - 1 /\ c[1] \in PoolSlots
         /\ \A i \in 1 .. Len(c) - 1 : Tail(c)[i] = c[i + 1] /\ i + 1 \in 1 .. Len(c)
         /\ \A i \in 1 .. Len(c) - 1 : c[i + 1] # c[1]
         /\ \A i \in Nat \ {0} : PtrAt(Tail(c), i) = PtrAt(c, i + 1)
         /\ RangeOf(Tail(c)) = RangeOf(c) \ {c[1]}
<1>0. Len(c) \in Nat /\ 1 \in 1 .. Len(c)
  OBVIOUS
<1> DEFINE t == Dropped(c, 1)
<1>1. t \in Seq(PoolSlots) /\ Len(t) = Len(c) - 1
      /\ \A j \in 1 .. Len(c) - 1 : t[j] = c[IF j < 1 THEN j ELSE j + 1]
  BY <1>0, DroppedFacts
<1>2. Distinct(t) /\ RangeOf(t) = RangeOf(c) \ {c[1]}
  BY <1>0, DroppedRange
<1> HIDE DEF t
<1>3. \A j \in 1 .. Len(c) - 1 : t[j] = c[j + 1] /\ j + 1 \in 1 .. Len(c)
  BY <1>0, <1>1
<1>4. Tail(c) = t
  <2>1. /\ Tail(c) \in Seq(PoolSlots) /\ Len(Tail(c)) = Len(c) - 1
        /\ \A j \in 1 .. Len(c) - 1 : Tail(c)[j] = c[j + 1]
    BY <1>0
  <2> QED BY <1>1, <1>3, <2>1
<1>5. \A i \in 1 .. Len(c) - 1 : c[i + 1] # c[1]
  <2>1. \A i, j \in 1 .. Len(c) : c[i] = c[j] => i = j
    BY DEF Distinct
  <2>2. ASSUME NEW i \in 1 .. Len(c) - 1 PROVE c[i + 1] # c[1]
    <3>1. i + 1 \in 1 .. Len(c) /\ i + 1 # 1
      BY <1>0
    <3> QED BY <1>0, <2>1, <3>1
  <2> QED BY <2>2
<1>6. ASSUME NEW i \in Nat \ {0} PROVE PtrAt(t, i) = PtrAt(c, i + 1)
  <2>1. i \in 1 .. Len(t) <=> i + 1 \in 1 .. Len(c)
    BY <1>0, <1>1
  <2>2. i \in 1 .. Len(t) => t[i] = c[i + 1]
    BY <1>1, <1>3
  <2> QED BY <2>1, <2>2 DEF PtrAt
<1>7. c[1] \in PoolSlots
  BY <1>0
<1> QED BY <1>0, <1>1, <1>2, <1>3, <1>4, <1>5, <1>6, <1>7, Zenon

(* A slot that goes between the pool and a user; the lists do not notice. *)
LEMMA PoolStep ==
  ASSUME PooledInv, NEW s \in PoolSlots, owner[s] \in {"pool", "user"},
         NEW to \in {"pool", "user"}, NEW v \in Objects \cup FreeSlots,
         v \in Objects <=> to # "pool", NEW h \in Pointers, NEW z \in Int,
         pool' = [slots |-> [pool.slots EXCEPT ![s] = v], free_head |-> h, size |-> z],
         owner' = [owner EXCEPT ![s] = to], UNCHANGED lists,
         z = Cardinality(Held'), NEW q, FreeIs(pool', q), RangeOf(q) = Owned("pool")'
  PROVE  /\ PooledInv' /\ FreeChain(pool') = q
         /\ \A l \in Lists : Forward(pool'.slots, lists'[l]) = Forward(pool.slots, lists[l])
<1>1. "pool" \notin Lists /\ "user" \notin Lists
  BY PooledAssumption
<1>2. /\ pool.slots \in Memory
      /\ \A l \in Lists :
           /\ lists[l] \in ListValues
           /\ ListIs(pool.slots, lists[l], Forward(pool.slots, lists[l]))
           /\ RangeOf(Forward(pool.slots, lists[l])) = Owned(l)
  BY InvFacts
<1>3. /\ lists \in [Lists -> ListValues]
      /\ owner \in [PoolSlots -> {"pool", "user"} \cup Lists]
      /\ \A n \in PoolSlots : pool.slots[n] \in Objects <=> owner[n] # "pool"
  BY DEF PooledInv, PooledType
<1>4. PICK nodes : nodes = [pool.slots EXCEPT ![s] = v]
  OBVIOUS
<1>5. nodes \in Memory /\ nodes[s] = v /\ \A n \in PoolSlots : n # s => nodes[n] = pool.slots[n]
  BY <1>2, <1>4 DEF Memory
<1>6. /\ pool' = [slots |-> nodes, free_head |-> h, size |-> z]
      /\ pool'.slots = nodes /\ pool'.size = z
  BY <1>4
<1>7. PooledType'
  <2>1. pool' \in [slots : Memory, free_head : Pointers, size : Int]
    BY <1>5, <1>6
  <2>2. owner' \in [PoolSlots -> {"pool", "user"} \cup Lists]
    BY <1>3
  <2> QED BY <1>3, <2>1, <2>2 DEF PooledType
<1>8. \A n \in PoolSlots : pool'.slots[n] \in Objects <=> owner'[n] # "pool"
  BY <1>3, <1>5, <1>6
<1>9. MemOK(pool'.slots)
  BY <1>5, <1>6, MemoryOK
<1>10. ASSUME NEW l \in Lists
       PROVE  /\ ListIs(pool'.slots, lists'[l], Forward(pool.slots, lists[l]))
              /\ RangeOf(Forward(pool.slots, lists[l])) = Owned(l)'
  <2>1. \A n \in PoolSlots : owner'[n] = l <=> owner[n] = l
    BY <1>1, <1>3
  <2>2. Owned(l)' = Owned(l)
    BY <2>1 DEF Owned
  <2>3. \A n \in Owned(l) : nodes[n] = pool.slots[n]
    BY <1>1, <1>5 DEF Owned
  <2> DEFINE f == Forward(pool.slots, lists[l])
  <2>4. ListIs(pool.slots, lists[l], f) /\ RangeOf(f) = Owned(l)
    BY <1>2
  <2> HIDE DEF f
  <2>5. ListIs(nodes, lists[l], f)
    BY <2>3, <2>4, ListKept
  <2> QED BY <1>6, <2>2, <2>4, <2>5 DEF f
<1>11. PooledInv'
  <2>1. pool'.size = Cardinality(Held')
    BY <1>6
  <2>2. \E c : FreeIs(pool', c) /\ RangeOf(c) = Owned("pool")'
    OBVIOUS
  <2>3. \A k \in Lists : \E f : ListIs(pool'.slots, lists'[k], f) /\ RangeOf(f) = Owned(k)'
    BY <1>10
  <2> QED BY <1>7, <1>8, <2>1, <2>2, <2>3 DEF PooledInv
<1>12. FreeChain(pool') = q
  BY <1>9, FreeChainIs
<1>13. \A l \in Lists : Forward(pool'.slots, lists'[l]) = Forward(pool.slots, lists[l])
  BY <1>9, <1>10, ForwardIs
<1> QED BY <1>11, <1>12, <1>13

LEMMA AcquireStep ==
  ASSUME PooledInv, Acquire
  PROVE  /\ PooledInv'
         /\ \A l \in Lists : Forward(pool'.slots, lists'[l]) = Forward(pool.slots, lists[l])
         /\ \/ UNCHANGED pooledVars
            \/ LET c == FreeChain(pool) IN
               /\ c # << >> /\ FreeChain(pool') = Tail(c)
               /\ c[1] \in PoolSlots /\ c[1] \notin Held /\ Held' = Held \cup {c[1]}
               /\ pool'.slots = [pool.slots EXCEPT ![c[1]] = NewNode]
<1> DEFINE c == FreeChain(pool)
<1>1. /\ pool.slots \in Memory /\ pool.free_head \in Pointers
      /\ FreeIs(pool, c) /\ RangeOf(c) = Owned("pool")
  BY InvFacts
<1> HIDE DEF c
<1>2. /\ c \in Seq(PoolSlots) /\ Distinct(c) /\ pool.free_head = PtrAt(c, 1)
      /\ \A i \in 1 .. Len(c) : pool.slots[c[i]] = FreeSlot(PtrAt(c, i + 1))
  BY <1>1 DEF FreeIs
<1>3. /\ owner \in [PoolSlots -> {"pool", "user"} \cup Lists]
      /\ pool.size = Cardinality(Held) /\ pool.size \in Int
  BY DEF PooledInv, PooledType
<1>4. CASE c = << >>
  <2>1. pool.free_head = 0
    <3>1. Len(c) = 0 /\ 1 \notin 1 .. Len(c)
      BY <1>4
    <3> QED BY <1>2, <3>1, SlotsFinite DEF PtrAt
  <2>2. acquire(pool, NewNode) = [ptr |-> None, pool |-> pool]
    BY <2>1, SlotsFinite DEF acquire
  <2>3. pool' = pool /\ lists' = lists
    BY <2>2 DEF Acquire
  <2>4. owner' = [s \in PoolSlots |-> IF s = 0 THEN "user" ELSE owner[s]]
    BY <2>2, SlotsFinite DEF Acquire
  <2>5. owner' = owner
    BY <1>3, <2>4, SlotsFinite
  <2>6. PooledInv'
    <3>1. Held' = Held /\ Owned("pool")' = Owned("pool") /\ \A l \in Lists : Owned(l)' = Owned(l)
      BY <2>5 DEF Held, Owned
    <3>2. PooledType'
      BY <2>3, <2>5 DEF PooledInv, PooledType
    <3> QED BY <2>3, <2>5, <3>1, <3>2 DEF PooledInv
  <2> QED BY <2>3, <2>5, <2>6 DEF pooledVars
<1>5. CASE c # << >>
  <2>1. /\ Tail(c) \in Seq(PoolSlots) /\ Distinct(Tail(c))
        /\ Len(c) \in Nat /\ 1 \in 1 .. Len(c)
        /\ Len(Tail(c)) = Len(c) - 1 /\ c[1] \in PoolSlots
        /\ \A i \in 1 .. Len(c) - 1 : Tail(c)[i] = c[i + 1] /\ i + 1 \in 1 .. Len(c)
        /\ \A i \in 1 .. Len(c) - 1 : c[i + 1] # c[1]
        /\ \A i \in Nat \ {0} : PtrAt(Tail(c), i) = PtrAt(c, i + 1)
        /\ RangeOf(Tail(c)) = RangeOf(c) \ {c[1]}
    BY <1>2, <1>5, TailFacts
  <2>2. PICK s \in PoolSlots : s = c[1]
    BY <2>1
  <2>3. PICK t : t = Tail(c)
    OBVIOUS
  <2>4. PICK h \in Pointers : h = PtrAt(c, 2)
    BY <1>2, PtrType
  <2>5. pool.free_head = s /\ s # 0 /\ pool.slots[s] = FreeSlot(h)
    <3>1. PtrAt(c, 1) = c[1]
      BY <2>1 DEF PtrAt
    <3>2. pool.slots[c[1]] = FreeSlot(PtrAt(c, 1 + 1))
      BY <1>2, <2>1
    <3> QED BY <1>2, <2>2, <2>4, <3>1, <3>2, SlotsFinite
  <2>6. pool.slots[s].next_free = h
    BY <2>5, FreeSlotFacts
  <2>7. PICK z \in Int : z = pool.size + 1
    BY <1>3
  <2>8. acquire(pool, NewNode) =
          [ptr |-> s, pool |-> [slots |-> [pool.slots EXCEPT ![s] = NewNode],
                                free_head |-> h, size |-> z]]
    BY <2>5, <2>6, <2>7, SlotsFinite DEF acquire
  <2>9. /\ pool' = [slots |-> [pool.slots EXCEPT ![s] = NewNode], free_head |-> h, size |-> z]
        /\ lists' = lists
        /\ owner' = [owner EXCEPT ![s] = "user"]
    <3>1. owner' = [n \in PoolSlots |-> IF n = s THEN "user" ELSE owner[n]]
      BY <2>8 DEF Acquire
    <3>2. owner' = [owner EXCEPT ![s] = "user"]
      BY <1>3, <3>1
    <3>3. pool' = acquire(pool, NewNode).pool /\ lists' = lists
      BY DEF Acquire
    <3> QED BY <2>8, <3>2, <3>3
  <2>10. s \in RangeOf(c)
    BY <2>1, <2>2 DEF RangeOf
  <2>11. owner[s] = "pool" /\ s \notin Held
    BY <1>1, <2>10 DEF Owned, Held
  <2>12. Held' = Held \cup {s}
    BY <1>3, <2>9 DEF Held
  <2>13. z = Cardinality(Held')
    BY <1>3, <2>7, <2>11, <2>12, HeldFinite, FS_AddElement
  <2>14. Owned("pool")' = Owned("pool") \ {s}
    BY <1>3, <2>9 DEF Owned
  <2>15. FreeIs(pool', t)
    <3>1. t \in Seq(PoolSlots) /\ Distinct(t)
      BY <2>1, <2>3
    <3>2. pool'.free_head = PtrAt(t, 1)
      <4>1. PtrAt(t, 1) = PtrAt(c, 1 + 1)
        BY <2>1, <2>3
      <4> QED BY <2>4, <2>9, <4>1
    <3>3. ASSUME NEW i \in 1 .. Len(t) PROVE pool'.slots[t[i]] = FreeSlot(PtrAt(t, i + 1))
      <4>1. i \in 1 .. Len(c) - 1 /\ i \in Nat /\ i + 1 \in Nat \ {0}
        BY <2>1, <2>3
      <4>2. t[i] = c[i + 1] /\ i + 1 \in 1 .. Len(c) /\ c[i + 1] # s /\ c[i + 1] \in PoolSlots
        BY <1>2, <2>1, <2>2, <2>3, <4>1
      <4>3. pool'.slots[c[i + 1]] = pool.slots[c[i + 1]]
        BY <1>1, <2>9, <4>2 DEF Memory
      <4>4. pool.slots[c[i + 1]] = FreeSlot(PtrAt(c, (i + 1) + 1))
        BY <1>2, <4>2
      <4>5. PtrAt(t, i + 1) = PtrAt(c, (i + 1) + 1)
        BY <2>1, <2>3, <4>1
      <4> QED BY <4>2, <4>3, <4>4, <4>5
    <3> QED BY <3>1, <3>2, <3>3 DEF FreeIs
  <2>16. RangeOf(t) = Owned("pool")'
    BY <1>1, <2>1, <2>2, <2>3, <2>14
  <2>17. NewNode \in Objects
    BY ObjectsAssumption DEF Linkable
  <2>18. PICK to, v : to = "user" /\ v = NewNode
    OBVIOUS
  <2>19. /\ to \in {"pool", "user"} /\ v \in Objects \cup FreeSlots /\ (v \in Objects <=> to # "pool")
         /\ owner[s] \in {"pool", "user"} /\ owner' = [owner EXCEPT ![s] = to]
         /\ pool' = [slots |-> [pool.slots EXCEPT ![s] = v], free_head |-> h, size |-> z]
         /\ UNCHANGED lists
    BY <2>9, <2>11, <2>17, <2>18
  <2>20. /\ PooledInv' /\ FreeChain(pool') = t
         /\ \A l \in Lists : Forward(pool'.slots, lists'[l]) = Forward(pool.slots, lists[l])
    BY <2>13, <2>15, <2>16, <2>19, PoolStep
  <2>21. pool'.slots = [pool.slots EXCEPT ![s] = NewNode]
    BY <2>9
  <2> QED BY <1>5, <2>2, <2>3, <2>11, <2>12, <2>20, <2>21 DEF c
<1> QED BY <1>4, <1>5

LEMMA ReleaseStep ==
  ASSUME PooledInv, NEW s \in PoolSlots, Release(s)
  PROVE  /\ PooledInv'
         /\ \A l \in Lists : Forward(pool'.slots, lists'[l]) = Forward(pool.slots, lists[l])
         /\ FreeChain(pool') = <<s>> \o FreeChain(pool)
         /\ s \in Held /\ Held' = Held \ {s}
         /\ \A n \in PoolSlots \ {s} : pool'.slots[n] = pool.slots[n]
<1> DEFINE c == FreeChain(pool)
           t == <<s>> \o c
<1>1. /\ pool.slots \in Memory /\ pool.free_head \in Pointers
      /\ FreeIs(pool, c) /\ RangeOf(c) = Owned("pool")
  BY InvFacts
<1> HIDE DEF c
<1>2. /\ c \in Seq(PoolSlots) /\ Distinct(c) /\ pool.free_head = PtrAt(c, 1)
      /\ Len(c) \in Nat
      /\ \A i \in 1 .. Len(c) : pool.slots[c[i]] = FreeSlot(PtrAt(c, i + 1))
  BY <1>1 DEF FreeIs
<1>3. /\ owner \in [PoolSlots -> {"pool", "user"} \cup Lists]
      /\ pool.size = Cardinality(Held) /\ pool.size \in Int
  BY DEF PooledInv, PooledType
<1>4. owner[s] = "user" /\ lists' = lists /\ owner' = [owner EXCEPT ![s] = "pool"]
  BY DEF Release
<1>5. PICK h \in Pointers, z \in Int, v \in {FreeSlot(pool.free_head)} :
        h = s /\ z = pool.size - 1 /\ v = FreeSlot(pool.free_head)
  BY <1>3, SlotsFinite
<1>6. pool' = [slots |-> [pool.slots EXCEPT ![s] = v], free_head |-> h, size |-> z]
  BY <1>5 DEF Release, release
<1>7. v \in FreeSlots /\ v \notin Objects
  BY <1>1, <1>5, FreeSlotFacts DEF FreeSlots, FreeSlot
<1>8. s \in Held /\ Held' = Held \ {s} /\ Owned("pool")' = Owned("pool") \cup {s}
  BY <1>3, <1>4 DEF Held, Owned
<1>9. s \notin RangeOf(c)
  BY <1>1, <1>4 DEF Owned
<1>10. z = Cardinality(Held')
  BY <1>3, <1>5, <1>8, HeldFinite, FS_RemoveElement
<1>11. /\ t \in Seq(PoolSlots) /\ Len(t) = Len(c) + 1 /\ t[1] = s
       /\ \A i \in 2 .. Len(c) + 1 : t[i] = c[i - 1]
  BY <1>2, PrependFacts
<1>12. RangeOf(t) = RangeOf(c) \cup {s} /\ Distinct(t)
  BY <1>2, <1>9, PrependRange
<1>13. \A j \in Nat \ {0} : PtrAt(t, j + 1) = PtrAt(c, j)
  BY <1>2, PrependPtr
<1> HIDE DEF t
<1>14. FreeIs(pool', t)
  <2>1. pool'.free_head = PtrAt(t, 1)
    BY <1>2, <1>5, <1>6, <1>11 DEF PtrAt
  <2>2. ASSUME NEW i \in 1 .. Len(t) PROVE pool'.slots[t[i]] = FreeSlot(PtrAt(t, i + 1))
    <3>1. CASE i = 1
      <4>1. PtrAt(t, i + 1) = PtrAt(c, 1)
        BY <1>13, <3>1
      <4>2. pool'.slots[s] = v
        BY <1>1, <1>6 DEF Memory
      <4> QED BY <1>2, <1>5, <1>11, <3>1, <4>1, <4>2
    <3>2. CASE i # 1
      <4>1. i \in 2 .. Len(c) + 1 /\ i - 1 \in 1 .. Len(c) /\ i \in Nat \ {0} /\ (i - 1) + 1 = i
        BY <1>2, <1>11, <3>2
      <4>2. t[i] = c[i - 1] /\ c[i - 1] \in PoolSlots /\ c[i - 1] # s
        BY <1>2, <1>9, <1>11, <4>1 DEF RangeOf
      <4>3. pool'.slots[t[i]] = pool.slots[c[i - 1]]
        BY <1>1, <1>6, <4>2 DEF Memory
      <4>4. pool.slots[c[i - 1]] = FreeSlot(PtrAt(c, i))
        BY <1>2, <4>1
      <4>5. PtrAt(t, i + 1) = PtrAt(c, i)
        BY <1>13, <4>1
      <4> QED BY <4>3, <4>4, <4>5
    <3> QED BY <3>1, <3>2
  <2> QED BY <1>11, <1>12, <2>1, <2>2 DEF FreeIs
<1>15. PICK to : to = "pool"
  OBVIOUS
<1>16. /\ to \in {"pool", "user"} /\ v \in Objects \cup FreeSlots /\ (v \in Objects <=> to # "pool")
       /\ owner[s] \in {"pool", "user"} /\ owner' = [owner EXCEPT ![s] = to]
       /\ UNCHANGED lists /\ RangeOf(t) = Owned("pool")'
  BY <1>1, <1>4, <1>7, <1>8, <1>12, <1>15
<1>17. /\ PooledInv' /\ FreeChain(pool') = t
       /\ \A l \in Lists : Forward(pool'.slots, lists'[l]) = Forward(pool.slots, lists[l])
  BY <1>6, <1>10, <1>14, <1>16, PoolStep
<1>18. \A n \in PoolSlots \ {s} : pool'.slots[n] = pool.slots[n]
  BY <1>1, <1>6 DEF Memory
<1> QED BY <1>8, <1>17, <1>18 DEF c, t

(* The pool as it is constructed: every slot is free, in order.            *)
LEMMA NewPoolIs ==
  ASSUME NEW p, p = NewPool, NEW q, q = [i \in 1 .. PoolCapacity |-> i]
  PROVE  /\ p.slots \in Memory /\ \A i \in PoolSlots : p.slots[i] \notin Objects
         /\ FreeIs(p, q) /\ p.size = 0 /\ p.free_head \in Pointers
<1> DEFINE nodes == [i \in PoolSlots |-> FreeSlot(IF i < PoolCapacity THEN i + 1 ELSE None)]
           h == IF PoolCapacity > 0 THEN 1 ELSE None
<1>1. /\ PoolCapacity \in Nat /\ Null = 0 /\ None = 0 /\ PoolSlots = 1 .. PoolCapacity
      /\ Pointers = PoolSlots \cup {0}
  BY SlotsFinite DEF PoolSlots
<1>2. p.slots = nodes /\ p.free_head = h /\ p.size = 0
  BY DEF NewPool
<1>3. ASSUME NEW i \in PoolSlots
      PROVE  (IF i < PoolCapacity THEN i + 1 ELSE None) \in Pointers
  BY <1>1
<1>4. \A x \in Pointers : FreeSlot(x) \in FreeSlots
  BY DEF FreeSlot, FreeSlots
<1>5. nodes \in Memory /\ \A i \in PoolSlots : nodes[i] \notin Objects
  BY <1>3, <1>4, FreeSlotFacts DEF Memory
<1>6. h \in Pointers
  BY <1>1
<1>7. q \in Seq(PoolSlots) /\ Len(q) = PoolCapacity /\ \A i \in 1 .. PoolCapacity : q[i] = i
  BY <1>1
<1>8. Distinct(q)
  BY <1>7 DEF Distinct
<1>9. p.free_head = PtrAt(q, 1)
  BY ONLY <1>1, <1>2, <1>7 DEF PtrAt
<1>10. ASSUME NEW i \in 1 .. Len(q) PROVE p.slots[q[i]] = FreeSlot(PtrAt(q, i + 1))
  <2>1. PtrAt(q, i + 1) = IF i < PoolCapacity THEN i + 1 ELSE None
    BY ONLY <1>1, <1>7, i \in 1 .. Len(q) DEF PtrAt
  <2>2. q[i] = i /\ i \in PoolSlots
    BY ONLY <1>1, <1>7, i \in 1 .. Len(q)
  <2> QED BY ONLY <1>2, <2>1, <2>2
<1> QED BY ONLY <1>2, <1>5, <1>6, <1>7, <1>8, <1>9, <1>10 DEF FreeIs

(* The list as it is constructed. *)
LEMMA EmptyListIs ==
  ASSUME NEW mem
  PROVE  ListIs(mem, EmptyList, << >>) /\ EmptyList \in ListValues
<1>1. Null = 0 /\ Pointers = PoolSlots \cup {0}
  BY SlotsFinite
<1>2. Len(<< >>) = 0 /\ << >> \in Seq(PoolSlots) /\ 1 .. Len(<< >>) = {}
  OBVIOUS
<1>3. PtrAt(<< >>, 1) = 0 /\ PtrAt(<< >>, Len(<< >>)) = 0
  BY <1>1, <1>2 DEF PtrAt
<1>4. Distinct(<< >>)
  BY <1>2 DEF Distinct
<1> QED BY <1>1, <1>2, <1>3, <1>4 DEF ListIs, EmptyList, ListValues

LEMMA PooledInitSound ==
  ASSUME PooledInit
  PROVE  /\ PooledInv
         /\ FreeChain(pool) = [i \in 1 .. PoolCapacity |-> i] /\ Held = {}
         /\ \A l \in Lists : Forward(pool.slots, lists[l]) = << >>
<1> DEFINE q == [i \in 1 .. PoolCapacity |-> i]
<1>1. /\ PoolCapacity \in Nat /\ Null = 0 /\ None = 0 /\ PoolSlots = 1 .. PoolCapacity
      /\ Pointers = PoolSlots \cup {0}
  BY SlotsFinite DEF PoolSlots
<1>2. /\ pool = [slots |-> pool.slots, free_head |-> pool.free_head, size |-> pool.size]
      /\ lists = [l \in Lists |-> EmptyList] /\ owner = [s \in PoolSlots |-> "pool"]
  BY DEF PooledInit, NewPool
<1>5. /\ pool.slots \in Memory /\ \A i \in PoolSlots : pool.slots[i] \notin Objects
      /\ FreeIs(pool, q) /\ pool.size = 0 /\ pool.free_head \in Pointers
  <2>1. pool = NewPool
    BY DEF PooledInit
  <2>2. q = [i \in 1 .. PoolCapacity |-> i]
    OBVIOUS
  <2> HIDE DEF q
  <2> QED BY ONLY <2>1, <2>2, NewPoolIs
<1>7. q \in Seq(PoolSlots) /\ Len(q) = PoolCapacity /\ \A i \in 1 .. PoolCapacity : q[i] = i
  BY <1>1
<1> HIDE DEF q
<1>8. FreeIs(pool, q)
  BY <1>5
<1>9. RangeOf(q) = Owned("pool")
  BY <1>1, <1>2, <1>7 DEF RangeOf, Owned
<1>10. Held = {}
  BY <1>2 DEF Held
<1>11. ASSUME NEW l \in Lists
       PROVE  ListIs(pool.slots, lists[l], << >>) /\ RangeOf(<< >>) = Owned(l)
  <2>1. lists[l] = EmptyList
    BY <1>2
  <2>2. RangeOf(<< >>) = {}
    BY DEF RangeOf
  <2>3. Owned(l) = {}
    BY <1>2, PooledAssumption DEF Owned
  <2> QED BY <2>1, <2>2, <2>3, EmptyListIs
<1>12. PooledType
  <2>1. EmptyList \in ListValues
    BY EmptyListIs
  <2>2. pool \in [slots : Memory, free_head : Pointers, size : Int]
    BY <1>2, <1>5
  <2> QED BY <1>2, <2>1, <2>2 DEF PooledType
<1>13. PooledInv
  <2>1. \A s \in PoolSlots : pool.slots[s] \in Objects <=> owner[s] # "pool"
    BY <1>2, <1>5
  <2>2. pool.size = Cardinality(Held)
    BY <1>5, <1>10, FS_EmptySet
  <2> QED BY <1>8, <1>9, <1>11, <1>12, <2>1, <2>2 DEF PooledInv
<1>14. MemOK(pool.slots)
  BY <1>5, MemoryOK
<1> QED BY <1>8, <1>10, <1>11, <1>13, <1>14, FreeChainIs, ForwardIs DEF q

LEMMA PooledStutter ==
  ASSUME PooledInv, UNCHANGED pooledVars
  PROVE  PooledInv' /\ Held' = Held
<1>1. pool' = pool /\ lists' = lists /\ owner' = owner
  BY DEF pooledVars
<1>2. Held' = Held /\ Owned("pool")' = Owned("pool") /\ \A l \in Lists : Owned(l)' = Owned(l)
  BY <1>1 DEF Held, Owned
<1>3. PooledType'
  BY <1>1 DEF PooledInv, PooledType
<1> QED BY <1>1, <1>2, <1>3 DEF PooledInv

LEMMA PooledInvariant == PooledSpec => []PooledInv
<1>1. PooledInit => PooledInv
  BY PooledInitSound
<1>2. PooledInv /\ [PooledNext]_pooledVars => PooledInv'
  <2> SUFFICES ASSUME PooledInv, [PooledNext]_pooledVars PROVE PooledInv'
    OBVIOUS
  <2>1. CASE UNCHANGED pooledVars
    BY <2>1, PooledStutter
  <2>2. CASE Acquire
    BY <2>2, AcquireStep
  <2>3. CASE \E s \in PoolSlots : Release(s)
    BY <2>3, ReleaseStep
  <2>4. CASE \E l \in Lists, s \in PoolSlots :
               PushBack(l, s) \/ PushFront(l, s) \/ Remove(l, s)
    BY <2>4, PushBackStep, PushFrontStep, RemoveStep
  <2> QED BY <2>1, <2>2, <2>3, <2>4 DEF PooledNext
<1> QED BY <1>1, <1>2, PTL DEF PooledSpec

(* Whatever is acquired, linked, unlinked and released in whatever order,  *)
(* for every pool capacity and every number of lists: the free list holds  *)
(* each slot nobody uses exactly once, size() is the number in use, and    *)
(* each list reads backwards from back() as the reverse of what it reads   *)
(* forwards from front().                                                  *)
THEOREM PooledLinksSound == PooledSpec => []LinksSound
<1>1. PooledInv => LinksSound
  <2> SUFFICES ASSUME PooledInv PROVE LinksSound
    OBVIOUS
  <2> DEFINE c == FreeChain(pool)
  <2>1. FreeIs(pool, c) /\ RangeOf(c) = Owned("pool") /\ pool.slots \in Memory
    BY InvFacts
  <2>2. pool.size = Cardinality(Held)
    BY DEF PooledInv
  <2>3. Partitioned(pool, Held)
    <3> HIDE DEF c
    <3>1. c \in Seq(PoolSlots) /\ Distinct(c) /\ pool.free_head = PtrAt(c, 1)
          /\ Len(c) \in Nat /\ DOMAIN c = 1 .. Len(c)
      BY <2>1 DEF FreeIs
    <3>2. Owned("pool") = PoolSlots \ Held
      BY DEF Owned, Held
    <3>3. {c[i] : i \in DOMAIN c} = PoolSlots \ Held
      BY <2>1, <3>1, <3>2 DEF RangeOf
    <3>4. Len(c) = Cardinality(PoolSlots \ Held)
      BY <2>1, <3>1, <3>2, DistinctCount
    <3>5. PoolSlots \cap Held = Held
      BY DEF Held
    <3>6. Len(c) = PoolCapacity - Cardinality(Held)
      <4>1. Cardinality(PoolSlots \ Held)
              = Cardinality(PoolSlots) - Cardinality(PoolSlots \cap Held)
        BY SlotsFinite, FS_Difference
      <4> QED BY <3>4, <3>5, <4>1, SlotsFinite
    <3>7. pool.free_head = None <=> Len(c) = 0
      BY <3>1, PtrType, SlotsFinite
    <3>8. pool.free_head = None <=> pool.size = PoolCapacity
      BY <2>2, <3>6, <3>7, HeldFinite, SlotsFinite
    <3> QED BY <2>2, <3>3, <3>6, <3>8 DEF Partitioned, c
  <2>4. ASSUME NEW l \in Lists PROVE Mirrored(pool.slots, lists[l])
    <3> DEFINE f == Forward(pool.slots, lists[l])
    <3>1. ListIs(pool.slots, lists[l], f)
      BY InvFacts
    <3>2. MemOK(pool.slots)
      BY <2>1, MemoryOK
    <3>3. Backward(pool.slots, lists[l]) = Reversed(f)
      BY <3>1, <3>2, BackwardIs
    <3>4. lists[l].size = Len(f)
      BY <3>1 DEF ListIs
    <3> QED BY <3>3, <3>4 DEF Mirrored, Reversed
  <2> QED BY <2>3, <2>4 DEF LinksSound
<1> QED BY <1>1, PooledInvariant, PTL

(* For every capacity, the pool behaves as the stack of slots SlotStack    *)
(* describes: last released first acquired, and whatever the users' lists  *)
(* do to the objects never reaches the free list that runs through the     *)
(* same memory.                                                            *)
THEOREM PoolIsStack == PooledSpec => ImplementsStack
<1> DEFINE live == [s \in Held |-> pool.slots[s]]
<1>1. PooledInit => Stack!Init
  <2> SUFFICES ASSUME PooledInit PROVE Stack!Init
    OBVIOUS
  <2>1. FreeChain(pool) = [i \in 1 .. PoolCapacity |-> i] /\ Held = {}
    BY PooledInitSound
  <2>2. live = [s \in {} |-> 0]
    BY <2>1
  <2> QED BY <2>1, <2>2 DEF Stack!Init
<1>2. PooledInv /\ [PooledNext]_pooledVars =>
        [Stack!Next]_<<FreeChain(pool), [s \in Held |-> pool.slots[s]]>>
  <2> SUFFICES ASSUME PooledInv, [PooledNext]_pooledVars
               PROVE  Stack!Next \/ (FreeChain(pool)' = FreeChain(pool) /\ live' = live)
    OBVIOUS
  <2>1. CASE UNCHANGED pooledVars
    <3>1. pool' = pool /\ Held' = Held
      BY <2>1, PooledStutter DEF pooledVars
    <3> QED BY <3>1
  <2>2. CASE Acquire
    <3>1. CASE UNCHANGED pooledVars
      BY <2>1, <3>1
    <3>2. CASE ~UNCHANGED pooledVars
      <4> DEFINE c == FreeChain(pool)
      <4>1. /\ c # << >> /\ FreeChain(pool') = Tail(c)
            /\ c[1] \in PoolSlots /\ c[1] \notin Held /\ Held' = Held \cup {c[1]}
            /\ pool'.slots = [pool.slots EXCEPT ![c[1]] = NewNode]
        BY <2>2, <3>2, AcquireStep
      <4>2. pool.slots \in Memory /\ Held \subseteq PoolSlots /\ NewNode \in Objects
        BY InvFacts, HeldFinite, ObjectsAssumption
      <4>3. c \in Seq(PoolSlots)
        BY InvFacts DEF FreeIs
      <4> HIDE DEF c
      <4>4. Head(c) = c[1]
        BY <4>1, <4>3
      <4>5. live' = [s \in Held \cup {c[1]} |-> IF s = c[1] THEN NewNode ELSE live[s]]
        BY <4>1, <4>2 DEF Memory
      <4>6. DOMAIN live = Held
        OBVIOUS
      <4> HIDE DEF live
      <4>7. live' = [s \in DOMAIN live \cup {Head(c)} |->
                       IF s = Head(c) THEN NewNode ELSE live[s]]
        BY <4>4, <4>5, <4>6
      <4>8. Stack!Acquire(NewNode)
        BY <4>1, <4>7 DEF Stack!Acquire, c, live
      <4> QED BY <4>2, <4>8 DEF Stack!Next
    <3> QED BY <3>1, <3>2
  <2>3. CASE \E s \in PoolSlots : Release(s)
    <3>1. PICK s \in PoolSlots : Release(s)
      BY <2>3
    <3>2. /\ FreeChain(pool') = <<s>> \o FreeChain(pool)
          /\ s \in Held /\ Held' = Held \ {s}
          /\ \A n \in PoolSlots \ {s} : pool'.slots[n] = pool.slots[n]
      BY <3>1, ReleaseStep
    <3>3. live' = [u \in DOMAIN live \ {s} |-> live[u]]
      BY <3>2, HeldFinite
    <3>4. Stack!Release(s)
      BY <3>2, <3>3 DEF Stack!Release
    <3> QED BY <3>4 DEF Stack!Next, PoolSlots
  <2>4. CASE \E l \in Lists, s \in PoolSlots :
               PushBack(l, s) \/ PushFront(l, s) \/ Remove(l, s)
    <3>1. PooledInv' /\ FreeChain(pool') = FreeChain(pool) /\ Held' = Held
      BY <2>4, PushBackStep, PushFrontStep, RemoveStep
    <3>2. \A s \in Held' : pool'.slots[s] \in Objects
      BY <3>1 DEF PooledInv, Held
    <3>3. live' \in [DOMAIN live -> Objects]
      BY <3>1, <3>2
    <3>4. Stack!Write
      BY <3>1, <3>3 DEF Stack!Write
    <3> QED BY <3>4 DEF Stack!Next
  <2> QED BY <2>1, <2>2, <2>3, <2>4 DEF PooledNext
<1> QED BY <1>1, <1>2, PooledInvariant, PTL DEF PooledSpec, ImplementsStack, Stack!Spec

(* For every capacity and every number of lists, the intrusive lists       *)
(* behave as sequences: a push at either end adds the one node, a removal  *)
(* anywhere takes out that node and keeps the order of the others, and     *)
(* nothing done to one list, or to the pool, shows in another.             *)
THEOREM ListsAreSequences == PooledSpec => ImplementsSequences
<1> DEFINE seqs == [l \in Lists |-> Forward(pool.slots, lists[l])]
<1>1. PooledInit => Deques!Init
  <2> SUFFICES ASSUME PooledInit PROVE Deques!Init
    OBVIOUS
  <2>1. \A l \in Lists : Forward(pool.slots, lists[l]) = << >>
    BY PooledInitSound
  <2> QED BY <2>1 DEF Deques!Init
<1>2. PooledInv /\ [PooledNext]_pooledVars =>
        [Deques!Next]_[l \in Lists |-> Forward(pool.slots, lists[l])]
  <2> SUFFICES ASSUME PooledInv, [PooledNext]_pooledVars
               PROVE  Deques!Next \/ seqs' = seqs
    OBVIOUS
  <2>1. CASE UNCHANGED pooledVars
    BY <2>1 DEF pooledVars
  <2>2. CASE Acquire
    <3>1. \A l \in Lists : Forward(pool'.slots, lists'[l]) = Forward(pool.slots, lists[l])
      BY <2>2, AcquireStep
    <3> QED BY <3>1
  <2>3. CASE \E s \in PoolSlots : Release(s)
    <3>1. \A l \in Lists : Forward(pool'.slots, lists'[l]) = Forward(pool.slots, lists[l])
      BY <2>3, ReleaseStep
    <3> QED BY <3>1
  <2>4. ASSUME NEW s \in PoolSlots, owner[s] = "user" PROVE Deques!Unlinked(s)
    <3>1. ASSUME NEW l \in Lists, NEW i \in DOMAIN seqs[l], seqs[l][i] = s PROVE FALSE
      <4>1. PICK f : f = Forward(pool.slots, lists[l])
        OBVIOUS
      <4>2. f \in Seq(PoolSlots) /\ RangeOf(f) = Owned(l)
        BY <4>1, InvFacts DEF ListIs
      <4>3. i \in 1 .. Len(f) /\ f[i] = s
        BY <3>1, <4>1, <4>2
      <4>4. owner[s] = l
        BY <4>2, <4>3 DEF RangeOf, Owned
      <4> QED BY <2>4, <4>4, PooledAssumption
    <3> QED BY <3>1 DEF Deques!Unlinked, Deques!In
  <2>5. ASSUME NEW l \in Lists, NEW s \in PoolSlots, PushBack(l, s) PROVE Deques!Next
    <3>1. /\ owner[s] = "user"
          /\ \A k \in Lists : Forward(pool'.slots, lists'[k]) =
               IF k = l THEN Append(Forward(pool.slots, lists[l]), s)
               ELSE Forward(pool.slots, lists[k])
      BY <2>5, PushBackStep
    <3>2. seqs' = [seqs EXCEPT ![l] = Append(@, s)]
      BY <3>1
    <3>3. Deques!PushBack(l, s)
      BY <2>4, <3>1, <3>2 DEF Deques!PushBack
    <3> QED BY <3>3, SlotsFinite DEF Deques!Next
  <2>6. ASSUME NEW l \in Lists, NEW s \in PoolSlots, PushFront(l, s) PROVE Deques!Next
    <3>1. /\ owner[s] = "user"
          /\ \A k \in Lists : Forward(pool'.slots, lists'[k]) =
               IF k = l THEN <<s>> \o Forward(pool.slots, lists[l])
               ELSE Forward(pool.slots, lists[k])
      BY <2>6, PushFrontStep
    <3>2. seqs' = [seqs EXCEPT ![l] = <<s>> \o @]
      BY <3>1
    <3>3. Deques!PushFront(l, s)
      BY <2>4, <3>1, <3>2 DEF Deques!PushFront
    <3> QED BY <3>3, SlotsFinite DEF Deques!Next
  <2>7. ASSUME NEW l \in Lists, NEW s \in PoolSlots, Remove(l, s) PROVE Deques!Next
    <3>1. PICK i \in 1 .. Len(Forward(pool.slots, lists[l])) :
            /\ Forward(pool.slots, lists[l])[i] = s
            /\ \A k \in Lists : Forward(pool'.slots, lists'[k]) =
                 IF k = l THEN Dropped(Forward(pool.slots, lists[l]), i)
                 ELSE Forward(pool.slots, lists[k])
      BY <2>7, RemoveStep
    <3>2. \A q : Deques!Without(q, i) = Dropped(q, i)
      BY DEF Deques!Without, Dropped
    <3>3. seqs' = [seqs EXCEPT ![l] = Deques!Without(@, i)]
      BY <3>1, <3>2
    <3>4. Forward(pool.slots, lists[l]) \in Seq(PoolSlots)
      BY InvFacts DEF ListIs
    <3>5. i \in DOMAIN seqs[l] /\ seqs[l][i] = s
      BY <3>1, <3>4
    <3>6. Deques!Remove(l, s)
      BY <3>3, <3>5 DEF Deques!Remove
    <3> QED BY <3>6, SlotsFinite DEF Deques!Next
  <2> QED BY <2>1, <2>2, <2>3, <2>5, <2>6, <2>7 DEF PooledNext
<1> QED BY <1>1, <1>2, PooledInvariant, PTL DEF PooledSpec, ImplementsSequences, Deques!Spec
=============================================================================
