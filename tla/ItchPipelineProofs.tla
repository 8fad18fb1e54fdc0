------------------------- MODULE ItchPipelineProofs -------------------------
(***************************************************************************)
(* Theorems about the ITCH pipeline and the ring buffer between its two    *)
(* threads.  The first part is about SpscRingBuffer alone: for every       *)
(* capacity and every width of its indices it has no data race and is a    *)
(* bounded FIFO queue.  The second is about ItchPipeline: the two threads  *)
(* build the book one thread would have built and lose no message, for     *)
(* every stream, every ring and every book.                                *)
(***************************************************************************)
EXTENDS ItchPipeline, OrderBookOpsProofs, Sequences

-----------------------------------------------------------------------------
(* The capacity and the indices. *)

(* The capacity is a divisor of the number of index values, and smaller. *)
LEMMA CapacityFacts ==
  /\ Capacity \in Nat /\ Capacity >= 1
  /\ IndexSpan \in Nat /\ Capacity < IndexSpan
  /\ IndexSpan % Capacity = 0
<1>1. RingCapacity \in Nat /\ IndexSpan \in Nat /\ IndexSpan > 1
      /\ IsPowerOfTwo(IndexSpan) /\ 2 * RingCapacity <= IndexSpan
  BY RingAssumption
<1>2. CASE RingCapacity <= 1
  <2>1. Capacity = 1
    BY <1>2 DEF Capacity, round_up_to_power_of_two
  <2> QED BY <1>1, <2>1
<1>3. CASE RingCapacity > 1
  <2>1. Capacity = CHOOSE c \in RingCapacity .. 2 * RingCapacity - 1 : IsPowerOfTwo(c)
    BY <1>1, <1>3 DEF Capacity, round_up_to_power_of_two
  <2>2. \E c \in RingCapacity .. 2 * RingCapacity - 1 : IsPowerOfTwo(c)
    BY <1>1, <1>3, PowerAtLeast
  <2>3. Capacity \in RingCapacity .. 2 * RingCapacity - 1 /\ IsPowerOfTwo(Capacity)
    BY <2>1, <2>2
  <2>4. Capacity \in Nat /\ Capacity >= 1 /\ Capacity < IndexSpan
    BY <1>1, <1>3, <2>3
  <2>5. Capacity <= IndexSpan
    BY <1>1, <2>4
  <2>6. IndexSpan % Capacity = 0
    BY ONLY <1>1, <2>3, <2>4, <2>5, PowersDivide
  <2> QED BY <1>1, <2>4, <2>6
<1> QED BY <1>1, <1>2, <1>3

Index == 0 .. IndexSpan - 1

(* How far it is from one index to another, across the wrap. *)
LEMMA DistValue ==
  ASSUME NEW i \in Index, NEW j \in Index
  PROVE  /\ Dist(i, j) \in Index
         /\ Dist(i, j) = IF i <= j THEN j - i ELSE j - i + IndexSpan
<1>1. IndexSpan \in Nat /\ IndexSpan > 1
  BY RingAssumption
<1> QED BY <1>1 DEF Dist, Index

(* The next index. *)
LEMMA SuccValue ==
  ASSUME NEW i \in Index
  PROVE  /\ Succ(i) \in Index
         /\ Succ(i) = IF i + 1 = IndexSpan THEN 0 ELSE i + 1
<1>1. IndexSpan \in Nat /\ IndexSpan > 1
  BY RingAssumption
<1> QED BY <1>1 DEF Succ, Index

(* An index k places on. *)
LEMMA ShiftValue ==
  ASSUME NEW i \in Index, NEW k \in Index
  PROVE  /\ (i + k) % IndexSpan \in Index
         /\ (i + k) % IndexSpan
              = IF i + k < IndexSpan THEN i + k ELSE i + k - IndexSpan
<1>1. IndexSpan \in Nat /\ IndexSpan > 1
  BY RingAssumption
<1> QED BY <1>1 DEF Index

(* Distances add up along the ring. *)
LEMMA DistSplit ==
  ASSUME NEW i \in Index, NEW j \in Index, NEW k \in Index,
         Dist(j, k) <= Dist(i, k) \/ Dist(i, j) <= Dist(i, k)
  PROVE  Dist(i, j) + Dist(j, k) = Dist(i, k)
<1>1. IndexSpan \in Nat
  BY RingAssumption
<1>2. Dist(i, j) = IF i <= j THEN j - i ELSE j - i + IndexSpan
  BY DistValue
<1>3. Dist(j, k) = IF j <= k THEN k - j ELSE k - j + IndexSpan
  BY DistValue
<1>4. Dist(i, k) = IF i <= k THEN k - i ELSE k - i + IndexSpan
  BY DistValue
<1> QED BY <1>1, <1>2, <1>3, <1>4 DEF Index

LEMMA DistZero ==
  ASSUME NEW i \in Index, NEW j \in Index
  PROVE  Dist(i, j) = 0 <=> i = j
<1>1. IndexSpan \in Nat
  BY RingAssumption
<1>2. Dist(i, j) = IF i <= j THEN j - i ELSE j - i + IndexSpan
  BY DistValue
<1> QED BY <1>1, <1>2 DEF Index

LEMMA DistSame ==
  ASSUME NEW i \in Index, NEW j \in Index, NEW k \in Index,
         Dist(i, j) = Dist(i, k)
  PROVE  j = k
<1> DEFINE d == Dist(i, j)
<1>1. IndexSpan \in Nat /\ i \in Int
      /\ j \in 0 .. IndexSpan - 1 /\ k \in 0 .. IndexSpan - 1
  BY RingAssumption DEF Index
<1>2. d \in Int /\ d = IF i <= j THEN j - i ELSE j - i + IndexSpan
  BY DistValue DEF Index
<1>3. d = IF i <= k THEN k - i ELSE k - i + IndexSpan
  BY DistValue
<1> HIDE DEF d
<1> QED BY ONLY <1>1, <1>2, <1>3

(* Storing an index changes the distances by one. *)
LEMMA DistToSucc ==
  ASSUME NEW i \in Index, NEW j \in Index, Dist(i, j) < IndexSpan - 1
  PROVE  Dist(i, Succ(j)) = Dist(i, j) + 1
<1>1. IndexSpan \in Nat
  BY RingAssumption
<1>2. Dist(i, j) = IF i <= j THEN j - i ELSE j - i + IndexSpan
  BY DistValue
<1>3. Succ(j) \in Index /\ Succ(j) = IF j + 1 = IndexSpan THEN 0 ELSE j + 1
  BY SuccValue
<1>4. Dist(i, Succ(j)) = IF i <= Succ(j) THEN Succ(j) - i
                         ELSE Succ(j) - i + IndexSpan
  BY <1>3, DistValue
<1> QED BY <1>1, <1>2, <1>3, <1>4 DEF Index

LEMMA DistFromSucc ==
  ASSUME NEW i \in Index, NEW j \in Index
  PROVE  Dist(Succ(i), j) = IF i = j THEN IndexSpan - 1 ELSE Dist(i, j) - 1
<1>1. IndexSpan \in Nat
  BY RingAssumption
<1>2. Dist(i, j) = IF i <= j THEN j - i ELSE j - i + IndexSpan
  BY DistValue
<1>3. Succ(i) \in Index /\ Succ(i) = IF i + 1 = IndexSpan THEN 0 ELSE i + 1
  BY SuccValue
<1>4. Dist(Succ(i), j) = IF Succ(i) <= j THEN j - Succ(i)
                         ELSE j - Succ(i) + IndexSpan
  BY <1>3, DistValue
<1> QED BY <1>1, <1>2, <1>3, <1>4 DEF Index

(* A load returns an index between the last one seen and the current one. *)
LEMMA VisibleBetween ==
  ASSUME NEW seen \in Index, NEW current \in Index,
         NEW r \in Visible(seen, current)
  PROVE  /\ r \in Index
         /\ Dist(seen, r) <= Dist(seen, current)
         /\ Dist(r, current) = Dist(seen, current) - Dist(seen, r)
<1>1. PICK k \in 0 .. Dist(seen, current) : r = (seen + k) % IndexSpan
  BY DEF Visible
<1>2. IndexSpan \in Nat /\ Dist(seen, current) \in Index
      /\ Dist(seen, current) = IF seen <= current THEN current - seen
                               ELSE current - seen + IndexSpan
  BY DistValue, RingAssumption
<1>3. k \in Index
  BY <1>1, <1>2 DEF Index
<1>4. r \in Index
      /\ r = IF seen + k < IndexSpan THEN seen + k ELSE seen + k - IndexSpan
  BY <1>1, <1>3, ShiftValue
<1>5. Dist(seen, r) = IF seen <= r THEN r - seen ELSE r - seen + IndexSpan
  BY <1>4, DistValue
<1>6. Dist(r, current) = IF r <= current THEN current - r
                         ELSE current - r + IndexSpan
  BY <1>4, DistValue
<1>7. Dist(seen, r) = k
  BY <1>2, <1>3, <1>4, <1>5 DEF Index
<1>8. Dist(r, current) = Dist(seen, current) - k
  BY <1>1, <1>2, <1>4, <1>6 DEF Index
<1> QED BY <1>1, <1>2, <1>4, <1>7, <1>8 DEF Index

(* Slots are in the buffer, and wrapping an index does not move its slot.  *)
LEMMA SlotValue ==
  ASSUME NEW i \in Int
  PROVE  /\ PhysicalSlot(i) \in 0 .. Capacity - 1
         /\ PhysicalSlot(i % IndexSpan) = PhysicalSlot(i)
<1>1. Capacity \in Nat /\ Capacity > 0 /\ IndexSpan \in Nat /\ IndexSpan > 0
      /\ IndexSpan % Capacity = 0
  BY CapacityFacts
<1>2. (i % IndexSpan) % Capacity = i % Capacity
  BY ONLY <1>1, ModOfMod, i \in Int
<1>3. i % Capacity \in 0 .. Capacity - 1
  BY ONLY <1>1, DivMod, i \in Int
<1> QED BY <1>2, <1>3 DEF PhysicalSlot

(* Two indices less than the capacity apart have different slots. *)
LEMMA SlotsApart ==
  ASSUME NEW i \in Index, NEW j \in Index, Dist(i, j) \in 1 .. Capacity - 1
  PROVE  PhysicalSlot(i) # PhysicalSlot(j)
<1> DEFINE k == Dist(i, j)
<1>1. Capacity \in Nat /\ Capacity > 0 /\ IndexSpan \in Nat
      /\ Capacity < IndexSpan
  BY CapacityFacts
<1>2. k \in 1 .. Capacity - 1 /\ k \in Index /\ i \in Int
      /\ k = IF i <= j THEN j - i ELSE j - i + IndexSpan
  BY <1>1, DistValue DEF Index
<1> HIDE DEF k
<1>3. j = (i + k) % IndexSpan
  <2>1. (i + k) % IndexSpan
          = IF i + k < IndexSpan THEN i + k ELSE i + k - IndexSpan
    BY <1>2, ShiftValue
  <2> QED BY <1>1, <1>2, <2>1 DEF Index
<1>4. PhysicalSlot(j) = PhysicalSlot(i + k)
  BY <1>2, <1>3, SlotValue
<1>5. (i + k) % Capacity # i % Capacity
  BY ONLY <1>1, <1>2, ModApart
<1> QED BY <1>4, <1>5 DEF PhysicalSlot

-----------------------------------------------------------------------------
(***************************************************************************)
(* The inductive invariant.  A push that has passed its check keeps a slot *)
(* free and a pop keeps an item inside, although both checks may have read *)
(* a stale index; what push has written stays in its slot until it is      *)
(* published, and what pop copied stays there until it is released.        *)
(***************************************************************************)
PushSound ==
  push_pc # "idle" =>
    /\ pushing \in Items
    /\ Dist(seen_read, write_index) < Capacity
    /\ push_pc = "store" => buffer[PhysicalSlot(write_index)] = pushing

PopSound ==
  pop_pc # "idle" =>
    /\ Dist(read_index, seen_write) > 0
    /\ pop_pc = "store" => out = buffer[PhysicalSlot(read_index)]

(* Every index between the two has an item in its slot. *)
InsideSound ==
  \A i \in Index :
    Dist(read_index, i) < Dist(read_index, write_index)
      => buffer[PhysicalSlot(i)] \in Items

RingInv == RingTypeOK /\ PushSound /\ PopSound /\ InsideSound

(* The facts of RingTypeOK in the form the proofs use. *)
LEMMA RingTypes ==
  ASSUME RingTypeOK
  PROVE  /\ write_index \in Index /\ read_index \in Index
         /\ seen_read \in Index /\ seen_write \in Index
         /\ Dist(read_index, write_index) \in Index
         /\ Dist(seen_read, write_index) \in Index
         /\ Dist(read_index, seen_write) \in Index
<1>1. /\ write_index \in Index /\ read_index \in Index
      /\ seen_read \in Index /\ seen_write \in Index
  BY DEF RingTypeOK, Index
<1> QED BY <1>1, DistValue

LEMMA RingInitInv ==
  RingInit => RingInv
<1> SUFFICES ASSUME RingInit
             PROVE  RingInv
  OBVIOUS
<1>1. 0 \in Index /\ Capacity \in Nat /\ Capacity >= 1 /\ IndexSpan \in Nat
      /\ IndexSpan > 1
  BY CapacityFacts DEF Index
<1>2. Dist(0, 0) = 0
  BY <1>1, DistValue
<1>3. RingTypeOK
  BY <1>1, <1>2 DEF RingInit, RingTypeOK, Index
<1>4. PushSound /\ PopSound
  BY DEF RingInit, PushSound, PopSound
<1>5. InsideSound
  <2> SUFFICES ASSUME NEW i \in Index, Dist(0, i) < 0
               PROVE  FALSE
    BY <1>2 DEF InsideSound, RingInit
  <2>1. Dist(0, i) >= 0
    BY <1>1, DistValue DEF Index
  <2> QED BY <1>1, <2>1, DistValue DEF Index
<1> QED BY <1>3, <1>4, <1>5 DEF RingInv

(* push() reads read_index_: what it sees lies between what it saw before  *)
(* and the current value, so the room it computes is never too large.      *)
LEMMA PushLoadInv ==
  ASSUME RingInv, NEW item \in Items,
         NEW r \in Visible(seen_read, read_index), PushLoad(item, r)
  PROVE  RingInv'
<1> USE DEF RingInv, PushLoad, popVars, pushVars
<1>1. Capacity \in Nat /\ IndexSpan \in Nat
  BY CapacityFacts
<1>2. /\ write_index \in Index /\ read_index \in Index
      /\ seen_read \in Index /\ seen_write \in Index
      /\ Dist(read_index, write_index) \in Index
      /\ Dist(seen_read, write_index) \in Index
  BY RingTypes
<1>3. /\ Dist(read_index, write_index) <= Dist(seen_read, write_index)
      /\ Dist(seen_read, write_index) <= Capacity
  BY DEF RingTypeOK
<1>4. r \in Index /\ Dist(seen_read, r) <= Dist(seen_read, read_index)
  BY <1>2, VisibleBetween
<1>5. Dist(seen_read, read_index) + Dist(read_index, write_index)
        = Dist(seen_read, write_index)
  BY <1>2, <1>3, DistSplit
<1>6. /\ Dist(seen_read, read_index) \in Index /\ Dist(seen_read, r) \in Index
      /\ Dist(r, write_index) \in Index
  BY <1>2, <1>4, DistValue
<1>7. Dist(seen_read, r) <= Dist(seen_read, write_index)
  BY <1>1, <1>2, <1>4, <1>5, <1>6 DEF Index
<1>8. Dist(seen_read, r) + Dist(r, write_index) = Dist(seen_read, write_index)
  BY <1>2, <1>4, <1>7, DistSplit
<1>9. /\ Dist(read_index, write_index) <= Dist(r, write_index)
      /\ Dist(r, write_index) <= Capacity
  BY <1>1, <1>2, <1>3, <1>4, <1>5, <1>6, <1>8 DEF Index
<1>10. RingTypeOK'
  BY <1>4, <1>9 DEF RingTypeOK, Index, Dist
<1>11. PushSound'
  <2>1. CASE Full(write_index, r)
    BY <2>1 DEF PushSound, RingTypeOK
  <2>2. CASE ~Full(write_index, r)
    <3>1. Dist(r, write_index) < Capacity
      BY <1>1, <1>2, <1>4, <1>6, <2>2 DEF Full, Index
    <3> QED BY <3>1, <2>2 DEF PushSound, Dist
  <2> QED BY <2>1, <2>2
<1>12. PopSound' /\ InsideSound'
  BY DEF PopSound, InsideSound, Dist
<1> QED BY <1>10, <1>11, <1>12

(* push() writes its slot, which is not the one pop() copied. *)
LEMMA PushWriteInv ==
  ASSUME RingInv, PushWrite
  PROVE  RingInv'
<1> USE DEF RingInv, PushWrite, popVars
<1> DEFINE slot == PhysicalSlot(write_index)
<1>1. Capacity \in Nat /\ IndexSpan \in Nat
  BY CapacityFacts
<1>2. /\ write_index \in Index /\ read_index \in Index
      /\ Dist(read_index, write_index) \in Index
      /\ Dist(seen_read, write_index) \in Index
      /\ Dist(read_index, seen_write) \in Index
  BY RingTypes
<1>3. slot \in 0 .. Capacity - 1
  BY <1>1, <1>2, SlotValue DEF Index
<1>4. pushing \in Items
  BY DEF PushSound
<1>5. RingTypeOK'
  BY <1>3, <1>4 DEF RingTypeOK, Dist
<1>6. PushSound'
  <2>1. buffer'[slot] = pushing
    BY <1>3 DEF RingTypeOK
  <2> QED BY <2>1 DEF PushSound, Dist, PhysicalSlot
<1>7. PopSound'
  <2> SUFFICES ASSUME pop_pc = "store"
               PROVE  buffer'[PhysicalSlot(read_index)]
                        = buffer[PhysicalSlot(read_index)]
    BY DEF PopSound, Dist, PhysicalSlot
  <2>1. /\ 0 < Dist(read_index, seen_write)
        /\ Dist(read_index, seen_write) <= Dist(read_index, write_index)
        /\ Dist(read_index, write_index) <= Dist(seen_read, write_index)
        /\ Dist(seen_read, write_index) < Capacity
    BY DEF RingTypeOK, PushSound, PopSound
  <2>2. Dist(read_index, write_index) \in 1 .. Capacity - 1
    BY <1>1, <1>2, <2>1 DEF Index
  <2>3. PhysicalSlot(read_index) # slot
    BY <1>2, <2>2, SlotsApart
  <2>4. PhysicalSlot(read_index) \in 0 .. Capacity - 1
    BY <1>1, <1>2, SlotValue DEF Index
  <2> QED BY <2>3, <2>4 DEF RingTypeOK
<1>8. InsideSound'
  <2> SUFFICES ASSUME NEW i \in Index,
                      Dist(read_index, i) < Dist(read_index, write_index)
               PROVE  buffer'[PhysicalSlot(i)] \in Items
    BY DEF InsideSound, Dist, PhysicalSlot
  <2>1. PhysicalSlot(i) \in 0 .. Capacity - 1
    BY <1>1, SlotValue DEF Index
  <2>2. buffer[PhysicalSlot(i)] \in Items
    BY DEF InsideSound
  <2> QED BY <1>4, <2>1, <2>2 DEF RingTypeOK
<1> QED BY <1>5, <1>6, <1>7, <1>8

(* push() publishes its slot, which holds the item. *)
LEMMA PushStoreInv ==
  ASSUME RingInv, PushStore
  PROVE  RingInv'
<1> USE DEF RingInv, PushStore, popVars
<1>1. Capacity \in Nat /\ IndexSpan \in Nat /\ Capacity < IndexSpan
  BY CapacityFacts
<1>2. /\ write_index \in Index /\ read_index \in Index
      /\ seen_read \in Index /\ seen_write \in Index
      /\ Dist(read_index, write_index) \in Index
      /\ Dist(seen_read, write_index) \in Index
      /\ Dist(read_index, seen_write) \in Index
  BY RingTypes
<1>3. /\ Dist(read_index, seen_write) <= Dist(read_index, write_index)
      /\ Dist(read_index, write_index) <= Dist(seen_read, write_index)
      /\ Dist(seen_read, write_index) < Capacity
  BY DEF RingTypeOK, PushSound
<1>4. /\ Dist(read_index, write_index) < IndexSpan - 1
      /\ Dist(seen_read, write_index) < IndexSpan - 1
  BY <1>1, <1>2, <1>3 DEF Index
<1>5. /\ write_index' \in Index
      /\ Dist(read_index, write_index') = Dist(read_index, write_index) + 1
      /\ Dist(seen_read, write_index') = Dist(seen_read, write_index) + 1
  BY <1>2, <1>4, DistToSucc, SuccValue
<1>6. /\ Dist(read_index, seen_write) <= Dist(read_index, write_index')
      /\ Dist(read_index, write_index') <= Dist(seen_read, write_index')
      /\ Dist(seen_read, write_index') <= Capacity
  BY <1>1, <1>2, <1>3, <1>5 DEF Index
<1>7. RingTypeOK'
  BY <1>5, <1>6 DEF RingTypeOK, Index, Dist
<1>8. PushSound' /\ PopSound'
  BY DEF PushSound, PopSound, Dist, PhysicalSlot
<1>9. InsideSound'
  <2> SUFFICES ASSUME NEW i \in Index,
                      Dist(read_index, i) < Dist(read_index, write_index')
               PROVE  buffer[PhysicalSlot(i)] \in Items
    BY DEF InsideSound, Dist, PhysicalSlot
  <2>1. Dist(read_index, i) \in Index
    BY <1>2, DistValue
  <2>2. CASE Dist(read_index, i) < Dist(read_index, write_index)
    BY <2>2 DEF InsideSound
  <2>3. CASE Dist(read_index, i) = Dist(read_index, write_index)
    <3>1. i = write_index
      BY <1>2, <2>3, DistSame
    <3> QED BY <3>1 DEF PushSound
  <2> QED BY <1>1, <1>2, <1>5, <2>1, <2>2, <2>3 DEF Index
<1> QED BY <1>7, <1>8, <1>9

(* pop() reads write_index_: what it sees has been published. *)
LEMMA PopLoadInv ==
  ASSUME RingInv, NEW w \in Visible(seen_write, write_index), PopLoad(w)
  PROVE  RingInv'
<1> USE DEF RingInv, PopLoad, pushVars
<1>1. Capacity \in Nat /\ IndexSpan \in Nat
  BY CapacityFacts
<1>2. /\ write_index \in Index /\ read_index \in Index
      /\ seen_read \in Index /\ seen_write \in Index
      /\ Dist(read_index, write_index) \in Index
      /\ Dist(read_index, seen_write) \in Index
  BY RingTypes
<1>3. Dist(read_index, seen_write) <= Dist(read_index, write_index)
  BY DEF RingTypeOK
<1>4. /\ w \in Index
      /\ Dist(w, write_index)
           = Dist(seen_write, write_index) - Dist(seen_write, w)
  BY <1>2, VisibleBetween
<1>5. Dist(read_index, seen_write) + Dist(seen_write, write_index)
        = Dist(read_index, write_index)
  BY <1>2, <1>3, DistSplit
<1>6. /\ Dist(seen_write, write_index) \in Index /\ Dist(seen_write, w) \in Index
      /\ Dist(w, write_index) \in Index /\ Dist(read_index, w) \in Index
  BY <1>2, <1>4, DistValue
<1>7. Dist(w, write_index) <= Dist(read_index, write_index)
  BY <1>1, <1>2, <1>4, <1>5, <1>6 DEF Index
<1>8. Dist(read_index, w) + Dist(w, write_index) = Dist(read_index, write_index)
  BY <1>2, <1>4, <1>7, DistSplit
<1>9. Dist(read_index, w) <= Dist(read_index, write_index)
  BY <1>1, <1>2, <1>6, <1>8 DEF Index
<1>10. RingTypeOK'
  BY <1>4, <1>9 DEF RingTypeOK, Index, Dist
<1>11. PopSound'
  <2>1. w # read_index => Dist(read_index, w) > 0
    BY <1>1, <1>2, <1>4, <1>6, DistZero DEF Index
  <2> QED BY <2>1 DEF PopSound, Dist
<1>12. PushSound' /\ InsideSound'
  BY DEF PushSound, InsideSound, Dist
<1> QED BY <1>10, <1>11, <1>12

(* pop() copies its slot. *)
LEMMA PopReadInv ==
  ASSUME RingInv, PopRead
  PROVE  RingInv'
<1> USE DEF RingInv, PopRead, pushVars
<1>1. PhysicalSlot(read_index) \in 0 .. Capacity - 1
  BY RingTypes, SlotValue, RingAssumption DEF Index
<1>2. RingTypeOK'
  BY <1>1 DEF RingTypeOK, Dist
<1>3. PushSound' /\ PopSound' /\ InsideSound'
  BY DEF PushSound, PopSound, InsideSound, Dist, PhysicalSlot
<1> QED BY <1>2, <1>3

(* pop() gives its slot back. *)
LEMMA PopStoreInv ==
  ASSUME RingInv, PopStore
  PROVE  RingInv'
<1> USE DEF RingInv, PopStore, pushVars
<1>1. Capacity \in Nat /\ IndexSpan \in Nat /\ Capacity < IndexSpan
  BY CapacityFacts
<1>2. /\ write_index \in Index /\ read_index \in Index
      /\ seen_read \in Index /\ seen_write \in Index
      /\ Dist(read_index, write_index) \in Index
      /\ Dist(seen_read, write_index) \in Index
      /\ Dist(read_index, seen_write) \in Index
  BY RingTypes
<1>3. /\ 0 < Dist(read_index, seen_write)
      /\ Dist(read_index, seen_write) <= Dist(read_index, write_index)
      /\ Dist(read_index, write_index) <= Dist(seen_read, write_index)
      /\ Dist(seen_read, write_index) <= Capacity
  BY DEF RingTypeOK, PopSound
<1>4. Dist(read_index, write_index) > 0
  BY <1>1, <1>2, <1>3 DEF Index
<1>5. read_index # seen_write /\ read_index # write_index
  BY <1>1, <1>2, <1>3, <1>4, DistZero
<1>6. /\ read_index' \in Index
      /\ Dist(read_index', write_index) = Dist(read_index, write_index) - 1
      /\ Dist(read_index', seen_write) = Dist(read_index, seen_write) - 1
  BY <1>2, <1>5, DistFromSucc, SuccValue
<1>7. /\ Dist(read_index', seen_write) <= Dist(read_index', write_index)
      /\ Dist(read_index', write_index) <= Dist(seen_read, write_index)
  BY <1>1, <1>2, <1>3, <1>6 DEF Index
<1>8. RingTypeOK'
  BY <1>6, <1>7 DEF RingTypeOK, Index, Dist
<1>9. PushSound' /\ PopSound'
  BY DEF PushSound, PopSound, Dist, PhysicalSlot
<1>10. InsideSound'
  <2> SUFFICES ASSUME NEW i \in Index,
                      Dist(read_index', i) < Dist(read_index', write_index)
               PROVE  buffer[PhysicalSlot(i)] \in Items
    BY DEF InsideSound, Dist, PhysicalSlot
  <2>1. Dist(read_index, i) \in Index
    BY <1>2, DistValue
  <2>2. Dist(read_index', i)
          = IF read_index = i THEN IndexSpan - 1 ELSE Dist(read_index, i) - 1
    BY <1>2, DistFromSucc
  <2>3. Dist(read_index, i) < Dist(read_index, write_index)
    BY <1>1, <1>2, <1>6, <2>1, <2>2 DEF Index
  <2> QED BY <2>3 DEF InsideSound
<1> QED BY <1>8, <1>9, <1>10

LEMMA RingStutterInv ==
  ASSUME RingInv, UNCHANGED ringVars
  PROVE  RingInv'
BY DEF RingInv, RingTypeOK, PushSound, PopSound, InsideSound, Dist,
       PhysicalSlot, ringVars, pushVars, popVars

LEMMA RingNextInv ==
  ASSUME RingInv, [RingNext]_ringVars
  PROVE  RingInv'
BY PushLoadInv, PushWriteInv, PushStoreInv, PopLoadInv, PopReadInv,
   PopStoreInv, RingStutterInv DEF RingNext, Push, Pop

(* The invariant holds of every behaviour of the ring. *)
LEMMA RingInvariant == RingSpec => []RingInv
BY RingInitInv, RingNextInv, PTL DEF RingSpec

-----------------------------------------------------------------------------
(* The indices keep their types and their order across every wrap of       *)
(* size_t, and there are never more items inside than slots, for every     *)
(* capacity and every index width (push, pop).                             *)
THEOREM RingTypeCorrect == RingSpec => []RingTypeOK
BY RingInvariant, PTL DEF RingInv

(* push() never writes the slot that pop() may be reading, although both   *)
(* work with stale copies of the other's index: the two threads share no   *)
(* slot between the load of one index and the store of the other.          *)
LEMMA InvRaceFree == RingInv => RaceFree
<1> SUFFICES ASSUME RingInv, push_pc = "write", pop_pc = "read"
             PROVE  PhysicalSlot(write_index) # PhysicalSlot(read_index)
  BY DEF RaceFree
<1>1. Capacity \in Nat
  BY CapacityFacts
<1>2. /\ write_index \in Index /\ read_index \in Index
      /\ Dist(read_index, write_index) \in Index
      /\ Dist(seen_read, write_index) \in Index
      /\ Dist(read_index, seen_write) \in Index
  BY RingTypes DEF RingInv
<1>3. /\ 0 < Dist(read_index, seen_write)
      /\ Dist(read_index, seen_write) <= Dist(read_index, write_index)
      /\ Dist(read_index, write_index) <= Dist(seen_read, write_index)
      /\ Dist(seen_read, write_index) < Capacity
  BY DEF RingInv, RingTypeOK, PushSound, PopSound
<1>4. Dist(read_index, write_index) \in 1 .. Capacity - 1
  BY <1>1, <1>2, <1>3, RingAssumption DEF Index
<1> QED BY <1>2, <1>4, SlotsApart

(* No data race on a slot, for every capacity and every index width.       *)
THEOREM NoDataRace == RingSpec => []RaceFree
BY RingInvariant, InvRaceFree, PTL

-----------------------------------------------------------------------------
(* The ring as a queue. *)

(* A sequence with one element more, and one without its first. *)
LEMMA IsAppend ==
  ASSUME NEW T, NEW n \in Nat, NEW x \in T, NEW q \in Seq(T), Len(q) = n,
         NEW p \in Seq(T), Len(p) = n + 1, p[n + 1] = x,
         \A i \in 1 .. n : p[i] = q[i]
  PROVE  p = Append(q, x)
<1>1. Append(q, x) \in Seq(T) /\ Len(Append(q, x)) = n + 1
  OBVIOUS
<1>2. \A i \in 1 .. n + 1 : p[i] = Append(q, x)[i]
  OBVIOUS
<1> QED BY <1>1, <1>2

LEMMA IsTail ==
  ASSUME NEW T, NEW n \in Nat, NEW q \in Seq(T), Len(q) = n + 1,
         NEW p \in Seq(T), Len(p) = n,
         \A i \in 1 .. n : p[i] = q[i + 1]
  PROVE  p = Tail(q)
<1>1. Tail(q) \in Seq(T) /\ Len(Tail(q)) = n
  OBVIOUS
<1>2. \A i \in 1 .. n : p[i] = Tail(q)[i]
  OBVIOUS
<1> QED BY <1>1, <1>2

LEMMA IsSame ==
  ASSUME NEW T, NEW n \in Nat, NEW q \in Seq(T), Len(q) = n,
         NEW p \in Seq(T), Len(p) = n,
         \A i \in 1 .. n : p[i] = q[i]
  PROVE  p = q
OBVIOUS

(* The index of the i-th item inside. *)
IndexOf(i) == (read_index + i - 1) % IndexSpan

LEMMA IndexOfInside ==
  ASSUME RingInv, NEW i \in 1 .. Dist(read_index, write_index)
  PROVE  /\ IndexOf(i) \in Index
         /\ Dist(read_index, IndexOf(i)) = i - 1
         /\ Dist(IndexOf(i), write_index)
              = Dist(read_index, write_index) - (i - 1)
<1> DEFINE d == Dist(read_index, write_index)
<1>1. IndexSpan \in Nat /\ read_index \in Index /\ write_index \in Index
      /\ d \in Index
  BY CapacityFacts, RingTypes DEF RingInv
<1>2. i - 1 \in Index /\ i - 1 < d /\ i - 1 \in 0 .. d
  BY <1>1 DEF Index
<1>3. IndexOf(i) = (read_index + (i - 1)) % IndexSpan
  BY <1>1 DEF IndexOf, Index
<1>4. IndexOf(i) \in Visible(read_index, write_index)
  BY <1>2, <1>3 DEF Visible
<1>5. /\ IndexOf(i) \in Index
      /\ Dist(IndexOf(i), write_index) = d - Dist(read_index, IndexOf(i))
  BY <1>1, <1>4, VisibleBetween
<1>6. Dist(read_index, IndexOf(i)) = i - 1
  <2> DEFINE k == i - 1
             e == IndexOf(i)
  <2>1. k \in Index /\ e \in Index
        /\ e = IF read_index + k < IndexSpan THEN read_index + k
               ELSE read_index + k - IndexSpan
    BY <1>1, <1>2, <1>3, <1>5, ShiftValue
  <2>2. Dist(read_index, e) = IF read_index <= e THEN e - read_index
                              ELSE e - read_index + IndexSpan
    BY <1>1, <2>1, DistValue
  <2> HIDE DEF k, e
  <2>3. Dist(read_index, e) = k
    BY ONLY <1>1, <2>1, <2>2 DEF Index
  <2> QED BY <2>3 DEF k, e
<1> QED BY <1>5, <1>6

(* What is inside is a sequence of items, one for each index. *)
Contents ==
  /\ Inside \in Seq(Items)
  /\ Len(Inside) = Dist(read_index, write_index)
  /\ \A i \in 1 .. Dist(read_index, write_index) :
       Inside[i] = buffer[PhysicalSlot(IndexOf(i))]

LEMMA InsideType == RingInv => Contents
<1> SUFFICES ASSUME RingInv
             PROVE  Contents
  OBVIOUS
<1> DEFINE d == Dist(read_index, write_index)
<1>1. d \in Nat
  BY CapacityFacts, RingTypes DEF RingInv, Index
<1>2. \A i \in 1 .. d : buffer[PhysicalSlot(IndexOf(i))] \in Items
  <2> SUFFICES ASSUME NEW i \in 1 .. d
               PROVE  buffer[PhysicalSlot(IndexOf(i))] \in Items
    OBVIOUS
  <2>1. IndexOf(i) \in Index /\ Dist(read_index, IndexOf(i)) < d
    BY <1>1, IndexOfInside
  <2> QED BY <2>1 DEF RingInv, InsideSound
<1>3. Inside = [i \in 1 .. d |-> buffer[PhysicalSlot(IndexOf(i))]]
  BY DEF Inside, IndexOf
<1> HIDE DEF d
<1> DEFINE g(i) == buffer[PhysicalSlot(IndexOf(i))]
<1>4. Inside = [i \in 1 .. d |-> g(i)] /\ \A i \in 1 .. d : g(i) \in Items
  BY <1>2, <1>3
<1> HIDE DEF g
<1>5. Inside \in Seq(Items) /\ Len(Inside) = d
      /\ \A i \in 1 .. d : Inside[i] = g(i)
  BY ONLY <1>1, <1>4
<1> QED BY <1>5 DEF d, g, Contents

LEMMA InsideTypeNext == RingInv' => Contents'
BY InsideType, PTL

(* A step that moves neither index and disturbs no slot between them       *)
(* changes nothing that is inside.                                         *)
LEMMA InsideUnchanged ==
  ASSUME RingInv, RingInv', UNCHANGED <<read_index, write_index>>,
         \A i \in 1 .. Dist(read_index, write_index) :
           buffer'[PhysicalSlot(IndexOf(i))] = buffer[PhysicalSlot(IndexOf(i))]
  PROVE  Inside' = Inside
<1>1. Dist(read_index, write_index) \in Nat
  BY CapacityFacts, RingTypes DEF RingInv, Index
<1>2. /\ Inside \in Seq(Items)
      /\ Len(Inside) = Dist(read_index, write_index)
      /\ \A i \in 1 .. Dist(read_index, write_index) :
           Inside[i] = buffer[PhysicalSlot(IndexOf(i))]
  BY InsideType DEF Contents
<1>3. /\ Inside' \in Seq(Items)
      /\ Len(Inside') = Dist(read_index', write_index')
      /\ \A i \in 1 .. Dist(read_index', write_index') :
           Inside'[i] = buffer'[PhysicalSlot(IndexOf(i)')]
  BY InsideTypeNext DEF Contents, Dist, PhysicalSlot
<1>4. \A i \in 1 .. Dist(read_index, write_index) : IndexOf(i)' = IndexOf(i)
  BY DEF IndexOf
<1>5. Len(Inside') = Dist(read_index, write_index)
      /\ \A i \in 1 .. Dist(read_index, write_index) : Inside'[i] = Inside[i]
  BY <1>2, <1>3, <1>4
<1> QED BY <1>1, <1>2, <1>3, <1>5, IsSame

(* The slot push() writes holds none of the items inside. *)
LEMMA PushWriteKeeps ==
  ASSUME RingInv, PushWrite
  PROVE  Inside' = Inside
<1>1. RingInv' /\ UNCHANGED <<read_index, write_index>>
  BY PushWriteInv DEF PushWrite, popVars
<1>2. ASSUME NEW i \in 1 .. Dist(read_index, write_index)
      PROVE  buffer'[PhysicalSlot(IndexOf(i))] = buffer[PhysicalSlot(IndexOf(i))]
  <2>1. Capacity \in Nat /\ IndexSpan \in Nat /\ write_index \in Index
        /\ Dist(read_index, write_index) \in Index
        /\ Dist(seen_read, write_index) \in Index
    BY CapacityFacts, RingTypes DEF RingInv
  <2>2. Dist(read_index, write_index) <= Dist(seen_read, write_index)
        /\ Dist(seen_read, write_index) < Capacity
    BY DEF RingInv, RingTypeOK, PushSound, PushWrite
  <2>3. IndexOf(i) \in Index
        /\ Dist(IndexOf(i), write_index)
             = Dist(read_index, write_index) - (i - 1)
    BY IndexOfInside
  <2>4. Dist(IndexOf(i), write_index) \in 1 .. Capacity - 1
    BY <2>1, <2>2, <2>3 DEF Index
  <2>5. PhysicalSlot(IndexOf(i)) # PhysicalSlot(write_index)
    BY <2>1, <2>3, <2>4, SlotsApart
  <2>6. PhysicalSlot(IndexOf(i)) \in 0 .. Capacity - 1
    BY <2>1, <2>3, SlotValue DEF Index
  <2> QED BY <2>5, <2>6 DEF PushWrite, RingInv, RingTypeOK
<1> QED BY <1>1, <1>2, InsideUnchanged

(* The store of write_index_ is the moment of a push. *)
LEMMA PushStoreAppends ==
  ASSUME RingInv, PushStore
  PROVE  /\ pushing \in Items
         /\ Len(Inside) < Capacity
         /\ Inside' = Append(Inside, pushing)
<1> DEFINE d == Dist(read_index, write_index)
<1>1. Capacity \in Nat /\ IndexSpan \in Nat /\ Capacity < IndexSpan
      /\ write_index \in Index /\ read_index \in Index /\ d \in Index
      /\ Dist(seen_read, write_index) \in Index
  BY CapacityFacts, RingTypes DEF RingInv
<1>2. /\ pushing \in Items
      /\ d <= Dist(seen_read, write_index)
      /\ Dist(seen_read, write_index) < Capacity
      /\ buffer[PhysicalSlot(write_index)] = pushing
  BY DEF RingInv, RingTypeOK, PushSound, PushStore
<1>3. d < Capacity /\ d < IndexSpan - 1 /\ d \in Nat
  BY <1>1, <1>2 DEF Index
<1>4. RingInv'
  BY PushStoreInv
<1>5. Dist(read_index', write_index') = d + 1
  BY <1>1, <1>3, DistToSucc DEF PushStore, popVars
<1>6. /\ Inside \in Seq(Items) /\ Len(Inside) = d
      /\ \A i \in 1 .. d : Inside[i] = buffer[PhysicalSlot(IndexOf(i))]
  BY InsideType DEF Contents
<1>7. /\ Inside' \in Seq(Items)
      /\ Len(Inside') = Dist(read_index', write_index')
      /\ \A i \in 1 .. Dist(read_index', write_index') :
           Inside'[i] = buffer'[PhysicalSlot(IndexOf(i)')]
  BY <1>4, InsideTypeNext DEF Contents, Dist, PhysicalSlot
<1>8. /\ Len(Inside') = d + 1
      /\ \A i \in 1 .. d + 1 : Inside'[i] = buffer[PhysicalSlot(IndexOf(i))]
  BY <1>5, <1>7 DEF PushStore, popVars, IndexOf
<1>9. \A i \in 1 .. d : Inside'[i] = Inside[i]
  BY <1>3, <1>6, <1>8
<1>10. IndexOf(d + 1) = write_index
  <2>1. IndexOf(d + 1) = (read_index + d) % IndexSpan
    BY <1>1, <1>3 DEF IndexOf, Index
  <2>2. (read_index + d) % IndexSpan
          = IF read_index + d < IndexSpan THEN read_index + d
            ELSE read_index + d - IndexSpan
    BY <1>1, ShiftValue
  <2>3. d = IF read_index <= write_index THEN write_index - read_index
            ELSE write_index - read_index + IndexSpan
    BY <1>1, DistValue
  <2> HIDE DEF d
  <2> QED BY ONLY <1>1, <2>1, <2>2, <2>3 DEF Index
<1>11. Inside'[d + 1] = pushing
  BY <1>2, <1>3, <1>8, <1>10
<1> HIDE DEF d
<1> QED BY <1>2, <1>3, <1>6, <1>7, <1>8, <1>9, <1>11, IsAppend

(* The store of read_index_ is the moment of a pop. *)
LEMMA PopStoreTakes ==
  ASSUME RingInv, PopStore
  PROVE  /\ Inside # << >>
         /\ taken' = Head(Inside)
         /\ Inside' = Tail(Inside)
<1> DEFINE d == Dist(read_index, write_index)
<1>1. Capacity \in Nat /\ IndexSpan \in Nat
      /\ write_index \in Index /\ read_index \in Index /\ d \in Index
      /\ Dist(read_index, seen_write) \in Index
  BY CapacityFacts, RingTypes DEF RingInv
<1>2. /\ 0 < Dist(read_index, seen_write)
      /\ Dist(read_index, seen_write) <= d
      /\ out = buffer[PhysicalSlot(read_index)]
  BY DEF RingInv, RingTypeOK, PopSound, PopStore
<1>3. d \in Nat /\ d >= 1
  BY <1>1, <1>2 DEF Index
<1>4. RingInv'
  BY PopStoreInv
<1>5. read_index # write_index
  BY <1>1, <1>3, DistZero
<1>6. Dist(read_index', write_index') = d - 1
  BY <1>1, <1>5, DistFromSucc DEF PopStore, pushVars
<1>7. /\ Inside \in Seq(Items) /\ Len(Inside) = d
      /\ \A i \in 1 .. d : Inside[i] = buffer[PhysicalSlot(IndexOf(i))]
  BY InsideType DEF Contents
<1>8. /\ Inside' \in Seq(Items)
      /\ Len(Inside') = Dist(read_index', write_index')
      /\ \A i \in 1 .. Dist(read_index', write_index') :
           Inside'[i] = buffer'[PhysicalSlot(IndexOf(i)')]
  BY <1>4, InsideTypeNext DEF Contents, Dist, PhysicalSlot
<1>9. ASSUME NEW i \in 1 .. d - 1
      PROVE  PhysicalSlot(IndexOf(i)') = PhysicalSlot(IndexOf(i + 1))
  <2>1. read_index' \in Int /\ read_index' = (read_index + 1) % IndexSpan
    BY <1>1, SuccValue DEF PopStore, Succ, Index
  <2>2. read_index \in Int /\ i \in Int
    BY <1>1 DEF Index
  <2>3. PhysicalSlot(IndexOf(i + 1)) = PhysicalSlot(read_index + i)
    <3>1. read_index + (i + 1) - 1 = read_index + i /\ read_index + i \in Int
      BY <2>2
    <3> QED BY <3>1, SlotValue DEF IndexOf
  <2>4. PhysicalSlot(IndexOf(i)') = PhysicalSlot(read_index' + i - 1)
    <3>1. read_index' + i - 1 \in Int
      BY <2>1, <2>2
    <3> QED BY <3>1, SlotValue DEF IndexOf
  <2>5. read_index' = IF read_index + 1 = IndexSpan THEN 0 ELSE read_index + 1
    BY <1>1, SuccValue DEF PopStore
  <2>6. PhysicalSlot(read_index' + i - 1) = PhysicalSlot(read_index + i)
    <3>1. CASE read_index + 1 = IndexSpan
      <4>1. (read_index + i) % IndexSpan = i - 1
        <5>1. i - 1 \in 0 .. IndexSpan - 1 /\ read_index + i = IndexSpan + (i - 1)
          BY <1>1, <2>2, <3>1 DEF Index
        <5> QED BY <1>1, <5>1
      <4>2. read_index' + i - 1 = i - 1
        BY <2>2, <2>5, <3>1
      <4>3. read_index + i \in Int
        BY <2>2
      <4> QED BY <4>1, <4>2, <4>3, SlotValue
    <3>2. CASE read_index + 1 # IndexSpan
      <4>1. read_index' + i - 1 = read_index + i
        BY <2>2, <2>5, <3>2
      <4> QED BY <4>1
    <3> QED BY <3>1, <3>2
  <2> QED BY <2>3, <2>4, <2>6
<1>10. /\ Len(Inside') = d - 1
       /\ \A i \in 1 .. d - 1 : Inside'[i] = Inside[i + 1]
  <2>1. \A i \in 1 .. d - 1 : Inside'[i] = buffer[PhysicalSlot(IndexOf(i + 1))]
    BY <1>6, <1>8, <1>9 DEF PopStore
  <2>2. \A i \in 1 .. d - 1 : i + 1 \in 1 .. d
    BY <1>3
  <2> QED BY <1>6, <1>7, <1>8, <2>1, <2>2
<1>11. Inside[1] = out
  <2>1. IndexOf(1) = read_index
    BY <1>1 DEF IndexOf, Index
  <2> QED BY <1>2, <1>3, <1>7, <2>1
<1> DEFINE n == d - 1
<1>12. n \in Nat /\ Len(Inside) = n + 1 /\ Len(Inside') = n
       /\ \A i \in 1 .. n : Inside'[i] = Inside[i + 1]
  BY <1>3, <1>7, <1>10
<1> HIDE DEF n, d
<1>13. Inside' = Tail(Inside)
  BY ONLY <1>7, <1>8, <1>12, IsTail
<1> QED BY <1>3, <1>7, <1>11, <1>13 DEF PopStore

(* Every step of the ring is a step of the queue or none. *)
LEMMA RingStepSimulates ==
  ASSUME RingInv, [RingNext]_ringVars
  PROVE  [Fifo!Next]_<<Inside, taken>>
<1>1. RingInv'
  BY RingNextInv
<1>2. ASSUME UNCHANGED <<buffer, read_index, write_index, taken>>
      PROVE  UNCHANGED <<Inside, taken>>
  BY <1>1, <1>2, InsideUnchanged
<1>3. CASE \E item \in Items, r \in Visible(seen_read, read_index) :
             PushLoad(item, r)
  BY <1>2, <1>3 DEF PushLoad, popVars
<1>4. CASE PushWrite
  BY <1>4, PushWriteKeeps DEF PushWrite, popVars
<1>5. CASE PushStore
  <2>1. Fifo!Push(pushing)
    BY <1>5, PushStoreAppends DEF Fifo!Push, PushStore, popVars
  <2>2. pushing \in Items
    BY <1>5, PushStoreAppends
  <2> QED BY <2>1, <2>2 DEF Fifo!Next
<1>6. CASE \E w \in Visible(seen_write, write_index) : PopLoad(w)
  BY <1>2, <1>6 DEF PopLoad, pushVars
<1>7. CASE PopRead
  BY <1>2, <1>7 DEF PopRead, pushVars
<1>8. CASE PopStore
  BY <1>8, PopStoreTakes DEF Fifo!Pop, Fifo!Next
<1>9. CASE UNCHANGED ringVars
  BY <1>2, <1>9 DEF ringVars, pushVars, popVars
<1> QED BY <1>3, <1>4, <1>5, <1>6, <1>7, <1>8, <1>9
        DEF RingNext, Push, Pop

LEMMA RingInitSimulates == RingInit => Fifo!Init
<1> SUFFICES ASSUME RingInit
             PROVE  Inside = << >> /\ taken = NoItem
  BY DEF Fifo!Init
<1>1. Contents
  BY RingInitInv, InsideType
<1>2. Dist(read_index, write_index) = 0
  <2>1. 0 \in Index
    BY RingAssumption DEF Index
  <2> QED BY <2>1, DistZero DEF RingInit
<1>3. Inside = << >>
  BY <1>1, <1>2 DEF Contents
<1> QED BY <1>3 DEF RingInit

(* The ring implements a bounded FIFO queue, for every capacity, every     *)
(* index width and however stale the indices are that push() and pop()     *)
(* read: nothing is lost, repeated, reordered or overwritten.              *)
THEOREM RingIsFifo == RingSpec => ImplementsFifo
<1>1. RingInit => Fifo!Init
  BY RingInitSimulates
<1>2. RingInv /\ [RingNext]_ringVars => [Fifo!Next]_<<Inside, taken>>
  BY RingStepSimulates
<1> QED BY <1>1, <1>2, RingInvariant, PTL DEF RingSpec, ImplementsFifo, Fifo!Spec

-----------------------------------------------------------------------------
(* Streams and their messages. *)

LEMMA StreamFacts ==
  ASSUME NEW s \in Streams
  PROVE  /\ IsFramed(s) /\ Len(s.frames) \in Nat
         /\ \A i \in 1 .. Len(s.frames) :
              /\ s.frames[i].len \in Nat
              /\ decodes(s.frames[i]) => s.frames[i].msg \in Items
         /\ s.size \in 0 .. BytesUpTo(s, Len(s.frames))
BY StreamAssumption DEF IsFramed

(* Record k is complete and decode() takes it. *)
Counts(s, k) == BytesUpTo(s, k) <= s.size /\ decodes(s.frames[k])

LEMMA MessagesRec ==
  ASSUME NEW s \in Streams, NEW M, M = Messages(s)
  PROVE  /\ M \in [0 .. Len(s.frames) -> Seq(Items)]
         /\ M[0] = << >>
         /\ \A k \in 1 .. Len(s.frames) :
              M[k] = IF Counts(s, k) THEN Append(M[k - 1], s.frames[k].msg)
                     ELSE M[k - 1]
<1> DEFINE N == Len(s.frames)
           Rec(f) == [k \in 0 .. N |->
                        IF k = 0 THEN << >>
                        ELSE IF BytesUpTo(s, k) <= s.size /\ decodes(s.frames[k])
                             THEN Append(f[k - 1], s.frames[k].msg)
                             ELSE f[k - 1]]
           G == [x \in Seq(Items) \X (1 .. N) |->
                   IF Counts(s, x[2]) THEN Append(x[1], s.frames[x[2]].msg) ELSE x[1]]
<1>1. N \in Nat /\ \A k \in 1 .. N : decodes(s.frames[k]) => s.frames[k].msg \in Items
  BY StreamFacts
<1>2. M = CHOOSE f : f = Rec(f)
  BY DEF Messages
<1>3. \E f \in [0 .. N -> Seq(Items)] : f = Rec(f)
  <2>1. G \in [Seq(Items) \X (1 .. N) -> Seq(Items)]
    BY <1>1 DEF Counts
  <2>2. << >> \in Seq(Items)
    OBVIOUS
  <2> HIDE DEF G, N
  <2>3. PICK f : Iterates(f, Seq(Items), N, << >>, G)
    <3>1. N \in Nat
      BY <1>1
    <3> QED BY ONLY <3>1, <2>1, <2>2, IterationExists
  <2>4. ASSUME NEW k \in 0 .. N
        PROVE  f[k] = IF k = 0 THEN << >>
                      ELSE IF BytesUpTo(s, k) <= s.size /\ decodes(s.frames[k])
                           THEN Append(f[k - 1], s.frames[k].msg)
                           ELSE f[k - 1]
    <3>1. CASE k = 0
      BY <2>3, <3>1 DEF Iterates
    <3>2. CASE k # 0
      <4>1. k \in 1 .. N /\ k - 1 \in 0 .. N
        BY <1>1, <3>2
      <4>2. f[k - 1] \in Seq(Items) /\ f[k] = G[<<f[k - 1], k>>]
        BY <4>1, <2>3 DEF Iterates
      <4>3. G[<<f[k - 1], k>>] = IF Counts(s, k) THEN Append(f[k - 1], s.frames[k].msg)
                                 ELSE f[k - 1]
        BY <4>1, <4>2 DEF G
      <4> QED BY <4>2, <4>3, <3>2 DEF Counts
    <3> QED BY <3>1, <3>2
  <2>5. f = Rec(f)
    BY <2>3, <2>4 DEF Iterates
  <2> QED BY <2>3, <2>5 DEF Iterates
<1>4. M = Rec(M)
  BY <1>2, <1>3
<1>5. M[0] = << >>
  BY <1>1, <1>4
<1>6. \A k \in 1 .. N : M[k] = IF Counts(s, k) THEN Append(M[k - 1], s.frames[k].msg)
                               ELSE M[k - 1]
  <2> SUFFICES ASSUME NEW k \in 1 .. N
               PROVE  M[k] = IF Counts(s, k) THEN Append(M[k - 1], s.frames[k].msg)
                             ELSE M[k - 1]
    OBVIOUS
  <2>1. k \in 0 .. N /\ k # 0
    BY <1>1
  <2> QED BY <1>4, <2>1 DEF Counts
<1>7. \A k \in 0 .. N : M[k] \in Seq(Items)
  <2> DEFINE U == {k \in Nat : k <= N /\ M[k] \notin Seq(Items)}
  <2> HIDE DEF N, Rec
  <2>1. SUFFICES ASSUME U # {} PROVE FALSE
    BY <1>1, <2>1
  <2>2. PICK k \in U : \A y \in U : k <= y
    BY <2>1, LeastNat
  <2>3. k # 0
    <3>1. << >> \in Seq(Items)
      OBVIOUS
    <3> QED BY <1>5, <2>2, <3>1
  <2>4. k \in 1 .. N /\ k - 1 \in Nat
    BY <1>1, <2>2, <2>3
  <2>5. M[k - 1] \in Seq(Items)
    BY <1>1, <2>2, <2>4
  <2>6. Counts(s, k) => s.frames[k].msg \in Items
    BY <1>1, <2>4 DEF Counts
  <2>7. M[k] \in Seq(Items)
    <3>1. M[k] = IF Counts(s, k) THEN Append(M[k - 1], s.frames[k].msg) ELSE M[k - 1]
      BY <1>6, <2>4
    <3> DEFINE m == M[k - 1]
               x == s.frames[k].msg
    <3> HIDE DEF m, x
    <3>2. x \in Items => Append(m, x) \in Seq(Items)
      BY <2>5 DEF m
    <3> QED BY <2>5, <2>6, <3>1, <3>2 DEF m, x
  <2> QED BY <2>7
<1>8. M \in [0 .. N -> Seq(Items)]
  <2>1. DOMAIN M = 0 .. N
    BY <1>4
  <2>2. M = [k \in 0 .. N |-> M[k]]
    BY <1>4
  <2> HIDE DEF Rec, N
  <2> QED BY <1>7, <2>2
<1> QED BY <1>5, <1>6, <1>8

Starts(a, b) == Len(a) <= Len(b) /\ \A i \in 1 .. Len(a) : b[i] = a[i]

(* The messages of fewer records are the first of those of more. *)
LEMMA MessagesPrefix ==
  ASSUME NEW s \in Streams, NEW j \in 0 .. Len(s.frames), NEW k \in 0 .. Len(s.frames),
         j <= k
  PROVE  Starts(Messages(s)[j], Messages(s)[k])
<1> DEFINE N == Len(s.frames)
           M == Messages(s)
           Pre(n) == /\ Len(M[j]) <= Len(M[n])
                     /\ \A i \in 1 .. Len(M[j]) : M[n][i] = M[j][i]
           U == {n \in Nat : j <= n /\ n <= N /\ ~Pre(n)}
<1>1. N \in Nat /\ j \in 0 .. N /\ k \in 0 .. N
  BY StreamFacts
<1>2. /\ M \in [0 .. N -> Seq(Items)]
      /\ \A n \in 1 .. N : M[n] = IF Counts(s, n) THEN Append(M[n - 1], s.frames[n].msg)
                                  ELSE M[n - 1]
      /\ \A n \in 1 .. N : Counts(s, n) => s.frames[n].msg \in Items
  BY MessagesRec, StreamFacts DEF Counts
<1> HIDE DEF N, M
<1>3. SUFFICES ASSUME U # {} PROVE FALSE
  <2>1. CASE U = {}
    <3>1. Pre(k)
      BY <1>1, <2>1
    <3> QED BY <3>1 DEF Starts, M
  <2> QED BY <2>1
<1>4. PICK n \in U : \A y \in U : n <= y
  BY <1>3, LeastNat
<1>5. n # j
  BY <1>4
<1>6. n \in 1 .. N /\ n - 1 \in Nat /\ j <= n - 1 /\ n - 1 \in 0 .. N
  BY <1>1, <1>4, <1>5
<1>7. Pre(n - 1)
  BY <1>4, <1>6, <1>1
<1>8. CASE Counts(s, n)
  <2>1. M[n - 1] \in Seq(Items) /\ M[j] \in Seq(Items) /\ s.frames[n].msg \in Items
        /\ M[n] = Append(M[n - 1], s.frames[n].msg)
    BY <1>1, <1>2, <1>6, <1>8
  <2>2. Pre(n)
    BY <2>1, <1>7
  <2> QED BY <2>2
<1>9. CASE ~Counts(s, n)
  BY <1>2, <1>6, <1>7, <1>9
<1> QED BY <1>8, <1>9

(* Behind a record that is not complete, no record counts. *)
LEMMA MessagesEnd ==
  ASSUME NEW s \in Streams, NEW M, M = Messages(s), NEW j \in 0 .. Len(s.frames),
         j < Len(s.frames) => BytesUpTo(s, j + 1) > s.size
  PROVE  M[Len(s.frames)] = M[j]
<1> DEFINE N == Len(s.frames)
           U == {n \in Nat : j <= n /\ n <= N /\ M[n] # M[j]}
<1>1. N \in Nat /\ j \in 0 .. N /\ s.size \in Int /\ IsFramed(s)
  BY StreamFacts
<1>2. \A n \in 1 .. N : M[n] = IF Counts(s, n) THEN Append(M[n - 1], s.frames[n].msg)
                               ELSE M[n - 1]
  BY MessagesRec
<1>3. ASSUME NEW n \in 1 .. N, j < n PROVE ~Counts(s, n)
  <2>1. j + 1 \in 0 .. N /\ n \in 0 .. N /\ j + 1 <= n /\ j < N
    BY <1>1, <1>3
  <2>2. BytesUpTo(s, j + 1) \in Nat /\ BytesUpTo(s, n) \in Nat
    BY <1>1, <2>1, FramedNat
  <2>3. j + 1 < n => BytesUpTo(s, j + 1) < BytesUpTo(s, n)
    BY <1>1, <2>1, FramedGrow
  <2>4. BytesUpTo(s, n) > s.size
    BY <1>1, <2>1, <2>2, <2>3
  <2> QED BY <1>1, <2>2, <2>4 DEF Counts
<1> HIDE DEF N
<1>4. SUFFICES ASSUME U # {} PROVE FALSE
  BY <1>1 DEF N
<1>5. PICK n \in U : \A y \in U : n <= y
  BY <1>4, LeastNat
<1>6. n \in 1 .. N /\ n - 1 \in Nat /\ j <= n - 1 /\ n - 1 \notin U /\ j < n
  BY <1>1, <1>5
<1>7. M[n - 1] = M[j]
  BY <1>1, <1>6
<1> QED BY <1>2, <1>3, <1>6, <1>7

-----------------------------------------------------------------------------
(* Applying a message keeps the book as the book's proofs want it. *)
LEMMA ApplyInv ==
  ASSUME NEW b, BookInv(b), NEW msg \in Items
  PROVE  BookInv(apply(b, msg))
<1>1. IsMessage(msg)
  BY StreamAssumption
<1>2. CASE msg.type \in AddTypes
  <2> DEFINE d == IF msg.indicator = "B" THEN "buy" ELSE "sell"
  <2>1. d \in Sides /\ 0 \in Traders
    BY TraderAssumption DEF Sides
  <2>2. msg.ref \in Refs /\ msg.price \in Prices /\ msg.shares \in 0 .. ShareSpan - 1
    BY <1>1, <1>2 DEF IsMessage, AddTypes, NoOpTypes
  <2>3. apply(b, msg) = add_order(b, msg.ref, msg.price, msg.shares, d, 0).book
    BY ONLY <1>2 DEF apply, AddTypes, ExecuteTypes, NoOpTypes
  <2> HIDE DEF d
  <2> QED BY <2>1, <2>2, <2>3, AddEffect
<1>3. CASE msg.type \in ExecuteTypes \cup {"OrderCancel"}
  <2>1. msg.ref \in Refs /\ msg.shares \in Nat
    <3>1. msg.ref \in Refs /\ msg.shares \in 0 .. ShareSpan - 1
      BY <1>1, <1>3 DEF IsMessage, ExecuteTypes, NoOpTypes
    <3> QED BY <3>1, ShareAssumption
  <2>2. apply(b, msg) = reduce_shares(b, msg.ref, msg.shares).book
    BY ONLY <1>3 DEF apply, AddTypes, ExecuteTypes, NoOpTypes, execute_order,
                     cancel_order
  <2>3. ASSUME NEW ref \in Refs, NEW n \in Nat
        PROVE  BookInv(reduce_shares(b, ref, n).book)
    BY ReduceEffect
  <2> QED BY <2>1, <2>2, <2>3
<1>4. CASE msg.type = "OrderDelete"
  <2>1. msg.ref \in Refs
    BY <1>1, <1>4 DEF IsMessage, NoOpTypes
  <2>2. apply(b, msg) = delete_order(b, msg.ref).book
    BY ONLY <1>4 DEF apply, AddTypes, ExecuteTypes, NoOpTypes
  <2> QED BY <2>1, <2>2, DeleteEffect
<1>5. CASE msg.type = "OrderReplace"
  <2>1. /\ msg.ref \in Refs /\ msg.new_ref \in Refs
        /\ msg.shares \in 0 .. ShareSpan - 1 /\ msg.price \in Prices
    BY <1>1, <1>5 DEF IsMessage, NoOpTypes
  <2>2. apply(b, msg)
          = replace_order(b, msg.ref, msg.new_ref, msg.shares, msg.price).book
    BY ONLY <1>5 DEF apply, AddTypes, ExecuteTypes, NoOpTypes
  <2> DEFINE r == replace_order(b, msg.ref, msg.new_ref, msg.shares, msg.price)
             o == OrderOf(b, msg.ref)
  <2> HIDE DEF r, o
  <2>3. r = replace_order(b, msg.ref, msg.new_ref, msg.shares, msg.price)
        /\ o = OrderOf(b, msg.ref)
    BY DEF r, o
  <2>4. BookInv(r.book)
    BY ONLY BookInv(b), <2>1, <2>3, ReplaceEffect
  <2> QED BY <2>2, <2>3, <2>4
<1>6. CASE msg.type \in NoOpTypes
  <2>1. apply(b, msg) = b
    BY ONLY <1>6 DEF apply, AddTypes, ExecuteTypes, NoOpTypes
  <2> QED BY <2>1
<1> QED BY <1>1, <1>2, <1>3, <1>4, <1>5, <1>6
        DEF IsMessage, MessageTypes, AddTypes, ExecuteTypes, NoOpTypes

(* The books of a stream, each from the one before. *)
LEMMA BooksRec ==
  ASSUME NEW s \in Streams, NEW m, m = StreamMessages(s), NEW B, B = Books(s)
  PROVE  /\ m \in Seq(Items)
         /\ B[0] = EmptyBook
         /\ \A n \in 1 .. Len(m) : B[n] = apply(B[n - 1], m[n])
         /\ \A n \in 0 .. Len(m) : BookInv(B[n])
<1> DEFINE N == Len(m)
           T == {b \in Book : BookInv(b)}
           Rec(f) == [n \in 0 .. N |->
                        IF n = 0 THEN EmptyBook ELSE apply(f[n - 1], m[n])]
           G == [x \in T \X (1 .. N) |-> apply(x[1], m[x[2]])]
<1>1. m \in Seq(Items) /\ N \in Nat
  <2>1. Len(s.frames) \in Nat
    BY StreamFacts
  <2>2. m \in Seq(Items)
    BY <2>1, MessagesRec DEF StreamMessages
  <2> QED BY <2>2
<1>2. \A k \in 1 .. N : m[k] \in Items
  BY <1>1
<1>3. B = CHOOSE f : f = Rec(f)
  BY DEF Books
<1>4. ASSUME NEW b, BookInv(b) PROVE b \in T
  BY <1>4 DEF BookInv, Sound
<1>5. EmptyBook \in T
  BY <1>4, InitInv
<1>6. ASSUME NEW b \in T, NEW k \in 1 .. N PROVE apply(b, m[k]) \in T
  BY <1>2, <1>4, ApplyInv
<1> HIDE DEF T, N
<1>7. G \in [T \X (1 .. N) -> T]
  BY <1>6
<1> HIDE DEF G
<1>8. PICK f : Iterates(f, T, N, EmptyBook, G)
  BY ONLY <1>1, <1>5, <1>7, IterationExists
<1>9. f = Rec(f)
  <2>1. f \in [0 .. N -> T] /\ f[0] = EmptyBook
        /\ \A k \in 1 .. N : f[k] = G[<<f[k - 1], k>>]
    BY <1>8 DEF Iterates
  <2>2. ASSUME NEW k \in 0 .. N
        PROVE  f[k] = IF k = 0 THEN EmptyBook ELSE apply(f[k - 1], m[k])
    <3>1. CASE k = 0
      BY <2>1, <3>1
    <3>2. CASE k # 0
      <4>1. k \in 1 .. N /\ k - 1 \in 0 .. N
        BY <1>1, <3>2
      <4>2. f[k - 1] \in T /\ f[k] = G[<<f[k - 1], k>>]
        BY <4>1, <2>1
      <4>3. G[<<f[k - 1], k>>] = apply(f[k - 1], m[k])
        BY <4>1, <4>2 DEF G
      <4> QED BY <4>2, <4>3, <3>2
    <3> QED BY <3>1, <3>2
  <2> QED BY <2>1, <2>2
<1>10. B = Rec(B)
  BY <1>3, <1>9
<1>11. B[0] = EmptyBook
  BY <1>1, <1>10
<1>12. \A n \in 1 .. N : B[n] = apply(B[n - 1], m[n])
  <2> SUFFICES ASSUME NEW n \in 1 .. N
               PROVE  B[n] = apply(B[n - 1], m[n])
    OBVIOUS
  <2>1. n \in 0 .. N /\ n # 0
    BY <1>1
  <2> QED BY <1>10, <2>1
<1> HIDE DEF Rec
<1>13. \A n \in 0 .. N : B[n] \in T
  <2> DEFINE U == {n \in Nat : n <= N /\ B[n] \notin T}
  <2>1. SUFFICES ASSUME U # {} PROVE FALSE
    BY <1>1, <2>1
  <2>2. PICK n \in U : \A y \in U : n <= y
    BY <2>1, LeastNat
  <2>3. n # 0
    BY <1>5, <1>11, <2>2
  <2>4. n \in 1 .. N /\ n - 1 \in Nat /\ n - 1 <= N
    BY <1>1, <2>2, <2>3
  <2>5. B[n - 1] \in T
    BY <1>1, <2>2, <2>4
  <2> QED BY <1>6, <1>12, <2>4, <2>5
<1> QED BY <1>1, <1>11, <1>12, <1>13 DEF T, N

-----------------------------------------------------------------------------
(***************************************************************************)
(* The inductive invariant.  Sent counts the messages that have entered    *)
(* the ring, Popped the ones that have left it: what is inside are the     *)
(* messages of the stream between the two, in order.                       *)
(***************************************************************************)
Sent == Len(Messages(raw)[frame - 1])

Popped == processed + (IF consumer = "apply" THEN 1 ELSE 0)

ThreadsOK ==
  /\ raw \in Streams
  /\ frame \in 1 .. Len(raw.frames) + 1
  /\ offset = BytesUpTo(raw, frame - 1) /\ offset <= raw.size
  /\ producer \in {"walk", "push", "finish", "done"}
  /\ consumer \in {"pop", "apply", "check", "done"}
  /\ producer_done \in BOOLEAN /\ seen_done \in BOOLEAN /\ last_try \in BOOLEAN
  /\ seen_done => producer_done
  /\ producer_done <=> producer = "done"

(* The producer pushes the decodable record it stands before, and stops    *)
(* only in front of an incomplete one.                                     *)
ProducerSound ==
  /\ producer = "push" => Complete /\ decodes(raw.frames[frame])
  /\ push_pc # "idle" => producer = "push" /\ pushing = raw.frames[frame].msg
  /\ producer \in {"finish", "done"} => ~Complete

(* The try after the check sees the last store of write_index_. *)
ConsumerSound ==
  /\ pop_pc # "idle" => consumer = "pop"
  /\ last_try => producer_done /\ seen_write = write_index
  /\ consumer = "done" => producer_done /\ read_index = write_index

(* The messages on their way, and the book built from those that arrived. *)
Carried ==
  /\ processed \in Nat
  /\ Popped + Len(Inside) = Sent
  /\ \A i \in 1 .. Len(Inside) : Inside[i] = StreamMessages(raw)[Popped + i]
  /\ consumer = "apply" => taken = StreamMessages(raw)[processed + 1]
  /\ book = Books(raw)[processed]

PipeInv == RingInv /\ ThreadsOK /\ ProducerSound /\ ConsumerSound /\ Carried

-----------------------------------------------------------------------------
(* The producer's place in the stream. *)

(* A complete record is one of the stream's, and its end is the start of   *)
(* the next.                                                               *)
LEMMA CompleteFacts ==
  ASSUME ThreadsOK, Complete
  PROVE  /\ frame \in 1 .. Len(raw.frames)
         /\ FrameEnd = BytesUpTo(raw, (frame + 1) - 1)
         /\ FrameEnd <= raw.size
         /\ decodes(raw.frames[frame]) => raw.frames[frame].msg \in Items
         /\ Counts(raw, frame) <=> decodes(raw.frames[frame])
<1>1. /\ raw \in Streams /\ frame \in 1 .. Len(raw.frames) + 1
      /\ offset = BytesUpTo(raw, frame - 1) /\ offset + 2 <= raw.size
      /\ FrameEnd = offset + 2 + raw.frames[frame].len /\ FrameEnd <= raw.size
  BY DEF ThreadsOK, Complete, FrameEnd
<1>2. /\ IsFramed(raw) /\ Len(raw.frames) \in Nat
      /\ \A i \in 1 .. Len(raw.frames) :
              /\ raw.frames[i].len \in Nat
              /\ decodes(raw.frames[i]) => raw.frames[i].msg \in Items
      /\ raw.size \in 0 .. BytesUpTo(raw, Len(raw.frames))
  BY <1>1, StreamFacts
<1>3. BytesUpTo(raw, Len(raw.frames)) \in Nat
  <2>1. Len(raw.frames) \in 0 .. Len(raw.frames)
    BY <1>2
  <2> QED BY <1>2, <2>1, FramedNat
<1>4. frame # Len(raw.frames) + 1
  <2> SUFFICES ASSUME frame = Len(raw.frames) + 1
               PROVE  FALSE
    OBVIOUS
  <2>1. frame - 1 = Len(raw.frames)
    BY <1>2
  <2>2. offset = BytesUpTo(raw, Len(raw.frames))
    BY <1>1, <2>1
  <2> QED BY <1>1, <1>2, <1>3, <2>2
<1>5. frame \in 1 .. Len(raw.frames)
  BY <1>1, <1>2, <1>4
<1>6. BytesUpTo(raw, frame) = FrameEnd
  BY <1>1, <1>2, <1>5, FramedStep
<1>7. (frame + 1) - 1 = frame
  BY <1>5
<1> QED BY <1>1, <1>2, <1>5, <1>6, <1>7 DEF Counts

(* Where a record is not complete, all messages have been sent. *)
LEMMA IncompleteFacts ==
  ASSUME ThreadsOK, ~Complete
  PROVE  StreamMessages(raw) = Messages(raw)[frame - 1]
<1> DEFINE j == frame - 1
<1>1. /\ raw \in Streams /\ frame \in 1 .. Len(raw.frames) + 1
      /\ offset = BytesUpTo(raw, j) /\ offset <= raw.size
  BY DEF ThreadsOK
<1>2. /\ IsFramed(raw) /\ Len(raw.frames) \in Nat
      /\ \A i \in 1 .. Len(raw.frames) : raw.frames[i].len \in Nat
      /\ raw.size \in 0 .. BytesUpTo(raw, Len(raw.frames))
  BY <1>1, StreamFacts
<1>3. j \in 0 .. Len(raw.frames) /\ frame = j + 1
  BY <1>1, <1>2
<1> HIDE DEF j
<1>4. BytesUpTo(raw, j) \in Nat /\ raw.size \in Int
  BY <1>2, <1>3, FramedNat
<1>5. ASSUME j < Len(raw.frames)
      PROVE  BytesUpTo(raw, j + 1) > raw.size
  <2>1. j + 1 \in 1 .. Len(raw.frames) /\ (j + 1) - 1 = j
    BY <1>2, <1>3, <1>5
  <2>2. BytesUpTo(raw, j + 1) = BytesUpTo(raw, j) + 2 + raw.frames[j + 1].len
        /\ raw.frames[j + 1].len \in Nat
    BY <1>2, <2>1, FramedStep
  <2>3. FrameEnd = BytesUpTo(raw, j + 1)
    BY <1>1, <1>3, <2>2 DEF FrameEnd
  <2>4. ~(offset + 2 <= raw.size /\ FrameEnd <= raw.size)
    BY DEF Complete
  <2> QED BY <1>1, <1>4, <2>2, <2>3, <2>4
<1>6. Messages(raw)[Len(raw.frames)] = Messages(raw)[j]
  BY <1>1, <1>3, <1>5, MessagesEnd
<1> QED BY <1>6 DEF StreamMessages, j

(* What is sent is the beginning of what is to be sent. *)
LEMMA SentFacts ==
  ASSUME ThreadsOK
  PROVE  /\ Sent \in Nat /\ Sent <= Len(StreamMessages(raw))
         /\ StreamMessages(raw) \in Seq(Items)
         /\ Complete => Len(Messages(raw)[(frame + 1) - 1])
                          = IF decodes(raw.frames[frame]) THEN Sent + 1 ELSE Sent
         /\ Complete /\ decodes(raw.frames[frame]) =>
              StreamMessages(raw)[Sent + 1] = raw.frames[frame].msg
         /\ ~Complete => Sent = Len(StreamMessages(raw))
<1> DEFINE N == Len(raw.frames)
           M == Messages(raw)
           j == frame - 1
<1>1. raw \in Streams /\ frame \in 1 .. N + 1
  BY DEF ThreadsOK
<1>2. N \in Nat /\ j \in 0 .. N /\ N \in 0 .. N
  BY <1>1, StreamFacts
<1>3. M \in [0 .. N -> Seq(Items)]
  BY <1>1, MessagesRec
<1>4. M[j] \in Seq(Items) /\ M[N] \in Seq(Items) /\ StreamMessages(raw) = M[N]
      /\ Sent = Len(M[j])
  BY <1>2, <1>3 DEF StreamMessages, Sent
<1>prefix. ASSUME NEW p \in 0 .. N, NEW q \in 0 .. N, p <= q
      PROVE  /\ Len(M[p]) <= Len(M[q])
             /\ \A i \in 1 .. Len(M[p]) : M[q][i] = M[p][i]
  <2>1. p \in 0 .. Len(raw.frames) /\ q \in 0 .. Len(raw.frames)
    OBVIOUS
  <2>2. Starts(Messages(raw)[p], Messages(raw)[q])
    BY ONLY <1>1, <1>prefix, <2>1, MessagesPrefix
  <2> QED BY <2>2 DEF Starts
<1>5. Sent \in Nat /\ Sent <= Len(StreamMessages(raw))
  <2>1. j <= N
    BY <1>2
  <2>2. Len(M[j]) <= Len(M[N])
    BY <1>2, <1>prefix, <2>1
  <2> QED BY <1>4, <2>2
<1>6. ASSUME Complete
      PROVE  /\ Len(M[(frame + 1) - 1])
                  = IF decodes(raw.frames[frame]) THEN Sent + 1 ELSE Sent
             /\ decodes(raw.frames[frame]) =>
                  StreamMessages(raw)[Sent + 1] = raw.frames[frame].msg
  <2>1. /\ frame \in 1 .. N /\ (Counts(raw, frame) <=> decodes(raw.frames[frame]))
        /\ decodes(raw.frames[frame]) => raw.frames[frame].msg \in Items
    BY <1>6, CompleteFacts
  <2>2. M[frame] = IF Counts(raw, frame) THEN Append(M[frame - 1], raw.frames[frame].msg)
                   ELSE M[frame - 1]
    BY <1>1, <2>1, MessagesRec
  <2>3. (frame + 1) - 1 = frame /\ frame \in 0 .. N /\ frame <= N
    BY <1>2, <2>1
  <2>4. CASE decodes(raw.frames[frame])
    <3>1. Len(M[frame]) = Sent + 1 /\ M[frame][Sent + 1] = raw.frames[frame].msg
      BY <1>4, <2>1, <2>2, <2>4
    <3>2. \A i \in 1 .. Len(M[frame]) : M[N][i] = M[frame][i]
      BY <1>2, <1>prefix, <2>3
    <3>3. Sent + 1 \in 1 .. Len(M[frame])
      BY <1>5, <3>1
    <3> QED BY <1>4, <2>3, <2>4, <3>1, <3>2, <3>3
  <2>5. CASE ~decodes(raw.frames[frame])
    BY <1>4, <2>1, <2>2, <2>3, <2>5
  <2> QED BY <2>4, <2>5
<1>7. ~Complete => Sent = Len(StreamMessages(raw))
  BY IncompleteFacts DEF Sent
<1> QED BY <1>4, <1>5, <1>6, <1>7

-----------------------------------------------------------------------------
(* The ring under the pipeline's steps. *)

(* A step that leaves buffer and indices alone leaves the contents alone. *)
LEMMA InsideKept ==
  ASSUME RingInv, RingInv', UNCHANGED <<buffer, read_index, write_index>>
  PROVE  Inside' = Inside
BY InsideUnchanged

(* Reading producer_done lets the consumer see write_index_ as it is. *)
LEMMA SeenWriteInv ==
  ASSUME RingInv, pop_pc = "idle", seen_write' \in {seen_write, write_index},
         UNCHANGED <<buffer, pushVars, pop_pc, out, read_index, taken>>
  PROVE  RingInv'
<1> USE DEF RingInv, pushVars
<1>1. RingTypeOK'
  <2>1. Dist(read_index, write_index) \in Int
    BY RingTypes, RingAssumption DEF Index
  <2>2. Dist(read_index, seen_write') <= Dist(read_index, write_index)
    BY <2>1 DEF RingTypeOK
  <2>3. seen_write' \in 0 .. IndexSpan - 1
    BY DEF RingTypeOK
  <2> QED BY <2>2, <2>3 DEF RingTypeOK
<1>2. PushSound' /\ PopSound' /\ InsideSound'
  BY DEF PushSound, PopSound, InsideSound, Dist, PhysicalSlot
<1> QED BY <1>1, <1>2

(* A step that moves no message. *)
LEMMA CarriedKept ==
  ASSUME PipeInv, UNCHANGED <<raw, processed, book, taken>>, Inside' = Inside,
         consumer' = "apply" <=> consumer = "apply", Sent' = Sent
  PROVE  Carried'
<1>1. Popped' = Popped
  BY DEF Popped
<1>2. StreamMessages(raw)' = StreamMessages(raw) /\ Books(raw)' = Books(raw)
  OBVIOUS
<1> QED BY <1>1, <1>2 DEF PipeInv, Carried

(* Len(Inside) as the distance of the indices. *)
LEMMA InsideLength ==
  ASSUME RingInv
  PROVE  /\ Inside \in Seq(Items) /\ Len(Inside) \in Nat
         /\ read_index = write_index <=> Len(Inside) = 0
<1>1. Inside \in Seq(Items) /\ Len(Inside) = Dist(read_index, write_index)
  BY InsideType DEF Contents
<1>2. read_index \in Index /\ write_index \in Index
  BY RingTypes DEF RingInv
<1> QED BY <1>1, <1>2, DistZero

-----------------------------------------------------------------------------
(* The producer's steps keep the invariant. *)

LEMMA WalkInv == ASSUME PipeInv, Walk PROVE PipeInv'
<1> USE DEF Walk, ringVars, pushVars, popVars, consumerVars
<1>1. RingInv' /\ Inside' = Inside
  <2>1. RingInv'
    BY RingStutterInv DEF PipeInv
  <2> QED BY <2>1, InsideKept DEF PipeInv
<1>2. RingInv /\ ThreadsOK /\ ProducerSound /\ ConsumerSound
  BY DEF PipeInv
<1>3. ConsumerSound'
  BY <1>2 DEF ConsumerSound
<1>4. CASE ~Complete /\ producer' = "finish" /\ UNCHANGED <<frame, offset>>
  <2>1. ThreadsOK' /\ ProducerSound'
    BY <1>2, <1>4 DEF ThreadsOK, ProducerSound, Complete, FrameEnd
  <2>2. Carried'
    BY <1>1, <1>4, CarriedKept DEF Sent
  <2> QED BY <1>1, <1>3, <2>1, <2>2 DEF PipeInv
<1>5. CASE /\ Complete /\ ~decodes(raw.frames[frame])
           /\ offset' = FrameEnd /\ frame' = frame + 1 /\ UNCHANGED producer
  <2>1. /\ frame \in 1 .. Len(raw.frames)
        /\ FrameEnd = BytesUpTo(raw, (frame + 1) - 1)
        /\ FrameEnd <= raw.size
    BY <1>2, <1>5, CompleteFacts
  <2>2. Len(raw.frames) \in Nat
    BY <1>2, StreamFacts DEF ThreadsOK
  <2>3. frame + 1 \in 1 .. Len(raw.frames) + 1
    BY <2>1, <2>2
  <2>4. ThreadsOK'
    BY <1>2, <1>5, <2>1, <2>3 DEF ThreadsOK
  <2>5. ProducerSound'
    BY <1>2, <1>5 DEF ProducerSound
  <2>6. Sent' = Sent
    BY <1>2, <1>5, SentFacts DEF Sent
  <2>7. Carried'
    BY <1>1, <1>5, <2>6, CarriedKept
  <2> QED BY <1>1, <1>3, <2>4, <2>5, <2>7 DEF PipeInv
<1>6. CASE /\ Complete /\ decodes(raw.frames[frame])
           /\ producer' = "push" /\ UNCHANGED <<frame, offset>>
  <2>1. ThreadsOK' /\ ProducerSound'
    BY <1>2, <1>6 DEF ThreadsOK, ProducerSound, Complete, FrameEnd
  <2>2. Carried'
    BY <1>1, <1>6, CarriedKept DEF Sent
  <2> QED BY <1>1, <1>3, <2>1, <2>2 DEF PipeInv
<1> QED BY <1>4, <1>5, <1>6

LEMMA TryPushInv ==
  ASSUME PipeInv, NEW r \in Visible(seen_read, read_index), TryPush(r)
  PROVE  PipeInv'
<1> USE DEF TryPush, producerVars, consumerVars
<1>1. RingInv /\ ThreadsOK /\ ProducerSound /\ ConsumerSound
  BY DEF PipeInv
<1>2. raw.frames[frame].msg \in Items
  BY <1>1, CompleteFacts DEF ProducerSound
<1>3. RingInv'
  BY <1>1, <1>2, PushLoadInv
<1>4. Inside' = Inside
  BY <1>1, <1>3, InsideKept DEF PushLoad, popVars
<1>5. ThreadsOK' /\ ConsumerSound'
  BY <1>1 DEF ThreadsOK, ConsumerSound, PushLoad, popVars
<1>6. ProducerSound'
  BY <1>1 DEF ProducerSound, PushLoad, Complete, FrameEnd
<1>7. Carried'
  BY <1>4, CarriedKept DEF Sent, PushLoad, popVars
<1> QED BY <1>3, <1>5, <1>6, <1>7 DEF PipeInv

LEMMA FillSlotInv == ASSUME PipeInv, FillSlot PROVE PipeInv'
<1> USE DEF FillSlot, producerVars, consumerVars
<1>1. RingInv /\ ThreadsOK /\ ProducerSound /\ ConsumerSound
  BY DEF PipeInv
<1>2. RingInv' /\ Inside' = Inside
  BY <1>1, PushWriteInv, PushWriteKeeps
<1>3. ThreadsOK' /\ ConsumerSound'
  BY <1>1 DEF ThreadsOK, ConsumerSound, PushWrite, popVars
<1>4. ProducerSound'
  BY <1>1 DEF ProducerSound, PushWrite, Complete, FrameEnd
<1>5. Carried'
  BY <1>2, CarriedKept DEF Sent, PushWrite, popVars
<1> QED BY <1>2, <1>3, <1>4, <1>5 DEF PipeInv

(* The message enters the ring and is counted as sent in the same step. *)
LEMMA CompletePushInv == ASSUME PipeInv, CompletePush PROVE PipeInv'
<1> USE DEF CompletePush, consumerVars
<1> DEFINE m == StreamMessages(raw)
<1>1. RingInv /\ ThreadsOK /\ ProducerSound /\ ConsumerSound /\ Carried
  BY DEF PipeInv
<1>2. RingInv' /\ Inside' = Append(Inside, pushing) /\ pushing \in Items
  BY <1>1, PushStoreInv, PushStoreAppends
<1>3. /\ producer = "push" /\ Complete /\ decodes(raw.frames[frame])
      /\ pushing = raw.frames[frame].msg
  BY <1>1 DEF ProducerSound, PushStore
<1>4. /\ frame \in 1 .. Len(raw.frames)
      /\ FrameEnd = BytesUpTo(raw, (frame + 1) - 1)
      /\ FrameEnd <= raw.size
  BY <1>1, <1>3, CompleteFacts
<1>5. frame + 1 \in 1 .. Len(raw.frames) + 1
  <2>1. Len(raw.frames) \in Nat
    BY <1>1, StreamFacts DEF ThreadsOK
  <2> QED BY <1>4, <2>1
<1>6. ThreadsOK'
  BY <1>1, <1>3, <1>4, <1>5 DEF ThreadsOK
<1>7. ProducerSound'
  BY DEF ProducerSound, PushStore
<1>8. ConsumerSound'
  <2>1. ~producer_done
    BY <1>1, <1>3 DEF ThreadsOK
  <2> QED BY <1>1, <2>1 DEF ConsumerSound, PushStore, popVars
<1>9. Sent' = Sent + 1 /\ m[Sent + 1] = pushing /\ Sent \in Nat
  BY <1>1, <1>3, SentFacts DEF Sent
<1>10. Carried'
  <2>1. Popped' = Popped /\ Popped \in Nat
    BY <1>1 DEF Popped, Carried
  <2>2. /\ Inside \in Seq(Items) /\ Len(Inside') = Len(Inside) + 1
        /\ Inside'[Len(Inside) + 1] = pushing
        /\ \A i \in 1 .. Len(Inside) : Inside'[i] = Inside[i]
    BY <1>1, <1>2, InsideLength
  <2>3. /\ Popped + Len(Inside) = Sent /\ Len(Inside) \in Nat
        /\ \A i \in 1 .. Len(Inside) : Inside[i] = m[Popped + i]
    BY <1>1, InsideLength DEF Carried
  <2>4. ASSUME NEW i \in 1 .. Len(Inside')
        PROVE  Inside'[i] = m[Popped + i]
    <3>1. CASE i = Len(Inside) + 1
      <4>1. Popped + i = Sent + 1
        BY <2>1, <2>3, <3>1
      <4> QED BY <1>9, <2>2, <3>1, <4>1
    <3>2. CASE i # Len(Inside) + 1
      <4>1. i \in 1 .. Len(Inside)
        BY <2>2, <2>3, <3>2
      <4> QED BY <2>2, <2>3, <4>1
    <3> QED BY <3>1, <3>2
  <2>5. Popped' + Len(Inside') = Sent'
    BY <1>9, <2>1, <2>2, <2>3
  <2>6. m' = m /\ Books(raw)' = Books(raw)
    OBVIOUS
  <2> HIDE DEF m
  <2>7. /\ processed' \in Nat
        /\ consumer' = "apply" => taken' = m'[processed' + 1]
        /\ book' = Books(raw)'[processed']
    BY <1>1, <2>6 DEF Carried, PushStore, popVars, m
  <2> QED BY <2>1, <2>4, <2>5, <2>6, <2>7 DEF Carried, m
<1> QED BY <1>2, <1>6, <1>7, <1>8, <1>10 DEF PipeInv

LEMMA StoreDoneInv == ASSUME PipeInv, StoreDone PROVE PipeInv'
<1> USE DEF StoreDone, ringVars, pushVars, popVars, consumerVars
<1>1. RingInv /\ ThreadsOK /\ ProducerSound /\ ConsumerSound
  BY DEF PipeInv
<1>2. RingInv'
  BY <1>1, RingStutterInv
<1>3. Inside' = Inside
  BY <1>1, <1>2, InsideKept
<1>4. ThreadsOK' /\ ProducerSound'
  BY <1>1 DEF ThreadsOK, ProducerSound, Complete, FrameEnd
<1>5. ConsumerSound'
  BY <1>1 DEF ConsumerSound
<1>6. Carried'
  BY <1>3, CarriedKept DEF Sent
<1> QED BY <1>2, <1>4, <1>5, <1>6 DEF PipeInv

-----------------------------------------------------------------------------
(* The consumer's steps keep the invariant. *)

(* An index the thread has seen as it is can only be seen so again. *)
LEMMA VisibleSame ==
  ASSUME NEW i \in Index, NEW w \in Visible(i, i)
  PROVE  w = i
<1>1. w \in Index /\ Dist(i, w) <= Dist(i, i) /\ Dist(i, w) \in Index
  BY VisibleBetween, DistValue
<1>2. Dist(i, i) = 0
  BY DistZero
<1>3. Dist(i, w) = 0
  BY <1>1, <1>2, RingAssumption DEF Index
<1> QED BY <1>1, <1>3, DistZero

LEMMA TryPopInv ==
  ASSUME PipeInv, NEW w \in Visible(seen_write, write_index), TryPop(w)
  PROVE  PipeInv'
<1> USE DEF TryPop, producerVars
<1>1. RingInv /\ ThreadsOK /\ ProducerSound /\ ConsumerSound
  BY DEF PipeInv
<1>2. RingInv'
  BY <1>1, PopLoadInv
<1>3. Inside' = Inside
  BY <1>1, <1>2, InsideKept DEF PopLoad, pushVars
<1>4. ThreadsOK'
  BY <1>1 DEF ThreadsOK
<1>5. ProducerSound'
  BY <1>1 DEF ProducerSound, PopLoad, pushVars, Complete, FrameEnd
<1>6. last_try => w = write_index
  BY <1>1, VisibleSame, RingTypes DEF ConsumerSound, RingInv
<1>7. ConsumerSound'
  BY <1>1, <1>6 DEF ConsumerSound, PopLoad, pushVars
<1>8. Carried'
  BY <1>3, CarriedKept DEF Sent, PopLoad
<1> QED BY <1>2, <1>4, <1>5, <1>7, <1>8 DEF PipeInv

LEMMA CopySlotInv == ASSUME PipeInv, CopySlot PROVE PipeInv'
<1> USE DEF CopySlot, producerVars, consumerVars
<1>1. RingInv /\ ThreadsOK /\ ProducerSound /\ ConsumerSound
  BY DEF PipeInv
<1>2. RingInv'
  BY <1>1, PopReadInv
<1>3. Inside' = Inside
  BY <1>1, <1>2, InsideKept DEF PopRead, pushVars
<1>4. ThreadsOK' /\ ConsumerSound'
  BY <1>1 DEF ThreadsOK, ConsumerSound, PopRead, pushVars
<1>5. ProducerSound'
  BY <1>1 DEF ProducerSound, PopRead, pushVars, Complete, FrameEnd
<1>6. Carried'
  BY <1>3, CarriedKept DEF Sent, PopRead
<1> QED BY <1>2, <1>4, <1>5, <1>6 DEF PipeInv

(* The oldest message leaves the ring: it is the next of the stream. *)
LEMMA CompletePopInv == ASSUME PipeInv, CompletePop PROVE PipeInv'
<1> USE DEF CompletePop, producerVars
<1> DEFINE m == StreamMessages(raw)
<1>1. RingInv /\ ThreadsOK /\ ProducerSound /\ ConsumerSound /\ Carried
  BY DEF PipeInv
<1>2. RingInv' /\ Inside # << >> /\ taken' = Head(Inside) /\ Inside' = Tail(Inside)
  BY <1>1, PopStoreInv, PopStoreTakes
<1>3. consumer = "pop" /\ consumer' = "apply"
  BY <1>1 DEF ConsumerSound, PopStore
<1>4. ThreadsOK'
  BY <1>1 DEF ThreadsOK
<1>5. ProducerSound'
  BY <1>1 DEF ProducerSound, PopStore, pushVars, Complete, FrameEnd
<1>6. ConsumerSound'
  BY <1>1 DEF ConsumerSound, PopStore, pushVars
<1>7. Carried'
  <2>1. Popped = processed /\ Popped' = processed + 1 /\ processed \in Nat
    BY <1>1, <1>3 DEF Popped, Carried
  <2>2. /\ Inside \in Seq(Items) /\ Len(Inside) \in Nat /\ Len(Inside) >= 1
        /\ taken' = Inside[1] /\ Len(Inside') = Len(Inside) - 1
        /\ \A i \in 1 .. Len(Inside) - 1 : Inside'[i] = Inside[i + 1]
    BY <1>1, <1>2, InsideLength
  <2>3. /\ Popped + Len(Inside) = Sent
        /\ \A i \in 1 .. Len(Inside) : Inside[i] = m[Popped + i]
    BY <1>1 DEF Carried
  <2>4. Sent' = Sent /\ m' = m /\ Books(raw)' = Books(raw)
    BY DEF Sent
  <2> HIDE DEF m
  <2>5. Popped' + Len(Inside') = Sent'
    <3>1. Sent \in Int
      BY <2>1, <2>2, <2>3
    <3> QED BY <2>1, <2>2, <2>3, <2>4
  <2>6. ASSUME NEW i \in 1 .. Len(Inside')
        PROVE  Inside'[i] = m[Popped' + i]
    <3>1. i + 1 \in 1 .. Len(Inside) /\ i \in 1 .. Len(Inside) - 1
      BY <2>2
    <3>2. Popped + (i + 1) = Popped' + i
      BY <2>1, <2>2
    <3> QED BY <2>2, <2>3, <3>1, <3>2
  <2>7. taken' = m[processed + 1]
    <3>1. 1 \in 1 .. Len(Inside)
      BY <2>2
    <3> QED BY <2>1, <2>2, <2>3, <3>1
  <2>8. processed' = processed /\ book' = Books(raw)'[processed']
    BY <1>1, <2>4 DEF Carried
  <2> QED BY <2>1, <2>4, <2>5, <2>6, <2>7, <2>8 DEF Carried, m
<1> QED BY <1>2, <1>4, <1>5, <1>6, <1>7 DEF PipeInv

LEMMA ApplyMessageInv == ASSUME PipeInv, ApplyMessage PROVE PipeInv'
<1> USE DEF ApplyMessage, producerVars, ringVars, pushVars, popVars
<1> DEFINE m == StreamMessages(raw)
           B == Books(raw)
<1>1. RingInv /\ ThreadsOK /\ ProducerSound /\ ConsumerSound /\ Carried
  BY DEF PipeInv
<1>2. RingInv'
  BY <1>1, RingStutterInv
<1>3. Inside' = Inside
  BY <1>1, <1>2, InsideKept
<1>4. ThreadsOK' /\ ProducerSound' /\ ConsumerSound'
  BY <1>1 DEF ThreadsOK, ProducerSound, ConsumerSound, Complete, FrameEnd
<1>5. /\ Popped = processed + 1 /\ Popped' = processed + 1 /\ processed \in Nat
      /\ Popped + Len(Inside) = Sent /\ Len(Inside) \in Nat
      /\ taken = m[processed + 1] /\ book = B[processed]
  BY <1>1, InsideLength DEF Popped, Carried
<1>6. processed + 1 \in 1 .. Len(m) /\ raw \in Streams
  <2>1. Sent \in Nat /\ Sent <= Len(m) /\ m \in Seq(Items)
    BY <1>1, SentFacts
  <2>2. Len(m) \in Nat
    BY <2>1
  <2> HIDE DEF m
  <2> QED BY <1>1, <1>5, <2>1, <2>2 DEF ThreadsOK
<1>7. B[processed + 1] = apply(B[(processed + 1) - 1], m[processed + 1])
  BY <1>6, BooksRec
<1>8. (processed + 1) - 1 = processed
  BY <1>5
<1>9. book' = B[processed + 1]
  BY <1>5, <1>7, <1>8
<1>10. m' = m /\ B' = B /\ Sent' = Sent
  BY DEF Sent
<1> HIDE DEF m, B
<1>11. \A i \in 1 .. Len(Inside) : Inside[i] = m[Popped + i]
  BY <1>1 DEF Carried, m
<1>12. Carried'
  BY <1>3, <1>5, <1>9, <1>10, <1>11 DEF Carried, m, B
<1> QED BY <1>2, <1>4, <1>12 DEF PipeInv

LEMMA CheckDoneInv ==
  ASSUME PipeInv, NEW done \in {seen_done, producer_done}, CheckDone(done)
  PROVE  PipeInv'
<1> USE DEF CheckDone, producerVars
<1>1. RingInv /\ ThreadsOK /\ ProducerSound /\ ConsumerSound
  BY DEF PipeInv
<1>2. pop_pc = "idle"
  BY <1>1 DEF ConsumerSound
<1>3. RingInv'
  BY <1>1, <1>2, SeenWriteInv
<1>4. Inside' = Inside
  BY <1>1, <1>3, InsideKept DEF pushVars
<1>5. done => producer_done
  BY <1>1 DEF ThreadsOK
<1>6. ThreadsOK'
  BY <1>1, <1>5 DEF ThreadsOK
<1>7. ProducerSound'
  BY <1>1 DEF ProducerSound, pushVars, Complete, FrameEnd
<1>8. ConsumerSound'
  BY <1>1, <1>2, <1>5 DEF ConsumerSound, pushVars
<1>9. Carried'
  BY <1>4, CarriedKept DEF Sent
<1> QED BY <1>3, <1>6, <1>7, <1>8, <1>9 DEF PipeInv

-----------------------------------------------------------------------------
LEMMA PipeInitInv == Init => PipeInv
<1> SUFFICES ASSUME Init PROVE PipeInv
  OBVIOUS
<1> USE DEF Init
<1>1. RingInv
  BY RingInitInv
<1>2. /\ Len(raw.frames) \in Nat /\ IsFramed(raw)
      /\ raw.size \in 0 .. BytesUpTo(raw, Len(raw.frames))
  BY StreamFacts
<1>3. BytesUpTo(raw, 0) = 0 /\ raw.size \in Nat
  <2>1. 0 \in 0 .. Len(raw.frames) /\ Len(raw.frames) \in 0 .. Len(raw.frames)
    BY <1>2
  <2>2. BytesUpTo(raw, 0) = 0 /\ BytesUpTo(raw, Len(raw.frames)) \in Nat
    BY <1>2, <2>1, FramedNat
  <2> QED BY <1>2, <2>2
<1>4. frame - 1 = 0 /\ frame \in 1 .. Len(raw.frames) + 1
  BY <1>2
<1>5. ThreadsOK
  <2>1. BytesUpTo(raw, frame - 1) = 0
    BY <1>3, <1>4
  <2>2. offset <= raw.size
    BY <1>3
  <2> QED BY <1>4, <2>1, <2>2 DEF ThreadsOK
<1>6. ProducerSound /\ ConsumerSound
  BY DEF ProducerSound, ConsumerSound, RingInit
<1>7. Carried
  <2>1. Sent = 0
    <3>1. Messages(raw)[0] = << >>
      BY MessagesRec
    <3> QED BY <1>4, <3>1 DEF Sent
  <2>2. Len(Inside) = 0
    BY <1>1, InsideLength DEF RingInit
  <2>3. Books(raw)[0] = EmptyBook
    BY BooksRec
  <2> QED BY <2>1, <2>2, <2>3 DEF Carried, Popped
<1> QED BY <1>1, <1>5, <1>6, <1>7 DEF PipeInv

LEMMA PipeStutterInv == ASSUME PipeInv, UNCHANGED vars PROVE PipeInv'
<1> USE DEF vars, producerVars, consumerVars
<1>1. RingInv /\ ThreadsOK /\ ProducerSound /\ ConsumerSound
  BY DEF PipeInv
<1>2. RingInv'
  BY <1>1, RingStutterInv
<1> USE DEF ringVars, pushVars, popVars
<1>3. Inside' = Inside
  BY <1>1, <1>2, InsideKept
<1>4. ThreadsOK' /\ ProducerSound' /\ ConsumerSound'
  BY <1>1 DEF ThreadsOK, ProducerSound, ConsumerSound, Complete, FrameEnd
<1>5. Carried'
  BY <1>3, CarriedKept DEF Sent
<1> QED BY <1>2, <1>4, <1>5 DEF PipeInv

LEMMA PipeNextInv == ASSUME PipeInv, [Next]_vars PROVE PipeInv'
<1>1. CASE Producer
  BY <1>1, WalkInv, TryPushInv, FillSlotInv, CompletePushInv, StoreDoneInv DEF Producer
<1>2. CASE Consumer
  BY <1>2, TryPopInv, CopySlotInv, CompletePopInv, ApplyMessageInv, CheckDoneInv
     DEF Consumer
<1>3. CASE Return \/ UNCHANGED vars
  BY <1>3, PipeStutterInv DEF Return
<1> QED BY <1>1, <1>2, <1>3 DEF Next

(* The invariant holds of every execution of the pipeline. *)
LEMMA PipeInvariant == Spec => []PipeInv
BY PipeInitInv, PipeNextInv, PTL DEF Spec

-----------------------------------------------------------------------------
(* The theorems. *)

LEMMA InvTypeOK == PipeInv => TypeOK
<1> SUFFICES ASSUME PipeInv PROVE TypeOK
  OBVIOUS
<1>1. RingInv /\ ThreadsOK /\ Carried
  BY DEF PipeInv
<1>2. book \in Book
  <2>1. /\ processed \in Nat /\ Popped + Len(Inside) = Sent /\ Len(Inside) \in Nat
        /\ Popped \in Nat /\ processed <= Popped
    BY <1>1, InsideLength DEF Carried, Popped
  <2>2. Sent \in Nat /\ Sent <= Len(StreamMessages(raw)) /\ raw \in Streams
        /\ StreamMessages(raw) \in Seq(Items)
    BY <1>1, SentFacts DEF ThreadsOK
  <2>3. processed \in 0 .. Len(StreamMessages(raw))
    <3>1. Len(StreamMessages(raw)) \in Nat
      BY <2>2
    <3> QED BY <2>1, <2>2, <3>1
  <2>4. BookInv(Books(raw)[processed])
    BY <2>2, <2>3, BooksRec
  <2> QED BY <1>1, <2>4 DEF Carried, BookInv, Sound
<1> QED BY <1>1, <1>2 DEF TypeOK, ThreadsOK, RingInv

(* No byte beyond the stream is read and the book stays well-formed, in    *)
(* every execution of run_itch_pipeline on any stream, however the threads *)
(* interleave and however late they see each other's stores.               *)
THEOREM PipelineTypeCorrect == Spec => []TypeOK
BY PipeInvariant, InvTypeOK, PTL

(* The producer never writes the slot the consumer copies from, also where *)
(* the consumer learns of write_index_ through producer_done               *)
(* (run_itch_pipeline, push, pop).                                         *)
THEOREM PipelineRaceFree == Spec => []RaceFree
<1>1. PipeInv => RaceFree
  BY InvRaceFree DEF PipeInv
<1> QED BY <1>1, PipeInvariant, PTL

LEMMA InvSequential == PipeInv => BookIsSequential
<1> SUFFICES ASSUME PipeInv PROVE BookIsSequential
  OBVIOUS
<1>1. RingInv /\ ThreadsOK /\ Carried
  BY DEF PipeInv
<1>2. /\ processed \in Nat /\ Popped + Len(Inside) = Sent /\ Len(Inside) \in Nat
      /\ Popped \in Nat /\ processed <= Popped /\ book = Books(raw)[processed]
  BY <1>1, InsideLength DEF Carried, Popped
<1>3. Sent \in Nat /\ Sent <= Len(StreamMessages(raw)) /\ Len(StreamMessages(raw)) \in Nat
  BY <1>1, SentFacts
<1>4. processed <= Len(StreamMessages(raw))
  BY <1>2, <1>3
<1> QED BY <1>2, <1>4 DEF BookIsSequential

(* At every moment the consumer's book is the one that a single thread     *)
(* builds from the messages processed so far: none is lost, repeated, torn *)
(* or reordered between the threads of run_itch_pipeline.                  *)
THEOREM PipelineIsSequential == Spec => []BookIsSequential
BY PipeInvariant, InvSequential, PTL

LEMMA InvAllProcessed == PipeInv => AllProcessed
<1> SUFFICES ASSUME PipeInv, producer = "done", consumer = "done"
             PROVE  processed = Len(StreamMessages(raw))
  BY DEF AllProcessed, BothJoined
<1>1. RingInv /\ ThreadsOK /\ ProducerSound /\ ConsumerSound /\ Carried
  BY DEF PipeInv
<1>2. read_index = write_index /\ ~Complete
  BY <1>1 DEF ConsumerSound, ProducerSound
<1>3. Len(Inside) = 0
  BY <1>1, <1>2, InsideLength
<1>4. Popped = processed /\ processed \in Nat /\ Popped + Len(Inside) = Sent
  BY <1>1 DEF Carried, Popped
<1>5. Sent = Len(StreamMessages(raw))
  BY <1>1, <1>2, SentFacts
<1> QED BY <1>3, <1>4, <1>5

(* run_itch_pipeline returns only when every complete, decodable record    *)
(* has been applied: the second look at the ring after producer_done finds *)
(* whatever the producer stored before the flag.                           *)
THEOREM PipelineProcessesAll == Spec => []AllProcessed
BY PipeInvariant, InvAllProcessed, PTL

(* The ring, used from the two loops of the pipeline, is still the bounded *)
(* FIFO queue of BoundedFifo: the extra load of producer_done and the      *)
(* retries of the loops add nothing to what push and pop do to it.         *)
THEOREM PipelineIsFifo == Spec => ImplementsFifo
<1>1. Init => Fifo!Init
  BY RingInitSimulates DEF Init
<1>2. ASSUME PipeInv, [Next]_vars
      PROVE  [Fifo!Next]_<<Inside, taken>>
  <2>1. RingInv /\ RingInv' /\ ConsumerSound /\ ThreadsOK /\ ProducerSound
    BY <1>2, PipeNextInv DEF PipeInv
  <2>2. CASE [RingNext]_ringVars
    BY <2>1, <2>2, RingStepSimulates
  <2>3. CASE \E r \in Visible(seen_read, read_index) : TryPush(r)
    <3>1. PICK r \in Visible(seen_read, read_index) : TryPush(r)
      BY <2>3
    <3>2. raw.frames[frame].msg \in Items
      BY <2>1, <3>1, CompleteFacts DEF ProducerSound, TryPush
    <3>3. RingNext
      BY <3>1, <3>2 DEF TryPush, RingNext, Push
    <3> QED BY <2>1, <3>3, RingStepSimulates
  <2>4. CASE \E done \in {seen_done, producer_done} : CheckDone(done)
    <3>1. UNCHANGED <<buffer, read_index, write_index, taken>>
      BY <2>4 DEF CheckDone, pushVars
    <3> QED BY <2>1, <3>1, InsideKept
  <2>5. Next \/ UNCHANGED vars =>
          \/ [RingNext]_ringVars
          \/ \E r \in Visible(seen_read, read_index) : TryPush(r)
          \/ \E done \in {seen_done, producer_done} : CheckDone(done)
    BY DEF Next, Producer, Consumer, Return, Walk, FillSlot, CompletePush,
           StoreDone, TryPop, CopySlot, CompletePop, ApplyMessage, RingNext,
           Push, Pop, vars
  <2> QED BY <1>2, <2>2, <2>3, <2>4, <2>5
<1> QED BY <1>1, <1>2, PipeInvariant, PTL DEF Spec, ImplementsFifo, Fifo!Spec
=============================================================================
