-------------------------- MODULE LinkedBookProofs --------------------------
(***************************************************************************)
(* Theorems about LinkedBook: the order book on its pool, its intrusive    *)
(* lists and its hash table implements the book of OrderBook.tla, for      *)
(* every capacity, price window, set of references, hash function and      *)
(* sequence of calls.                                                      *)
(*                                                                         *)
(* Rep(b, a) relates a linked book to the abstract book whose orders its   *)
(* slots hold, whose queues its lists link, whose free slots its free list *)
(* links and whose index its table answers.  Each call is followed through *)
(* its container calls, by what ContainerProofs shows of each of them, and *)
(* ends in the book that the abstract call of OrderBookOps gives.          *)
(***************************************************************************)
EXTENDS LinkedBook, FiniteSetTheorems, TLAPS

(* Pointers to orders. *)
Ptr == (1 .. OrderCapacity) \cup {Nullptr}

(* An order with its links; that a pool slot may hold. *)
LinkedOrders ==
  [order_ref : Nat, price : Nat, shares : Nat, side : {"buy", "sell"}, trader_id : Nat,
   level : Book!Levels \cup {<<"null", 0>>}, prev : Ptr, next : Ptr]

C == INSTANCE ContainerProofs
       WITH Keys <- Refs, Values <- 1 .. OrderCapacity, NoValue <- Nullptr,
            CapacityHint <- OrderCapacity, MaxLive <- OrderCapacity,
            map <- linked.index,
            PoolCapacity <- OrderCapacity, Nodes <- 1 .. OrderCapacity, Null <- Nullptr,
            Lists <- {}, Objects <- LinkedOrders, NewNode <- NewOrder,
            pool <- linked.pool, lists <- linked.lists, owner <- << >>

A == INSTANCE OrderBookOpsProofs WITH IndexCapacity <- Index!Capacity

(* The containers of LinkedBook are those of ContainerProofs, and the book *)
(* it implements is the one of OrderBookOpsProofs: the operators of the    *)
(* two instances are the same functions. Walking a list:                   *)
LEMMA SameForward ==
  ASSUME NEW mem, NEW list
  PROVE  /\ List!Forward(mem, list) = C!Forward(mem, list)
         /\ List!Backward(mem, list) = C!Backward(mem, list)
         /\ List!Mirrored(mem, list) = C!Mirrored(mem, list)
BY Zenon DEF List!Forward, C!Forward, List!IsNode, C!IsNode, List!Cardinality, C!Cardinality,
  List!Backward, C!Backward, List!Mirrored, C!Mirrored

(* Linking and unlinking: *)
LEMMA SamePush ==
  ASSUME NEW mem, NEW list, NEW n
  PROVE  /\ List!push_back(mem, list, n) = C!push_back(mem, list, n)
         /\ List!remove(mem, list, n) = C!remove(mem, list, n)
BY DEF List!push_back, C!push_back, List!SetNext, C!SetNext, List!SetPrev, C!SetPrev,
       List!remove, C!remove

(* Probing: *)
LEMMA SameProbes ==
  /\ Index!Capacity = C!Capacity /\ Index!Indices = C!Indices
  /\ \A s, k : Index!Holds(s, k) <=> C!Holds(s, k)
  /\ \A m, k : Index!probe_start(m, k) = C!probe_start(m, k)
  /\ \A m, k, n : Index!ProbeAt(m, k, n) = C!ProbeAt(m, k, n)
  /\ \A m, k : Index!Probes(m, k) = C!Probes(m, k)
  /\ \A m, k : Index!Found(m, k) <=> C!Found(m, k)
  /\ \A m, k : Index!Passed(m, k) = C!Passed(m, k)
  /\ \A T : Index!Min(T) = C!Min(T)
  /\ Index!EmptySlot = C!EmptySlot
<1> USE Zenon DEF Index!ProbeAt, C!ProbeAt, Index!probe_start, C!probe_start, Index!Holds, C!Holds,
     Index!Indices, C!Indices, Index!Capacity, C!Capacity,
     Index!round_up_to_power_of_two, C!round_up_to_power_of_two,
     Index!IsPowerOfTwo, C!IsPowerOfTwo, Index!Min, C!Min, Index!EmptySlot, C!EmptySlot
<1>1. /\ Index!Capacity = C!Capacity /\ Index!Indices = C!Indices
      /\ \A s, k : Index!Holds(s, k) <=> C!Holds(s, k)
      /\ \A m, k : Index!probe_start(m, k) = C!probe_start(m, k)
      /\ \A m, k, n : Index!ProbeAt(m, k, n) = C!ProbeAt(m, k, n)
      /\ \A T : Index!Min(T) = C!Min(T)
      /\ Index!EmptySlot = C!EmptySlot
  OBVIOUS
<1>2. \A m, k : Index!Probes(m, k) = C!Probes(m, k)
  BY DEF Index!Probes, C!Probes
<1>3. ASSUME NEW m, NEW k PROVE Index!Found(m, k) <=> C!Found(m, k)
  BY ONLY <1>1, <1>2, Zenon DEF Index!Found, C!Found
<1>4. \A m, k : Index!Passed(m, k) = C!Passed(m, k)
  BY DEF Index!Passed, C!Passed, Index!Probes, C!Probes
<1> QED BY <1>1, <1>2, <1>3, <1>4

(* The calls of the index: *)
LEMMA SameIndex ==
  /\ \A m, k : Index!find(m, k) = C!find(m, k)
  /\ \A m, k, v : Index!insert(m, k, v) = C!insert(m, k, v)
  /\ \A m, k : Index!erase(m, k) = C!erase(m, k)
  /\ \A h : Index!EmptyMap(h) = C!EmptyMap(h)
  /\ Index!FindExact <=> C!FindExact
<1>1. \A m, k : Index!find(m, k) = C!find(m, k)
  BY SameProbes DEF Index!find, C!find
<1>2. \A m, i, k, v : Index!place(m, i, k, v) = C!place(m, i, k, v)
  BY Zenon DEF Index!place, C!place
<1>3. \A m, k, v : Index!insert(m, k, v) = C!insert(m, k, v)
  BY SameProbes, <1>2 DEF Index!insert, C!insert
<1>4. \A m, k : Index!erase(m, k) = C!erase(m, k)
  BY SameProbes DEF Index!erase, C!erase
<1>5. \A h : Index!EmptyMap(h) = C!EmptyMap(h)
  BY SameProbes DEF Index!EmptyMap, C!EmptyMap
<1>6. \A m : Index!Content(m) = C!Content(m)
  BY Zenon DEF Index!Content, C!Content, Index!SlotsIn, C!SlotsIn, Index!Holds, C!Holds,
     Index!Indices, C!Indices, Index!Capacity, C!Capacity,
     Index!round_up_to_power_of_two, C!round_up_to_power_of_two,
     Index!IsPowerOfTwo, C!IsPowerOfTwo
<1>7. \A m, s : Index!SlotsIn(m, s) = C!SlotsIn(m, s)
  BY SameProbes DEF Index!SlotsIn, C!SlotsIn
<1>8. Index!FindExact <=> C!FindExact
  BY <1>1, <1>6, <1>7 DEF Index!FindExact, C!FindExact, Index!NoDuplicates, C!NoDuplicates
<1> QED BY <1>1, <1>3, <1>4, <1>5, <1>8

(* Cardinality: *)
LEMMA SameCard ==
  ASSUME NEW S
  PROVE  List!Cardinality(S) = Cardinality(S) /\ C!Cardinality(S) = Cardinality(S)
BY Zenon DEF List!Cardinality, C!Cardinality, Cardinality

(* Levels, sides and the level of a price: *)
LEMMA SameLevels ==
  /\ Book!Levels = A!Levels /\ Book!Sides = A!Sides /\ Book!NoPrice = A!NoPrice
  /\ \A p : Book!LevelFor(p) = A!LevelFor(p)
BY Zenon DEF Book!Levels, A!Levels, Book!Sides, A!Sides, Book!NoPrice, A!NoPrice,
   Book!FlatSlots, A!FlatSlots, Book!Outliers, A!Outliers, Book!LevelFor, A!LevelFor

(* The parts that the calls of the book are made of: *)
LEMMA SameParts ==
  /\ \A b : Book!order_count(b) = A!order_count(b)
  /\ \A q, s : Book!Unlink(q, s) = A!Unlink(q, s)
  /\ \A b, d, w : Book!ScanLevels(b, d, w) = A!ScanLevels(b, d, w)
<1>1. \A b : Book!order_count(b) = A!order_count(b)
  BY Zenon DEF Book!order_count, A!order_count, Book!Cardinality, A!Cardinality, Book!Live, A!Live,
    Book!NoSlot, A!NoSlot
<1>2. \A q, s : Book!Unlink(q, s) = A!Unlink(q, s)
  BY Zenon DEF Book!Unlink, A!Unlink
<1>3. ASSUME NEW b, NEW d, NEW w PROVE Book!ScanLevels(b, d, w) = A!ScanLevels(b, d, w)
  <2>1. \A e, ps : Book!BestIn(e, ps) = A!BestIn(e, ps)
    BY Zenon DEF Book!BestIn, A!BestIn, Book!NoPrice, A!NoPrice, Book!Max, A!Max, Book!Min, A!Min
  <2>2. \A e, p, q : Book!BetterOf(e, p, q) = A!BetterOf(e, p, q)
    BY DEF Book!BetterOf, A!BetterOf, Book!Better, A!Better, Book!NoPrice, A!NoPrice
  <2> DEFINE F1 == {i \in Book!FlatSlots : /\ b.total[<<"flat", i>>][d] > 0
                                            /\ Book!FlatPrice(i) \in w}
             F2 == {i \in A!FlatSlots : /\ b.total[<<"flat", i>>][d] > 0
                                         /\ A!FlatPrice(i) \in w}
             O1 == {p \in Book!Outliers \cap w : b.total[<<"outlier", p>>][d] > 0}
             O2 == {p \in A!Outliers \cap w : b.total[<<"outlier", p>>][d] > 0}
  <2>3. F1 = F2 /\ O1 = O2
    BY Zenon DEF Book!FlatSlots, A!FlatSlots, Book!FlatPrice, A!FlatPrice, Book!Outliers, A!Outliers
  <2>4. \A i : Book!FlatPrice(i) = A!FlatPrice(i)
    BY Zenon DEF Book!FlatPrice, A!FlatPrice
  <2>5. /\ Book!ScanLevels(b, d, w) =
             Book!BetterOf(d, IF F1 = {} THEN Book!NoPrice ELSE Book!FlatPrice(Book!BestIn(d, F1)),
                           Book!BestIn(d, O1))
        /\ A!ScanLevels(b, d, w) =
             A!BetterOf(d, IF F2 = {} THEN A!NoPrice ELSE A!FlatPrice(A!BestIn(d, F2)),
                        A!BestIn(d, O2))
    BY DEF Book!ScanLevels, A!ScanLevels
  <2> HIDE DEF F1, F2, O1, O2
  <2> QED BY <2>1, <2>2, <2>3, <2>4, <2>5, SameLevels
<1> QED BY <1>1, <1>2, <1>3

(* The best prices: *)
LEMMA SameBest ==
  /\ \A b, p, d : Book!update_best_on_add(b, p, d) = A!update_best_on_add(b, p, d)
  /\ \A b, d : Book!recompute_best_after_level_emptied(b, d) = A!recompute_best_after_level_emptied(b, d)
<1>1. \A b, p, d : Book!update_best_on_add(b, p, d) = A!update_best_on_add(b, p, d)
  BY Zenon DEF Book!update_best_on_add, A!update_best_on_add, Book!Better, A!Better, Book!NoPrice, A!NoPrice
<1>2. \A b, d : Book!recompute_best_after_level_emptied(b, d) = A!recompute_best_after_level_emptied(b, d)
  BY SameParts DEF Book!recompute_best_after_level_emptied, A!recompute_best_after_level_emptied
<1> QED BY <1>1, <1>2

(* Removing an order: *)
LEMMA SameSteps ==
  /\ \A b, s, o : Book!Link(b, s, o) = A!Link(b, s, o)
  /\ \A b, s, o : Book!Delink(b, s, o) = A!Delink(b, s, o)
  /\ \A b, s, o : Book!Acquire(b, s, o) = A!Acquire(b, s, o)
  /\ \A b, s : Book!Release(b, s) = A!Release(b, s)
  /\ \A b : Book!IndexFull(b) <=> A!IndexFull(b)
  /\ \A b, s : Book!remove_order_fully(b, s) = A!remove_order_fully(b, s)
<1>1. \A b, s, o : Book!Link(b, s, o) = A!Link(b, s, o)
  BY Zenon DEF Book!Link, A!Link
<1>2. ASSUME NEW b, NEW s, NEW o PROVE Book!Delink(b, s, o) = A!Delink(b, s, o)
  <2> DEFINE q == b.queue[o.level][o.side]
             With(u) == [b EXCEPT !.queue[o.level][o.side] = u,
                                  !.total[o.level][o.side] = (@ - o.shares) % ShareSpan]
  <2>1. Book!Delink(b, s, o) = With(Book!Unlink(q, s)) /\ A!Delink(b, s, o) = With(A!Unlink(q, s))
    BY DEF Book!Delink, A!Delink
  <2> QED BY <2>1, SameParts
<1>3. \A b, s, o : Book!Acquire(b, s, o) = A!Acquire(b, s, o)
  BY Zenon DEF Book!Acquire, A!Acquire
<1>4. \A b, s : Book!Release(b, s) = A!Release(b, s)
  BY Zenon DEF Book!Release, A!Release, Book!NoOrder, A!NoOrder, Book!NoLevel, A!NoLevel
<1>5. \A b : Book!IndexFull(b) <=> A!IndexFull(b)
  BY SameParts DEF Book!IndexFull, A!IndexFull
<1>6. \A b, s : Book!remove_order_fully(b, s) = A!remove_order_fully(b, s)
  BY SameBest, <1>2, <1>4 DEF Book!remove_order_fully, A!remove_order_fully, Book!NoSlot, A!NoSlot
<1> QED BY <1>1, <1>2, <1>3, <1>4, <1>5, <1>6

(* The four calls: *)
LEMMA SameCalls ==
  /\ \A b, ref, p, n, d, t : Book!add_order(b, ref, p, n, d, t) = A!add_order(b, ref, p, n, d, t)
  /\ \A b, ref, n : Book!reduce_shares(b, ref, n) = A!reduce_shares(b, ref, n)
  /\ \A b, ref : Book!delete_order(b, ref) = A!delete_order(b, ref)
  /\ \A b, old, new, n, p : Book!replace_order(b, old, new, n, p) = A!replace_order(b, old, new, n, p)
<1> USE DEF Book!Refused, A!Refused, Book!Accepted, A!Accepted, Book!Live, A!Live, Book!NoSlot, A!NoSlot,
     Book!OrderOf, A!OrderOf
<1>1. ASSUME NEW b, NEW ref, NEW p, NEW n, NEW d, NEW t
      PROVE  Book!add_order(b, ref, p, n, d, t) = A!add_order(b, ref, p, n, d, t)
  <2> DEFINE s == Head(b.free)
             o == [order_ref |-> ref, price |-> p, shares |-> n, side |-> d,
                   trader_id |-> t, level |-> Book!LevelFor(p)]
             k == Book!Link(Book!Acquire(b, s, o), s, o)
  <2>1. k = A!Link(A!Acquire(b, s, o), s, o)
    BY SameSteps
  <2>2. o = [order_ref |-> ref, price |-> p, shares |-> n, side |-> d,
                   trader_id |-> t, level |-> A!LevelFor(p)]
    BY SameLevels
  <2>3. Book!add_order(b, ref, p, n, d, t) =
          IF n = 0 \/ Book!Live(b, ref) \/ b.free = <<>> THEN Book!Refused(b)
          ELSE IF Book!IndexFull(k) THEN Book!Refused(Book!Release(Book!Delink(k, s, o), s))
          ELSE Book!Accepted(Book!update_best_on_add([k EXCEPT !.index[ref] = s], p, d))
    BY DEF Book!add_order
  <2>4. A!add_order(b, ref, p, n, d, t) =
          IF n = 0 \/ A!Live(b, ref) \/ b.free = <<>> THEN A!Refused(b)
          ELSE IF A!IndexFull(k) THEN A!Refused(A!Release(A!Delink(k, s, o), s))
          ELSE A!Accepted(A!update_best_on_add([k EXCEPT !.index[ref] = s], p, d))
    BY <2>1, <2>2 DEF A!add_order
  <2> HIDE DEF k, o, s
  <2>5. /\ Book!Live(b, ref) <=> A!Live(b, ref)
        /\ \A x : Book!Refused(x) = A!Refused(x) /\ Book!Accepted(x) = A!Accepted(x)
    OBVIOUS
  <2>6. Book!Release(Book!Delink(k, s, o), s) = A!Release(A!Delink(k, s, o), s)
    BY SameSteps
  <2>7. Book!update_best_on_add([k EXCEPT !.index[ref] = s], p, d)
          = A!update_best_on_add([k EXCEPT !.index[ref] = s], p, d)
    BY SameBest
  <2>8. Book!IndexFull(k) <=> A!IndexFull(k)
    BY SameSteps
  <2>9. CASE n = 0 \/ Book!Live(b, ref) \/ b.free = <<>>
    BY ONLY <2>9, <2>3, <2>4, <2>5
  <2>10. CASE ~(n = 0 \/ Book!Live(b, ref) \/ b.free = <<>>) /\ Book!IndexFull(k)
    BY ONLY <2>10, <2>3, <2>4, <2>5, <2>6, <2>8
  <2>11. CASE ~(n = 0 \/ Book!Live(b, ref) \/ b.free = <<>>) /\ ~Book!IndexFull(k)
    BY ONLY <2>11, <2>3, <2>4, <2>5, <2>7, <2>8
  <2> QED BY ONLY <2>9, <2>10, <2>11
<1>2. ASSUME NEW b, NEW ref, NEW n
      PROVE  Book!reduce_shares(b, ref, n) = A!reduce_shares(b, ref, n)
  <2> DEFINE s == b.index[ref]
             o == b.slots[s]
             k == [b EXCEPT !.slots[s].shares = @ - n,
                            !.total[o.level][o.side] = (@ - n) % ShareSpan]
  <2>1. Book!reduce_shares(b, ref, n) =
          IF ~Book!Live(b, ref) \/ n = 0 \/ n > o.shares THEN Book!Refused(b)
          ELSE Book!Accepted(IF n = o.shares THEN Book!remove_order_fully(k, s) ELSE k)
    BY DEF Book!reduce_shares
  <2>2. A!reduce_shares(b, ref, n) =
          IF ~A!Live(b, ref) \/ n = 0 \/ n > o.shares THEN A!Refused(b)
          ELSE A!Accepted(IF n = o.shares THEN A!remove_order_fully(k, s) ELSE k)
    BY DEF A!reduce_shares
  <2> HIDE DEF k, o, s
  <2>3. /\ Book!Live(b, ref) <=> A!Live(b, ref)
        /\ \A x : Book!Refused(x) = A!Refused(x) /\ Book!Accepted(x) = A!Accepted(x)
    OBVIOUS
  <2>4. Book!remove_order_fully(k, s) = A!remove_order_fully(k, s)
    BY SameSteps
  <2> QED BY ONLY <2>1, <2>2, <2>3, <2>4
<1>3. \A b, ref : Book!delete_order(b, ref) = A!delete_order(b, ref)
  BY SameSteps DEF Book!delete_order, A!delete_order
<1>4. \A b, old, new, n, p : Book!replace_order(b, old, new, n, p) = A!replace_order(b, old, new, n, p)
  BY <1>1, SameSteps DEF Book!replace_order, A!replace_order
<1> QED BY <1>1, <1>2, <1>3, <1>4

(* The pool and the empty list: *)
LEMMA SamePool ==
  /\ \A p, v : Pool!acquire(p, v) = C!acquire(p, v)
  /\ \A p, s : Pool!release(p, s) = C!release(p, s)
  /\ \A s : Pool!InUse(s) <=> C!InUse(s)
  /\ \A p : Pool!FreeChain(p) = C!FreeChain(p)
  /\ Pool!NewPool = C!NewPool /\ Pool!None = 0 /\ List!EmptyList = C!EmptyList
  /\ \A p, u : Pool!Partitioned(p, u) <=> C!Partitioned(p, u)
BY Zenon DEF Pool!acquire, C!acquire, Pool!release, C!release, Pool!InUse, C!InUse,
    Pool!FreeChain, C!FreeChain, Pool!NewPool, C!NewPool, Pool!None, C!None, List!EmptyList, C!EmptyList,
    Pool!FreeSlot, C!FreeSlot, Pool!PoolSlots, C!PoolSlots, Pool!Partitioned, C!Partitioned, Pool!Cardinality, C!Cardinality


-----------------------------------------------------------------------------
OrderSlots == 1 .. OrderCapacity

(* The assumptions of ContainerProofs, for this instance of it. *)
LEMMA ContainerFacts ==
  /\ OrderCapacity \in Nat /\ Nullptr \notin 1 .. OrderCapacity
  /\ Refs \subseteq Nat /\ Hashes \subseteq C!Homes
  /\ C!IsFiniteSet(1 .. OrderCapacity)
  /\ 1 .. OrderCapacity = C!PoolSlots /\ Nullptr = C!None
  /\ "pool" \notin {} /\ "user" \notin {}
  /\ NewOrder \in LinkedOrders /\ C!Linkable(LinkedOrders)
<1>1. OrderCapacity \in Nat /\ Nullptr \notin 1 .. OrderCapacity /\ Refs \subseteq Nat
  BY LinkedAssumption DEF Nullptr
<1>2. Hashes \subseteq C!Homes
  BY LinkedAssumption, SameProbes DEF Index!Homes, C!Homes
<1>3. C!IsFiniteSet(1 .. OrderCapacity)
  <2>1. IsFiniteSet(1 .. OrderCapacity)
    BY <1>1, FS_Interval
  <2> QED BY Zenon, <2>1 DEF C!IsFiniteSet, IsFiniteSet
<1>4. 1 .. OrderCapacity = C!PoolSlots /\ Nullptr = C!None
  BY DEF C!PoolSlots, Nullptr, C!None
<1>5. C!Pointers = Ptr
  BY DEF C!Pointers, Ptr
<1>6. NewOrder \in LinkedOrders
  BY DEF NewOrder, LinkedOrders, Ptr
<1>7. C!Linkable(LinkedOrders)
  BY <1>5 DEF LinkedOrders, C!Linkable
<1> QED BY <1>1, <1>2, <1>3, <1>4, <1>5, <1>6, <1>7

(* The assumptions of OrderBookOpsProofs, for this instance of it; the map *)
(* built for order_capacity keys has room for that many.                   *)
LEMMA AbstractFacts ==
  /\ PriceSpan \in Nat \ {0} /\ Prices \subseteq 0 .. PriceSpan - 1
  /\ ReferencePrice \in 0 .. PriceSpan - 1 /\ HalfWidth \in Nat
  /\ Refs \subseteq Nat /\ ShareSpan \in Nat \ {0}
  /\ Traders \subseteq Nat /\ 0 \in Traders
  /\ OrderCapacity \in Nat /\ Index!Capacity \in Nat \ {0}
  /\ Index!Capacity >= OrderCapacity
<1>1. C!Capacity \in Nat /\ C!Capacity >= 1
  BY ContainerFacts, C!CapacityType
<1>2. C!Capacity >= OrderCapacity
  BY ContainerFacts, C!CapacityFits
<1> QED BY <1>1, <1>2, SameProbes, LinkedAssumption

(* What push_back and remove do to the sequence of a list. *)
LEMMA PushIs ==
  ASSUME NEW mem \in C!Memory, NEW list \in C!ListValues, NEW q, C!ListIs(mem, list, q),
         NEW n \in OrderSlots, mem[n] \in LinkedOrders, n \notin C!RangeOf(q),
         NEW r, r = List!push_back(mem, list, n)
  PROVE  /\ C!Relinked(mem, r.nodes, C!RangeOf(q) \cup {n})
         /\ r.list \in C!ListValues
         /\ C!ListIs(r.nodes, r.list, Append(q, n))
<1>1. r = C!push_back(mem, list, n) /\ n \in C!PoolSlots
  BY SamePush DEF OrderSlots, C!PoolSlots
<1> QED BY <1>1, ContainerFacts, C!PushBackIs

(* What remove does to the sequence of a list. *)
LEMMA PullIs ==
  ASSUME NEW mem \in C!Memory, NEW list \in C!ListValues, NEW q, C!ListIs(mem, list, q),
         NEW n, NEW i \in 1 .. Len(q), q[i] = n,
         NEW r, r = List!remove(mem, list, n)
  PROVE  /\ C!Relinked(mem, r.nodes, C!RangeOf(q))
         /\ r.list \in C!ListValues
         /\ C!ListIs(r.nodes, r.list, A!Unlink(q, n))
<1> DEFINE k == CHOOSE k \in 1 .. Len(q) : q[k] = n
<1>1. k \in 1 .. Len(q) /\ q[k] = n
  OBVIOUS
<1>2. A!Unlink(q, n) = C!Dropped(q, k)
  BY DEF A!Unlink, C!Dropped
<1> HIDE DEF k
<1>3. r = C!remove(mem, list, n)
  BY SamePush
<1> QED BY <1>1, <1>2, <1>3, ContainerFacts, C!RemoveIs

(* A list none of whose nodes is written stays as it is. *)
LEMMA ListKept ==
  ASSUME NEW mem, NEW mem2, NEW list, NEW q, C!ListIs(mem, list, q),
         \A s \in C!RangeOf(q) : mem2[s] = mem[s]
  PROVE  C!ListIs(mem2, list, q)
BY ContainerFacts, C!ListKept

(* What the walks find. *)
LEMMA WalksAre ==
  ASSUME NEW mem \in C!Memory, NEW list, NEW q, C!ListIs(mem, list, q)
  PROVE  /\ List!Forward(mem, list) = q
         /\ List!Mirrored(mem, list)
<1>1. C!MemOK(mem)
  BY ContainerFacts, C!MemoryOK
<1>2. C!Forward(mem, list) = q
  BY <1>1, ContainerFacts, C!ForwardIs
<1>3. C!Backward(mem, list) = C!Reversed(q)
  BY <1>1, ContainerFacts, C!BackwardIs
<1>4. C!Mirrored(mem, list)
  BY <1>2, <1>3 DEF C!Mirrored, C!Reversed, C!ListIs
<1> QED BY <1>2, <1>4, SameForward

(* Walking the free list gives its sequence of slots. *)
LEMMA ChainIs ==
  ASSUME NEW p, p.slots \in C!Memory, NEW q, C!FreeIs(p, q)
  PROVE  Pool!FreeChain(p) = q
<1>1. C!MemOK(p.slots)
  BY ContainerFacts, C!MemoryOK
<1>2. C!FreeChain(p) = q
  BY <1>1, ContainerFacts, C!FreeChainIs
<1> QED BY <1>2, SamePool

(* What the index finds after an insert, which succeeds exactly if the key *)
(* is new and the table has room.                                          *)
LEMMA InsertFinds ==
  ASSUME NEW m, C!MapSound(m), NEW key \in Refs, NEW value \in OrderSlots,
         NEW c, c = Index!insert(m, key, value)
  PROVE  /\ C!MapSound(c.map)
         /\ c.ok \in BOOLEAN
         /\ c.ok <=> /\ Index!find(m, key) = 0
                     /\ Cardinality({k \in Refs : Index!find(m, k) # 0}) < Index!Capacity
         /\ c.ok => /\ c.map.size = m.size + 1
                    /\ \A k \in Refs :
                         Index!find(c.map, k) = IF k = key THEN value ELSE Index!find(m, k)
<1>1. c = C!insert(m, key, value) /\ value \in 1 .. OrderCapacity
  BY SameIndex DEF OrderSlots
<1>2. /\ C!MapSound(c.map)
      /\ c.ok \in BOOLEAN
      /\ c.ok <=> /\ C!find(m, key) = Nullptr
                  /\ C!Cardinality({k \in Refs : C!find(m, k) # Nullptr}) < C!Capacity
      /\ c.ok => /\ c.map.size = m.size + 1
                 /\ \A k \in Refs :
                      C!find(c.map, k) = IF k = key THEN value ELSE C!find(m, k)
  BY <1>1, ContainerFacts, C!InsertFinds
<1>3. {k \in Refs : Index!find(m, k) # 0} = {k \in Refs : C!find(m, k) # Nullptr}
  BY SameIndex DEF Nullptr
<1> QED BY <1>2, <1>3, SameIndex, SameCard, SameProbes DEF Nullptr

(* What the index finds after an erase. *)
LEMMA EraseFinds ==
  ASSUME NEW m, C!MapSound(m), NEW key \in Refs, Index!find(m, key) # 0,
         NEW w, w = Index!erase(m, key).map
  PROVE  /\ C!MapSound(w) /\ w.size = m.size - 1
         /\ \A k \in Refs : Index!find(w, k) = IF k = key THEN 0 ELSE Index!find(m, k)
<1>1. w = C!erase(m, key).map /\ C!find(m, key) # Nullptr
  BY SameIndex DEF Nullptr
<1>2. /\ C!MapSound(w) /\ w.size = m.size - 1
      /\ \A k \in Refs : C!find(w, k) = IF k = key THEN Nullptr ELSE C!find(m, k)
  BY <1>1, ContainerFacts, C!EraseFinds
<1> QED BY <1>2, SameIndex DEF Nullptr

(* An empty map finds nothing. *)
LEMMA EmptyFinds ==
  ASSUME NEW hash \in Hashes
  PROVE  /\ C!MapSound(Index!EmptyMap(hash))
         /\ \A k \in Refs : Index!find(Index!EmptyMap(hash), k) = 0
<1>1. /\ C!MapSound(C!EmptyMap(hash))
      /\ \A k \in Refs : C!find(C!EmptyMap(hash), k) = Nullptr
  BY ContainerFacts, C!EmptyFinds
<1> QED BY <1>1, SameIndex DEF Nullptr

(* The size of the index counts the keys it finds. *)
LEMMA MapFacts ==
  ASSUME NEW m, C!MapSound(m)
  PROVE  m.size = Cardinality({k \in Refs : Index!find(m, k) # 0})
<1>1. m.size = C!Cardinality({k \in Refs : C!find(m, k) # Nullptr})
  BY ContainerFacts, C!SizeFinds
<1>2. {k \in Refs : Index!find(m, k) # 0} = {k \in Refs : C!find(m, k) # Nullptr}
  BY SameIndex DEF Nullptr
<1> QED BY <1>1, <1>2, SameCard

(* A sound map finds exactly what it holds. *)
LEMMA FindExactHolds ==
  ASSUME C!MapSound(linked.index)
  PROVE  Index!FindExact
<1>1. C!NoDuplicates
  BY DEF C!MapSound, C!UniqueKeys, C!NoDuplicates
<1>2. \A k \in Refs :
       C!find(linked.index, k) = IF k \in DOMAIN C!Content(linked.index)
                                 THEN C!Content(linked.index)[k] ELSE Nullptr
  BY ContainerFacts, C!FindFacts
<1> QED BY <1>1, <1>2, SameIndex DEF C!FindExact

-----------------------------------------------------------------------------
(* Relinking an order changes nothing that the abstract book shows. *)
SameOrders(mem, mem2) ==
  \A m \in OrderSlots : mem[m] \in LinkedOrders =>
    mem2[m] \in LinkedOrders /\ Visible(mem2[m]) = Visible(mem[m])

(* Writing the links of one order. *)
LEMMA LinkVisible ==
  ASSUME NEW mem \in C!Memory, NEW node \in Ptr, NEW to \in Ptr,
         node # 0 => mem[node] \in LinkedOrders
  PROVE  /\ List!SetNext(mem, node, to) \in C!Memory
         /\ List!SetPrev(mem, node, to) \in C!Memory
         /\ SameOrders(mem, List!SetNext(mem, node, to))
         /\ SameOrders(mem, List!SetPrev(mem, node, to))
<1>1. mem \in [OrderSlots -> LinkedOrders \cup C!FreeSlots]
  BY DEF C!Memory, C!PoolSlots, OrderSlots
<1>2. CASE node = 0
  BY <1>2 DEF List!SetNext, List!SetPrev, SameOrders, Nullptr
<1>3. CASE node # 0
  <2>1. node \in OrderSlots /\ mem[node] \in LinkedOrders
    BY <1>3 DEF Ptr, OrderSlots, Nullptr
  <2> DEFINE n == [mem[node] EXCEPT !.next = to]
             p == [mem[node] EXCEPT !.prev = to]
  <2>2. /\ n \in LinkedOrders /\ Visible(n) = Visible(mem[node])
        /\ p \in LinkedOrders /\ Visible(p) = Visible(mem[node])
    BY <2>1 DEF LinkedOrders, Visible
  <2>3. /\ List!SetNext(mem, node, to) = [mem EXCEPT ![node] = n]
        /\ List!SetPrev(mem, node, to) = [mem EXCEPT ![node] = p]
    BY <1>3 DEF List!SetNext, List!SetPrev, Nullptr
  <2> HIDE DEF n, p
  <2>4. /\ [mem EXCEPT ![node] = n] \in [OrderSlots -> LinkedOrders \cup C!FreeSlots]
        /\ [mem EXCEPT ![node] = p] \in [OrderSlots -> LinkedOrders \cup C!FreeSlots]
    BY <1>1, <2>1, <2>2
  <2>5. SameOrders(mem, [mem EXCEPT ![node] = n]) /\ SameOrders(mem, [mem EXCEPT ![node] = p])
    BY <1>1, <2>1, <2>2 DEF SameOrders
  <2> QED BY <2>3, <2>4, <2>5 DEF C!Memory, C!PoolSlots, OrderSlots
<1> QED BY <1>2, <1>3

(* push_back changes links only. *)
LEMMA PushVisible ==
  ASSUME NEW mem \in C!Memory, NEW list \in C!ListValues, NEW q, C!ListIs(mem, list, q),
         NEW n \in OrderSlots, mem[n] \in LinkedOrders
  PROVE  SameOrders(mem, List!push_back(mem, list, n).nodes)
<1> DEFINE m1 == List!SetPrev(mem, n, list.tail)
           m2 == List!SetNext(m1, n, 0)
           m3 == List!SetNext(m2, list.tail, n)
<1>1. n \in Ptr /\ n # 0 /\ 0 \in Ptr
  BY LinkedAssumption DEF OrderSlots, Ptr, Nullptr
<1>2. list.tail \in Ptr /\ (list.tail # 0 => mem[list.tail] \in LinkedOrders)
  BY DEF C!ListValues, C!Pointers, Ptr, C!ListIs, C!PtrAt, Nullptr
<1>3. List!push_back(mem, list, n).nodes = m3
  <2>1. [mem EXCEPT ![n].prev = list.tail, ![n].next = 0] = m2
    BY <1>1 DEF List!SetNext, List!SetPrev, Nullptr
  <2> QED BY <2>1 DEF List!push_back, Nullptr
<1>4. m1 \in C!Memory /\ SameOrders(mem, m1)
  BY <1>1, <1>2, LinkVisible
<1> HIDE DEF m1
<1>5. m2 \in C!Memory /\ SameOrders(m1, m2)
  BY <1>1, <1>4, LinkVisible DEF SameOrders
<1> HIDE DEF m2
<1>6. list.tail # 0 => m2[list.tail] \in LinkedOrders
  BY <1>2, <1>4, <1>5 DEF SameOrders, Ptr, Nullptr, OrderSlots
<1>7. SameOrders(m2, m3)
  BY <1>1, <1>2, <1>5, <1>6, LinkVisible
<1> HIDE DEF m3
<1> QED BY <1>3, <1>4, <1>5, <1>7 DEF SameOrders

(* remove changes links only. *)
LEMMA PullVisible ==
  ASSUME NEW mem \in C!Memory, NEW list, NEW q, C!ListIs(mem, list, q),
         NEW n, NEW k \in 1 .. Len(q), q[k] = n
  PROVE  SameOrders(mem, List!remove(mem, list, n).nodes)
<1> DEFINE x  == mem[n].prev
           y  == mem[n].next
           m1 == List!SetNext(mem, x, y)
           m2 == List!SetPrev(m1, y, x)
           m3 == List!SetPrev(m2, n, 0)
           m4 == List!SetNext(m3, n, 0)
<1>1. n \in OrderSlots /\ n \in Ptr /\ n # 0 /\ 0 \in Ptr /\ mem[n] \in LinkedOrders
  <2>1. q \in Seq(OrderSlots) /\ mem[n] \in LinkedOrders
    BY DEF C!ListIs, C!PoolSlots, OrderSlots
  <2>2. n \in OrderSlots
    BY ONLY <2>1, k \in 1 .. Len(q), q[k] = n
  <2> QED BY ONLY <2>1, <2>2, LinkedAssumption DEF OrderSlots, Ptr, Nullptr
<1>2. x \in Ptr /\ y \in Ptr
  BY <1>1 DEF LinkedOrders
<1>3. x = C!PtrAt(q, k - 1) /\ y = C!PtrAt(q, k + 1)
  BY DEF C!ListIs
<1>4. (x # 0 => mem[x] \in LinkedOrders) /\ (y # 0 => mem[y] \in LinkedOrders)
  <2>1. \A i \in 1 .. Len(q) : mem[q[i]] \in LinkedOrders
    BY DEF C!ListIs
  <2>2. \A i : C!PtrAt(q, i) # 0 => mem[C!PtrAt(q, i)] \in LinkedOrders
    BY ONLY <2>1 DEF C!PtrAt, Nullptr
  <2> HIDE DEF x, y
  <2> QED BY ONLY <1>3, <2>2
<1>5. List!remove(mem, list, n).nodes = m4
  <2>1. [m2 EXCEPT ![n].prev = 0, ![n].next = 0] = m4
    BY <1>1 DEF List!SetNext, List!SetPrev, Nullptr
  <2> QED BY <2>1 DEF List!remove, Nullptr
<1> HIDE DEF x, y
<1>6. m1 \in C!Memory /\ SameOrders(mem, m1)
  BY <1>2, <1>4, LinkVisible
<1> HIDE DEF m1
<1>7. y # 0 => m1[y] \in LinkedOrders
  BY <1>2, <1>4, <1>6 DEF SameOrders, Ptr, Nullptr, OrderSlots
<1>8. m2 \in C!Memory /\ SameOrders(m1, m2)
  BY <1>2, <1>6, <1>7, LinkVisible
<1> HIDE DEF m2
<1>9. m2[n] \in LinkedOrders
  BY <1>1, <1>6, <1>8 DEF SameOrders
<1>10. m3 \in C!Memory /\ SameOrders(m2, m3)
  BY <1>1, <1>8, <1>9, LinkVisible
<1> HIDE DEF m3
<1>11. m3[n] \in LinkedOrders
  BY <1>1, <1>9, <1>10 DEF SameOrders
<1>12. SameOrders(m3, m4)
  BY <1>1, <1>10, <1>11, LinkVisible
<1> HIDE DEF m4
<1> QED BY <1>5, <1>6, <1>8, <1>10, <1>12 DEF SameOrders

-----------------------------------------------------------------------------
(* A write to one level and side. *)
LEMMA Except2 ==
  ASSUME NEW L, NEW S, NEW T, NEW f \in [L -> [S -> T]], NEW l \in L,
         NEW d \in S, NEW v \in T, NEW g, g = [f EXCEPT ![l][d] = v]
  PROVE  /\ g \in [L -> [S -> T]]
         /\ \A m \in L, e \in S :
              g[m][e] = IF m = l /\ e = d THEN v ELSE f[m][e]
OBVIOUS

Store(f, x, v) == [f EXCEPT ![x] = v]

Put(f, l, d, v) == [f EXCEPT ![l][d] = v]

Queues == [A!Levels -> [A!Sides -> Seq(OrderSlots)]]

(* The lists are linked as the queues of the abstract book say. *)
QueuesRep(mem, lists, queue) ==
  /\ lists \in [A!Levels -> [A!Sides -> C!ListValues]]
  /\ \A l \in A!Levels, d \in A!Sides : C!ListIs(mem, lists[l][d], queue[l][d])

(* No order is in two queues. *)
Apart(queue) ==
  \A l, m \in A!Levels, d, e \in A!Sides :
    \A i \in 1 .. Len(queue[l][d]), j \in 1 .. Len(queue[m][e]) :
      queue[l][d][i] = queue[m][e][j] => l = m /\ d = e

Unqueued(queue, s) ==
  \A l \in A!Levels, d \in A!Sides : \A i \in 1 .. Len(queue[l][d]) : queue[l][d][i] # s

(* A call on the list of one level and side that relinks only nodes of the *)
(* list, and node s, is a change of that queue only.                       *)
LEMMA RelinkQueues ==
  ASSUME NEW mem \in C!Memory, NEW lists, NEW queue \in Queues,
         QueuesRep(mem, lists, queue), Apart(queue),
         NEW l \in A!Levels, NEW d \in A!Sides, NEW S,
         \A m \in A!Levels, e \in A!Sides : m # l \/ e # d =>
           \A i \in 1 .. Len(queue[m][e]) : queue[m][e][i] \notin S,
         NEW mem2, C!Relinked(mem, mem2, S), NEW list \in C!ListValues,
         NEW q \in Seq(OrderSlots), C!ListIs(mem2, list, q)
  PROVE  QueuesRep(mem2, [lists EXCEPT ![l][d] = list], [queue EXCEPT ![l][d] = q])
<1> DEFINE ls == [lists EXCEPT ![l][d] = list]
           qs == [queue EXCEPT ![l][d] = q]
<1>1. /\ ls \in [A!Levels -> [A!Sides -> C!ListValues]]
      /\ \A m \in A!Levels, e \in A!Sides :
           ls[m][e] = IF m = l /\ e = d THEN list ELSE lists[m][e]
  BY Except2 DEF QueuesRep
<1>2. \A m \in A!Levels, e \in A!Sides :
        qs[m][e] = IF m = l /\ e = d THEN q ELSE queue[m][e]
  BY Except2 DEF Queues
<1> HIDE DEF ls, qs
<1>3. ASSUME NEW m \in A!Levels, NEW e \in A!Sides, m # l \/ e # d
      PROVE  C!ListIs(mem2, lists[m][e], queue[m][e])
  <2>1. C!ListIs(mem, lists[m][e], queue[m][e]) /\ queue[m][e] \in Seq(OrderSlots)
    BY DEF QueuesRep, Queues
  <2>2. \A t \in C!RangeOf(queue[m][e]) : t \in OrderSlots /\ t \notin S
    BY <1>3, <2>1 DEF C!RangeOf
  <2>3. \A t \in C!RangeOf(queue[m][e]) : mem2[t] = mem[t]
    BY <2>2 DEF C!Relinked, C!PoolSlots, OrderSlots
  <2> QED BY <2>1, <2>3, ListKept
<1> QED BY <1>1, <1>2, <1>3 DEF QueuesRep, ls, qs

(* push_back and remove on the list of a level and side. *)
LEMMA PushQueues ==
  ASSUME NEW mem \in C!Memory, NEW lists, NEW queue \in Queues,
         QueuesRep(mem, lists, queue), Apart(queue),
         NEW l \in A!Levels, NEW d \in A!Sides,
         NEW s \in OrderSlots, mem[s] \in LinkedOrders, Unqueued(queue, s),
         NEW r, r = List!push_back(mem, lists[l][d], s)
  PROVE  /\ r.nodes \in C!Memory
         /\ QueuesRep(r.nodes, Put(lists, l, d, r.list), Put(queue, l, d, Append(queue[l][d], s)))
         /\ SameOrders(mem, r.nodes)
         /\ \A m \in OrderSlots : mem[m] \notin LinkedOrders => r.nodes[m] = mem[m]
<1> DEFINE q == queue[l][d]
           S == C!RangeOf(q) \cup {s}
<1>1. /\ lists[l][d] \in C!ListValues /\ C!ListIs(mem, lists[l][d], q)
      /\ q \in Seq(OrderSlots)
  BY DEF QueuesRep, Queues
<1>2. s \notin C!RangeOf(q)
  BY DEF C!RangeOf, Unqueued
<1>3. /\ C!Relinked(mem, r.nodes, S)
      /\ r.list \in C!ListValues
      /\ C!ListIs(r.nodes, r.list, Append(q, s))
  BY <1>1, <1>2, PushIs
<1>4. ASSUME NEW m \in A!Levels, NEW e \in A!Sides, m # l \/ e # d,
             NEW i \in 1 .. Len(queue[m][e])
      PROVE  queue[m][e][i] \notin S
  BY <1>4 DEF Apart, Unqueued, C!RangeOf
<1>5. Append(q, s) \in Seq(OrderSlots)
  BY <1>1
<1>6. \A m \in S : mem[m] \in LinkedOrders
  BY <1>1 DEF C!RangeOf, C!ListIs
<1>7. QueuesRep(r.nodes, [lists EXCEPT ![l][d] = r.list], [queue EXCEPT ![l][d] = Append(q, s)])
  <2> HIDE DEF S, q
  <2> QED BY <1>3, <1>4, <1>5, RelinkQueues
<1>8. SameOrders(mem, r.nodes)
  BY <1>1, PushVisible
<1>9. r.nodes \in C!Memory /\ \A m \in OrderSlots : mem[m] \notin LinkedOrders => r.nodes[m] = mem[m]
  <2> HIDE DEF S
  <2> QED BY <1>3, <1>6 DEF C!Relinked, C!PoolSlots, OrderSlots
<1> QED BY <1>7, <1>8, <1>9 DEF Put

(* Removing an order from the list of its level and side. *)
LEMMA PullQueues ==
  ASSUME NEW mem \in C!Memory, NEW lists, NEW queue \in Queues,
         QueuesRep(mem, lists, queue), Apart(queue),
         NEW l \in A!Levels, NEW d \in A!Sides, NEW s,
         NEW k \in 1 .. Len(queue[l][d]), queue[l][d][k] = s,
         NEW r, r = List!remove(mem, lists[l][d], s)
  PROVE  /\ r.nodes \in C!Memory
         /\ QueuesRep(r.nodes, Put(lists, l, d, r.list), Put(queue, l, d, A!Unlink(queue[l][d], s)))
         /\ SameOrders(mem, r.nodes)
         /\ \A m \in OrderSlots : mem[m] \notin LinkedOrders => r.nodes[m] = mem[m]
<1> DEFINE q == queue[l][d]
           S == C!RangeOf(q)
<1>1. /\ lists[l][d] \in C!ListValues /\ C!ListIs(mem, lists[l][d], q)
      /\ q \in Seq(OrderSlots)
  BY DEF QueuesRep, Queues
<1>3. /\ C!Relinked(mem, r.nodes, S)
      /\ r.list \in C!ListValues
      /\ C!ListIs(r.nodes, r.list, A!Unlink(q, s))
  BY <1>1, PullIs
<1>4. ASSUME NEW m \in A!Levels, NEW e \in A!Sides, m # l \/ e # d,
             NEW i \in 1 .. Len(queue[m][e])
      PROVE  queue[m][e][i] \notin S
  BY <1>4 DEF Apart, C!RangeOf
<1>5. A!Unlink(q, s) \in Seq(OrderSlots)
  BY <1>3 DEF C!ListIs, C!PoolSlots, OrderSlots
<1>6. \A m \in S : mem[m] \in LinkedOrders
  BY <1>1 DEF C!RangeOf, C!ListIs
<1>7. QueuesRep(r.nodes, [lists EXCEPT ![l][d] = r.list], [queue EXCEPT ![l][d] = A!Unlink(q, s)])
  <2> HIDE DEF S, q
  <2> QED BY <1>3, <1>4, <1>5, RelinkQueues
<1>8. SameOrders(mem, r.nodes)
  BY <1>1, PullVisible
<1>9. r.nodes \in C!Memory /\ \A m \in OrderSlots : mem[m] \notin LinkedOrders => r.nodes[m] = mem[m]
  <2> HIDE DEF S
  <2> QED BY <1>3, <1>6 DEF C!Relinked, C!PoolSlots, OrderSlots
<1> QED BY <1>7, <1>8, <1>9 DEF Put

(* A slot that is in no queue may change. *)
LEMMA KeepQueues ==
  ASSUME NEW mem, NEW lists, NEW queue, QueuesRep(mem, lists, queue),
         NEW mem2, \A l \in A!Levels, d \in A!Sides : \A i \in 1 .. Len(queue[l][d]) :
                     mem2[queue[l][d][i]] = mem[queue[l][d][i]]
  PROVE  QueuesRep(mem2, lists, queue)
<1> SUFFICES ASSUME NEW l \in A!Levels, NEW d \in A!Sides
             PROVE  C!ListIs(mem2, lists[l][d], queue[l][d])
  BY DEF QueuesRep
<1>1. \A s \in C!RangeOf(queue[l][d]) : mem2[s] = mem[s]
  BY DEF C!RangeOf
<1> QED BY <1>1, ListKept DEF QueuesRep

-----------------------------------------------------------------------------
(* The free slots are linked as the abstract free list says, and size()    *)
(* counts the others.                                                      *)
FreeRep(p, free) == C!FreeIs(p, free) /\ p.size = OrderCapacity - Len(free)

(* The head of the free list. *)
LEMMA HeadIs ==
  ASSUME NEW p, NEW free, C!FreeIs(p, free)
  PROVE  /\ p.free_head = 0 <=> free = << >>
         /\ free # << >> => /\ p.free_head = Head(free) /\ p.free_head = free[1]
                            /\ p.free_head \in OrderSlots /\ 1 \in 1 .. Len(free)
<1>1. /\ free \in Seq(OrderSlots)
      /\ p.free_head = IF 1 \in 1 .. Len(free) THEN free[1] ELSE 0
  BY DEF C!FreeIs, C!PtrAt, C!PoolSlots, OrderSlots, Nullptr
<1>2. CASE free = << >>
  BY <1>1, <1>2
<1>3. CASE free # << >>
  <2>1. 1 \in 1 .. Len(free) /\ free[1] \in OrderSlots /\ Head(free) = free[1]
    BY <1>1, <1>3
  <2>2. 0 \notin OrderSlots
    BY DEF OrderSlots
  <2> QED BY <1>1, <1>3, <2>1, <2>2
<1> QED BY <1>2, <1>3

(* The free list after acquire. *)
LEMMA TakeFree ==
  ASSUME NEW p, NEW free, FreeRep(p, free), free # << >>,
         p.slots \in C!Memory, p.size \in Int, NEW v,
         NEW p2, p2.slots = [p.slots EXCEPT ![p.free_head] = v],
         p2.free_head = p.slots[p.free_head].next_free, p2.size = p.size + 1
  PROVE  FreeRep(p2, Tail(free))
<1>1. free \in Seq(C!PoolSlots) /\ C!Distinct(free) /\ Len(free) \in Nat
  BY DEF FreeRep, C!FreeIs
<1>2. /\ Tail(free) \in Seq(C!PoolSlots) /\ C!Distinct(Tail(free))
      /\ 1 \in 1 .. Len(free) /\ Len(Tail(free)) = Len(free) - 1
      /\ \A i \in 1 .. Len(free) - 1 : Tail(free)[i] = free[i + 1] /\ i + 1 \in 1 .. Len(free)
      /\ \A i \in 1 .. Len(free) - 1 : free[i + 1] # free[1]
      /\ \A i \in Nat \ {0} : C!PtrAt(Tail(free), i) = C!PtrAt(free, i + 1)
  BY <1>1, ContainerFacts, C!TailFacts
<1>3. p.free_head = free[1]
  BY HeadIs DEF FreeRep
<1>4. p.slots[free[1]] = C!FreeSlot(C!PtrAt(free, 2))
  BY <1>2 DEF FreeRep, C!FreeIs
<1>5. p2.free_head = C!PtrAt(Tail(free), 1)
  BY <1>2, <1>3, <1>4 DEF C!FreeSlot
<1>6. ASSUME NEW i \in 1 .. Len(free) - 1
      PROVE  p2.slots[Tail(free)[i]] = C!FreeSlot(C!PtrAt(Tail(free), i + 1))
  <2>1. i + 1 \in 1 .. Len(free) /\ i + 1 \in Nat \ {0}
    BY <1>1
  <2>2. Tail(free)[i] = free[i + 1] /\ free[i + 1] # free[1] /\ free[i + 1] \in C!PoolSlots
    BY <1>1, <1>2, <2>1
  <2>3. p.slots[free[i + 1]] = C!FreeSlot(C!PtrAt(free, (i + 1) + 1))
    BY <2>1 DEF FreeRep, C!FreeIs
  <2>4. C!PtrAt(Tail(free), i + 1) = C!PtrAt(free, (i + 1) + 1)
    BY <1>2, <2>1
  <2>5. p2.slots[free[i + 1]] = p.slots[free[i + 1]]
    BY <1>3, <2>2 DEF C!Memory
  <2> QED BY <2>2, <2>3, <2>4, <2>5
<1> QED BY <1>1, <1>2, <1>5, <1>6, LinkedAssumption DEF FreeRep, C!FreeIs

(* The free list after release. *)
LEMMA GiveFree ==
  ASSUME NEW p, NEW free, FreeRep(p, free), p.slots \in C!Memory, p.size \in Int,
         NEW s \in OrderSlots, \A i \in 1 .. Len(free) : free[i] # s,
         NEW p2, p2.slots = [p.slots EXCEPT ![s] = C!FreeSlot(p.free_head)],
         p2.free_head = s, p2.size = p.size - 1
  PROVE  FreeRep(p2, <<s>> \o free)
<1> DEFINE q == <<s>> \o free
<1>1. /\ free \in Seq(C!PoolSlots) /\ C!Distinct(free) /\ Len(free) \in Nat
      /\ s \in C!PoolSlots
  BY DEF FreeRep, C!FreeIs, C!PoolSlots, OrderSlots
<1>2. /\ q \in Seq(C!PoolSlots) /\ Len(q) = Len(free) + 1
      /\ q[1] = s
      /\ \A i \in 2 .. Len(free) + 1 : q[i] = free[i - 1]
  BY <1>1, ContainerFacts, C!PrependFacts
<1>3. C!Distinct(q)
  <2>1. s \notin C!RangeOf(free)
    BY DEF C!RangeOf
  <2> QED BY <1>1, <2>1, ContainerFacts, C!PrependRange
<1>4. \A j \in Nat \ {0} : C!PtrAt(q, j + 1) = C!PtrAt(free, j)
  BY <1>1, ContainerFacts, C!PrependPtr
<1> HIDE DEF q
<1>5. C!PtrAt(q, 1) = s
  BY <1>1, <1>2 DEF C!PtrAt
<1>6. p.free_head = C!PtrAt(q, 2)
  BY <1>4 DEF FreeRep, C!FreeIs
<1>7. p2.slots[s] = C!FreeSlot(C!PtrAt(q, 2))
  BY <1>1, <1>6 DEF C!Memory
<1>8. ASSUME NEW i \in 1 .. Len(q) PROVE p2.slots[q[i]] = C!FreeSlot(C!PtrAt(q, i + 1))
  <2>1. CASE i = 1
    BY <1>2, <1>7, <2>1
  <2>2. CASE i # 1
    <3>1. i \in 2 .. Len(free) + 1 /\ i - 1 \in 1 .. Len(free) /\ i \in Nat \ {0} /\ (i - 1) + 1 = i
      BY <1>1, <1>2, <2>2
    <3>2. q[i] = free[i - 1] /\ free[i - 1] # s /\ free[i - 1] \in C!PoolSlots
      BY <1>1, <1>2, <3>1
    <3>3. p.slots[free[i - 1]] = C!FreeSlot(C!PtrAt(free, (i - 1) + 1))
      BY <3>1 DEF FreeRep, C!FreeIs
    <3>4. C!PtrAt(q, i + 1) = C!PtrAt(free, i)
      BY <1>4, <3>1
    <3>5. p2.slots[free[i - 1]] = p.slots[free[i - 1]]
      BY <3>2 DEF C!Memory
    <3> QED BY <3>1, <3>2, <3>3, <3>4, <3>5
  <2> QED BY <2>1, <2>2
<1> QED BY <1>1, <1>2, <1>3, <1>5, <1>8, LinkedAssumption DEF FreeRep, C!FreeIs, q

(* The free list when none of its slots is written. *)
LEMMA KeepFree ==
  ASSUME NEW p, NEW free, FreeRep(p, free), NEW p2, p2.free_head = p.free_head,
         p2.size = p.size, \A i \in 1 .. Len(free) : p2.slots[free[i]] = p.slots[free[i]]
  PROVE  FreeRep(p2, free)
BY DEF FreeRep, C!FreeIs

-----------------------------------------------------------------------------
(* The orders in the slots are those of the abstract book. *)
SlotsRep(mem, slots) ==
  /\ mem \in C!Memory
  /\ \A s \in OrderSlots :
       IF slots[s] = A!NoOrder THEN mem[s] \notin LinkedOrders
       ELSE mem[s] \in LinkedOrders /\ Visible(mem[s]) = slots[s]

(* The index answers as the abstract index. *)
IndexRep(m, index) == C!MapSound(m) /\ \A r \in Refs : Index!find(m, r) = index[r]

(* The linked book b represents the abstract book a. *)
Rep(b, a) ==
  /\ b = [pool  |-> [slots |-> b.pool.slots, free_head |-> b.pool.free_head,
                     size |-> b.pool.size],
          index |-> b.index, lists |-> b.lists, total |-> b.total, best |-> b.best]
  /\ b.pool.size \in Int
  /\ SlotsRep(b.pool.slots, a.slots)
  /\ QueuesRep(b.pool.slots, b.lists, a.queue)
  /\ FreeRep(b.pool, a.free)
  /\ IndexRep(b.index, a.index)
  /\ b.total = a.total /\ b.best = a.best

(* A slot is in use exactly if it holds an order. *)
LEMMA InUseIs ==
  ASSUME NEW mem \in C!Memory, NEW s \in OrderSlots
  PROVE  Pool!InUse(mem[s]) <=> mem[s] \in LinkedOrders
<1>1. mem[s] \in LinkedOrders \cup C!FreeSlots
  BY DEF C!Memory, C!PoolSlots, OrderSlots
<1>2. ASSUME NEW x \in C!FreeSlots PROVE ~Pool!InUse(x)
  BY DEF C!FreeSlots, Pool!InUse
<1>3. ASSUME NEW x \in LinkedOrders PROVE Pool!InUse(x)
  BY DEF LinkedOrders, Pool!InUse
<1> QED BY <1>1, <1>2, <1>3

(* What the abstraction of a book is. *)
LEMMA AbstractionIs ==
  ASSUME NEW b, NEW a, Rep(b, a),
         a = [queue |-> a.queue, total |-> a.total, slots |-> a.slots,
              free |-> a.free, index |-> a.index, best |-> a.best],
         a.queue \in Queues, a.slots = [s \in OrderSlots |-> a.slots[s]],
         a.index = [r \in Refs |-> a.index[r]]
  PROVE  Abstraction(b) = a
<1>1. [l \in DOMAIN b.lists |-> [d \in DOMAIN b.lists[l] |->
         List!Forward(b.pool.slots, b.lists[l][d])]] = a.queue
  <2>1. DOMAIN b.lists = A!Levels /\ \A l \in A!Levels : DOMAIN b.lists[l] = A!Sides
    BY DEF Rep, QueuesRep
  <2>2. \A l \in A!Levels, d \in A!Sides : List!Forward(b.pool.slots, b.lists[l][d]) = a.queue[l][d]
    BY WalksAre DEF Rep, QueuesRep, SlotsRep
  <2>3. a.queue = [l \in A!Levels |-> [d \in A!Sides |-> a.queue[l][d]]]
    BY DEF Queues
  <2> QED BY <2>1, <2>2, <2>3
<1>2. Pool!FreeChain(b.pool) = a.free
  BY ChainIs DEF Rep, SlotsRep, FreeRep
<1>3. [r \in Refs |-> Index!find(b.index, r)] = a.index
  BY DEF Rep, IndexRep
<1>4. [s \in 1 .. OrderCapacity |->
         IF Pool!InUse(b.pool.slots[s])
         THEN Visible(b.pool.slots[s])
         ELSE [order_ref |-> 0, price |-> 0, shares |-> 0,
               side |-> "sell", trader_id |-> 0, level |-> <<"null", 0>>]] = a.slots
  <2>1. \A s \in OrderSlots :
          (IF Pool!InUse(b.pool.slots[s])
           THEN Visible(b.pool.slots[s])
           ELSE [order_ref |-> 0, price |-> 0, shares |-> 0,
                 side |-> "sell", trader_id |-> 0, level |-> <<"null", 0>>]) = a.slots[s]
    BY InUseIs DEF Rep, SlotsRep, A!NoOrder, A!NoLevel
  <2> QED BY <2>1 DEF OrderSlots
<1> QED BY <1>1, <1>2, <1>3, <1>4 DEF Abstraction, Rep

-----------------------------------------------------------------------------
(* What the simulation uses of the abstract book: the types of its         *)
(* members, that a free slot holds no order and a queue holds orders of    *)
(* its own level and side.                                                 *)
Shaped(a) ==
  /\ a = [queue |-> a.queue, total |-> a.total, slots |-> a.slots,
          free |-> a.free, index |-> a.index, best |-> a.best]
  /\ a.queue \in Queues
  /\ a.total \in [A!Levels -> [A!Sides -> 0 .. ShareSpan - 1]]
  /\ a.slots \in [OrderSlots -> A!DrainedOrder \cup {A!NoOrder}]
  /\ a.free \in Seq(OrderSlots)
  /\ a.index \in [Refs -> OrderSlots \cup {0}]
  /\ a.best \in [A!Sides -> (0 .. PriceSpan - 1) \cup {A!NoPrice}]

Divided(a) ==
  /\ Apart(a.queue)
  /\ \A i \in 1 .. Len(a.free) : a.slots[a.free[i]] = A!NoOrder
  /\ \A l \in A!Levels, d \in A!Sides : \A i \in 1 .. Len(a.queue[l][d]) :
       a.slots[a.queue[l][d][i]] # A!NoOrder

(* What a queue of a coherent book holds. *)
LEMMA QueueNodeIs ==
  ASSUME NEW a, A!BookCoherent(a), NEW l \in A!Levels, NEW d \in A!Sides,
         NEW i \in 1 .. Len(a.queue[l][d])
  PROVE  /\ a.slots[a.queue[l][d][i]] # A!NoOrder
         /\ a.slots[a.queue[l][d][i]].level = l /\ a.slots[a.queue[l][d][i]].side = d
BY DEF A!BookCoherent, A!QueuesSound

(* In a coherent book no order is queued twice and no queued slot is free. *)
LEMMA CoherentDivided ==
  ASSUME NEW a, A!BookCoherent(a)
  PROVE  Divided(a)
<1>1. Apart(a.queue)
  <2> SUFFICES ASSUME NEW l \in A!Levels, NEW m \in A!Levels, NEW d \in A!Sides, NEW e \in A!Sides,
                      NEW i \in 1 .. Len(a.queue[l][d]), NEW j \in 1 .. Len(a.queue[m][e]),
                      a.queue[l][d][i] = a.queue[m][e][j]
               PROVE  l = m /\ d = e
    BY Zenon DEF Apart
  <2>1. a.slots[a.queue[l][d][i]].level = l /\ a.slots[a.queue[l][d][i]].side = d
    BY ONLY A!BookCoherent(a), QueueNodeIs, l \in A!Levels, d \in A!Sides, i \in 1 .. Len(a.queue[l][d])
  <2>2. a.slots[a.queue[m][e][j]].level = m /\ a.slots[a.queue[m][e][j]].side = e
    BY ONLY A!BookCoherent(a), QueueNodeIs, m \in A!Levels, e \in A!Sides, j \in 1 .. Len(a.queue[m][e])
  <2> QED BY <2>1, <2>2
<1>2. \A i \in 1 .. Len(a.free) : a.slots[a.free[i]] = A!NoOrder
  BY DEF A!BookCoherent, A!FreeListSound
<1>3. \A l \in A!Levels, d \in A!Sides : \A i \in 1 .. Len(a.queue[l][d]) :
       a.slots[a.queue[l][d][i]] # A!NoOrder
  BY DEF A!BookCoherent, A!QueuesSound
<1> QED BY <1>1, <1>2, <1>3 DEF Divided

(* So too while one order may have no share left. *)
LEMMA ButShaped ==
  ASSUME NEW a, NEW s, A!SoundBut(a, s)
  PROVE  Shaped(a) /\ Divided(a)
<1>1. Shaped(a)
  BY DEF A!SoundBut, Shaped, Queues, A!Slots, OrderSlots, A!NoSlot
<1> QED BY <1>1, CoherentDivided DEF A!SoundBut

(* A sound book is shaped and divided. *)
LEMMA SoundShaped ==
  ASSUME NEW a, A!Sound(a)
  PROVE  Shaped(a) /\ Divided(a)
<1>1. A!Order \subseteq A!DrainedOrder
  BY LinkedAssumption DEF A!Order, A!DrainedOrder
<1>2. Shaped(a)
  BY <1>1 DEF A!Sound, A!Book, Shaped, Queues, A!Slots, OrderSlots, A!NoSlot
<1> QED BY <1>2, CoherentDivided DEF A!Sound

(* A slot without an order is in no queue. *)
LEMMA FreeUnqueued ==
  ASSUME NEW a, Divided(a), NEW s, a.slots[s] = A!NoOrder
  PROVE  Unqueued(a.queue, s)
BY DEF Divided, Unqueued

(* The members of an order. *)
LEMMA DrainedFacts ==
  ASSUME NEW o \in A!DrainedOrder
  PROVE  /\ o # A!NoOrder /\ o.level \in A!Levels /\ o.side \in A!Sides
         /\ o.order_ref \in Refs /\ o.price \in Nat /\ o.shares \in Nat /\ o.trader_id \in Nat
<1>0. /\ o.level \in A!Levels /\ o.side \in A!Sides /\ o.order_ref \in Refs
      /\ o.price \in Prices /\ o.shares \in 0 .. ShareSpan - 1 /\ o.trader_id \in Traders
  BY DEF A!DrainedOrder
<1>1. /\ o.level \in A!Levels /\ o.side \in A!Sides
      /\ o.order_ref \in Refs /\ o.price \in Nat /\ o.shares \in Nat /\ o.trader_id \in Nat
  <2>1. 0 .. PriceSpan - 1 \subseteq Nat /\ 0 .. ShareSpan - 1 \subseteq Nat
    OBVIOUS
  <2>2. Prices \subseteq 0 .. PriceSpan - 1 /\ Traders \subseteq Nat
    BY LinkedAssumption
  <2>3. o.price \in Nat
    BY ONLY <1>0, <2>1, <2>2
  <2>4. o.shares \in Nat
    BY ONLY <1>0, <2>1
  <2>5. o.trader_id \in Nat
    BY ONLY <1>0, <2>2
  <2> QED BY <1>0, <2>3, <2>4, <2>5
<1>2. A!NoOrder.level \notin A!Levels
  <2>1. \A l \in A!Levels : l # A!NoLevel
    BY AbstractFacts, A!LevelIsNotNull
  <2> QED BY <2>1 DEF A!NoOrder
<1> QED BY <1>1, <1>2

-----------------------------------------------------------------------------
(* The order that is written into the slot. *)
Filled(o) ==
  [order_ref |-> o.order_ref, price |-> o.price, shares |-> o.shares, side |-> o.side,
   trader_id |-> o.trader_id, level |-> o.level, prev |-> 0, next |-> 0]

(* A filled order shows what was written into it. *)
LEMMA FilledFacts ==
  ASSUME NEW o \in A!DrainedOrder
  PROVE  Filled(o) \in LinkedOrders /\ Visible(Filled(o)) = o
<1>1. o = [order_ref |-> o.order_ref, price |-> o.price, shares |-> o.shares, side |-> o.side,
           trader_id |-> o.trader_id, level |-> o.level]
  BY DEF A!DrainedOrder
<1>2. Visible(Filled(o)) = o
  BY <1>1 DEF Visible, Filled
<1> QED BY <1>2, DrainedFacts, SameLevels, LinkedAssumption DEF Filled, LinkedOrders, A!Sides, Ptr, Nullptr

(* The members of an order are assigned one after the other. *)
Assigned(z, ref, price, shares, d, trader, level) ==
  [z EXCEPT !.order_ref = ref, !.price = price, !.shares = shares,
            !.side = d, !.trader_id = trader, !.level = level]

(* The assignments of add_order to a new order. *)
LEMMA FillIs ==
  ASSUME NEW a1, NEW a2, NEW a3, NEW a4, NEW a5, NEW a6
  PROVE  Assigned(NewOrder, a1, a2, a3, a4, a5, a6) =
           [order_ref |-> a1, price |-> a2, shares |-> a3, side |-> a4,
            trader_id |-> a5, level |-> a6, prev |-> 0, next |-> 0]
<1> DEFINE R(y1, y2, y3, y4, y5, y6) ==
             [order_ref |-> y1, price |-> y2, shares |-> y3, side |-> y4,
              trader_id |-> y5, level |-> y6, prev |-> 0, next |-> 0]
           z  == NewOrder
           n  == <<"null", 0>>
           x1 == [z EXCEPT !.order_ref = a1]
           x2 == [x1 EXCEPT !.price = a2]
           x3 == [x2 EXCEPT !.shares = a3]
           x4 == [x3 EXCEPT !.side = a4]
           x5 == [x4 EXCEPT !.trader_id = a5]
           x6 == [x5 EXCEPT !.level = a6]
<1> HIDE DEF n
<1>0. z = R(0, 0, 0, "sell", 0, n)
  BY DEF NewOrder, n, Nullptr
<1>8. Assigned(NewOrder, a1, a2, a3, a4, a5, a6) = x6
  BY DEF Assigned
<1> HIDE DEF z
<1>1. x1 = R(a1, 0, 0, "sell", 0, n)
  BY <1>0
<1> HIDE DEF x1
<1>2. x2 = R(a1, a2, 0, "sell", 0, n)
  BY <1>1
<1> HIDE DEF x2
<1>3. x3 = R(a1, a2, a3, "sell", 0, n)
  BY <1>2
<1> HIDE DEF x3
<1>4. x4 = R(a1, a2, a3, a4, 0, n)
  BY <1>3
<1> HIDE DEF x4
<1>5. x5 = R(a1, a2, a3, a4, a5, n)
  BY <1>4
<1> HIDE DEF x5
<1>6. x6 = R(a1, a2, a3, a4, a5, a6)
  BY <1>5
<1> QED BY <1>6, <1>8

(* The record that the operations write to, and the writes to it. *)
LinkedValue(mem, head, size, index, lists, total, best) ==
  [pool  |-> [slots |-> mem, free_head |-> head, size |-> size],
   index |-> index, lists |-> lists, total |-> total, best |-> best]

(* Writing one member of a linked book. *)
LEMMA ValueWrites ==
  ASSUME NEW mem, NEW head, NEW size, NEW index, NEW lists, NEW total, NEW best,
         NEW mem2, NEW l, NEW d, NEW v, NEW index2, NEW best2, NEW head2, NEW size2,
         NEW b, b = LinkedValue(mem, head, size, index, lists, total, best)
  PROVE  /\ b.pool.slots = mem /\ b.pool.free_head = head /\ b.pool.size = size
         /\ b.index = index /\ b.lists = lists /\ b.total = total /\ b.best = best
         /\ [b EXCEPT !.pool.slots = mem2]
              = LinkedValue(mem2, head, size, index, lists, total, best)
         /\ [b EXCEPT !.lists[l][d] = v]
              = LinkedValue(mem, head, size, index, [lists EXCEPT ![l][d] = v], total, best)
         /\ [b EXCEPT !.total[l][d] = v]
              = LinkedValue(mem, head, size, index, lists, [total EXCEPT ![l][d] = v], best)
         /\ [b EXCEPT !.index = index2]
              = LinkedValue(mem, head, size, index2, lists, total, best)
         /\ [b EXCEPT !.best[d] = v]
              = LinkedValue(mem, head, size, index, lists, total, [best EXCEPT ![d] = v])
         /\ [b EXCEPT !.pool = [slots |-> mem2, free_head |-> head2, size |-> size2]]
              = LinkedValue(mem2, head2, size2, index, lists, total, best)
<1>1. /\ b.pool.slots = mem /\ b.pool.free_head = head /\ b.pool.size = size
      /\ b.index = index /\ b.lists = lists /\ b.total = total /\ b.best = best
  BY DEF LinkedValue
<1>2. [b EXCEPT !.pool.slots = mem2]
        = LinkedValue(mem2, head, size, index, lists, total, best)
  BY DEF LinkedValue
<1>3. [b EXCEPT !.lists[l][d] = v]
        = LinkedValue(mem, head, size, index, [lists EXCEPT ![l][d] = v], total, best)
  BY DEF LinkedValue
<1>4. [b EXCEPT !.total[l][d] = v]
        = LinkedValue(mem, head, size, index, lists, [total EXCEPT ![l][d] = v], best)
  BY DEF LinkedValue
<1>5. [b EXCEPT !.index = index2]
        = LinkedValue(mem, head, size, index2, lists, total, best)
  BY DEF LinkedValue
<1>6. [b EXCEPT !.best[d] = v]
        = LinkedValue(mem, head, size, index, lists, total, [best EXCEPT ![d] = v])
  BY DEF LinkedValue
<1>7. [b EXCEPT !.pool = [slots |-> mem2, free_head |-> head2, size |-> size2]]
        = LinkedValue(mem2, head2, size2, index, lists, total, best)
  BY DEF LinkedValue
<1> QED BY <1>1, <1>2, <1>3, <1>4, <1>5, <1>6, <1>7

(* Enqueue and Dequeue write the nodes, a list and a total. *)
Written(b, mem, l, d, list, n) ==
  [b EXCEPT !.pool.slots = mem, !.lists[l][d] = list, !.total[l][d] = n]

(* Writing the nodes, a list and a total of a linked book. *)
LEMMA RelinkValue ==
  ASSUME NEW mem, NEW head, NEW size, NEW index, NEW lists, NEW total, NEW best,
         NEW mem2, NEW l, NEW d, NEW v, NEW n,
         NEW b, b = LinkedValue(mem, head, size, index, lists, total, best)
  PROVE  Written(b, mem2, l, d, v, n) =
           LinkedValue(mem2, head, size, index, [lists EXCEPT ![l][d] = v],
                       [total EXCEPT ![l][d] = n], best)
<1> DEFINE b1 == [b EXCEPT !.pool.slots = mem2]
           b2 == [b1 EXCEPT !.lists[l][d] = v]
           b3 == [b2 EXCEPT !.total[l][d] = n]
<1>1. b1 = LinkedValue(mem2, head, size, index, lists, total, best)
  BY DEF LinkedValue
<1>2. Written(b, mem2, l, d, v, n) = b3
  BY DEF Written
<1> HIDE DEF b1
<1>3. b2 = LinkedValue(mem2, head, size, index, [lists EXCEPT ![l][d] = v], total, best)
  BY <1>1 DEF LinkedValue
<1> HIDE DEF b2
<1>4. b3 = LinkedValue(mem2, head, size, index, [lists EXCEPT ![l][d] = v],
                       [total EXCEPT ![l][d] = n], best)
  BY <1>3 DEF LinkedValue
<1> QED BY <1>2, <1>4

(* The linked book after acquire, the assignments and push_back. *)
LEMMA EnqueuedIs ==
  ASSUME NEW mem \in C!Memory, NEW s \in OrderSlots, NEW size, NEW index, NEW lists,
         NEW total, NEW best, NEW b, b = LinkedValue(mem, s, size, index, lists, total, best),
         NEW ref, NEW price, NEW shares, NEW d, NEW trader,
         NEW o, o = A!NewOrder(ref, price, shares, d, trader),
         NEW m1, m1 = Store(mem, s, Filled(o)),
         NEW r, r = List!push_back(m1, lists[o.level][d], s)
  PROVE  Enqueued(b, ref, price, shares, d, trader) =
           LinkedValue(r.nodes, mem[s].next_free, size + 1, index,
                       Put(lists, o.level, d, r.list),
                       Put(total, o.level, d, (total[o.level][d] + shares) % ShareSpan), best)
<1> DEFINE p1 == [slots |-> [mem EXCEPT ![s] = NewOrder],
                  free_head |-> mem[s].next_free, size |-> size + 1]
           p2 == [slots |-> m1, free_head |-> mem[s].next_free, size |-> size + 1]
           b2 == LinkedValue(m1, mem[s].next_free, size + 1, index, lists, total, best)
<1>0. m1 = [mem EXCEPT ![s] = Filled(o)]
  BY DEF Store
<1>1. s # 0 /\ s \in DOMAIN mem /\ DOMAIN m1 = DOMAIN mem
  <2>1. mem \in [OrderSlots -> LinkedOrders \cup C!FreeSlots]
    BY DEF C!Memory, C!PoolSlots, OrderSlots
  <2>2. s # 0
    BY DEF OrderSlots
  <2> QED BY <1>0, <2>1, <2>2
<1>2. b.pool.free_head = s /\ b.pool.slots = mem /\ b.pool.size = size
  BY DEF LinkedValue
<1>3. Pool!acquire(b.pool, NewOrder) = [ptr |-> s, pool |-> p1]
  BY <1>1, <1>2 DEF Pool!acquire, Pool!None
<1>4. [NewOrder EXCEPT !.order_ref = ref, !.price = price, !.shares = shares,
                       !.side = d, !.trader_id = trader,
                       !.level = Book!LevelFor(price)] = Filled(o)
  <2>1. Filled(o) = [order_ref |-> ref, price |-> price, shares |-> shares, side |-> d,
                     trader_id |-> trader, level |-> A!LevelFor(price), prev |-> 0, next |-> 0]
    BY DEF Filled, A!NewOrder
  <2>2. Book!LevelFor(price) = A!LevelFor(price)
    BY SameLevels
  <2>3. NewOrder = [order_ref |-> 0, price |-> 0, shares |-> 0, side |-> "sell",
                    trader_id |-> 0, level |-> <<"null", 0>>, prev |-> 0, next |-> 0]
    BY DEF NewOrder, Nullptr
  <2>4. [NewOrder EXCEPT !.order_ref = ref, !.price = price, !.shares = shares,
                         !.side = d, !.trader_id = trader,
                         !.level = Book!LevelFor(price)] =
          [order_ref |-> ref, price |-> price, shares |-> shares, side |-> d,
           trader_id |-> trader, level |-> Book!LevelFor(price), prev |-> 0, next |-> 0]
    <3>1. Assigned(NewOrder, ref, price, shares, d, trader, Book!LevelFor(price)) =
            [order_ref |-> ref, price |-> price, shares |-> shares, side |-> d,
             trader_id |-> trader, level |-> Book!LevelFor(price), prev |-> 0, next |-> 0]
      BY ONLY FillIs
    <3> QED BY ONLY <3>1 DEF Assigned
  <2> QED BY ONLY <2>1, <2>2, <2>4
<1>5. p1.slots[s] = NewOrder
  BY <1>1
<1>6. [p1 EXCEPT !.slots[s] = Filled(o)] = p2
  <2>1. [p1.slots EXCEPT ![s] = Filled(o)] = m1
    BY <1>0, <1>1
  <2> QED BY <2>1
<1>7. [b EXCEPT !.pool = p2] = b2
  BY DEF LinkedValue
<1>8. Enqueued(b, ref, price, shares, d, trader) = Enqueue(b2, s)
  <2> DEFINE acquired == Pool!acquire(b.pool, NewOrder)
             filled   == [acquired.pool.slots[acquired.ptr] EXCEPT
                            !.order_ref = ref, !.price = price, !.shares = shares,
                            !.side = d, !.trader_id = trader,
                            !.level = Book!LevelFor(price)]
  <2>1. Enqueued(b, ref, price, shares, d, trader) =
          Enqueue([b EXCEPT !.pool = [acquired.pool EXCEPT !.slots[acquired.ptr] = filled]],
                  acquired.ptr)
    BY DEF Enqueued
  <2>2. acquired.ptr = s /\ acquired.pool = p1
    BY <1>3
  <2>3. filled = Filled(o)
    BY <1>4, <1>5, <2>2
  <2> HIDE DEF acquired, filled, p1, p2, b2
  <2> QED BY <1>6, <1>7, <2>1, <2>2, <2>3
<1>9. /\ b2.pool.slots = m1 /\ m1[s] = Filled(o) /\ Filled(o).level = o.level
      /\ Filled(o).side = d /\ Filled(o).shares = shares
      /\ b2.lists = lists /\ b2.total = total
  BY <1>0, <1>1 DEF Filled, A!NewOrder, LinkedValue
<1>11. b2 = LinkedValue(m1, mem[s].next_free, size + 1, index, lists, total, best)
  OBVIOUS
<1> HIDE DEF b2
<1>10. Enqueue(b2, s) =
         Written(b2, r.nodes, o.level, d, r.list, (total[o.level][d] + shares) % ShareSpan)
  BY <1>9 DEF Enqueue, Written
<1>12. Enqueue(b2, s) =
         LinkedValue(r.nodes, mem[s].next_free, size + 1, index,
                     [lists EXCEPT ![o.level][d] = r.list],
                     [total EXCEPT ![o.level][d] = (total[o.level][d] + shares) % ShareSpan], best)
  <2> DEFINE hh == mem[s].next_free
             zz == size + 1
             nn == (total[o.level][d] + shares) % ShareSpan
             rn == r.nodes
             rl == r.list
             ll == o.level
  <2> HIDE DEF hh, zz, nn, rn, rl, ll
  <2>1. b2 = LinkedValue(m1, hh, zz, index, lists, total, best)
    BY <1>11 DEF hh, zz
  <2>2. Written(b2, rn, ll, d, rl, nn) =
          LinkedValue(rn, hh, zz, index, [lists EXCEPT ![ll][d] = rl],
                      [total EXCEPT ![ll][d] = nn], best)
    BY ONLY <2>1, RelinkValue
  <2> QED BY <1>10, <2>2 DEF hh, zz, nn, rn, rl, ll
<1> QED BY <1>8, <1>12 DEF Put

-----------------------------------------------------------------------------
PoolValue(mem, head, size) == [slots |-> mem, free_head |-> head, size |-> size]

(* The members of a linked book represent the abstract book a. *)
Parts(mem, head, size, index, lists, a) ==
  /\ size \in Int
  /\ SlotsRep(mem, a.slots)
  /\ QueuesRep(mem, lists, a.queue)
  /\ FreeRep(PoolValue(mem, head, size), a.free)
  /\ IndexRep(index, a.index)

(* A book made of members that represent a represents a. *)
LEMMA PartsRep ==
  ASSUME NEW mem, NEW head, NEW size, NEW index, NEW lists, NEW a,
         Parts(mem, head, size, index, lists, a)
  PROVE  Rep(LinkedValue(mem, head, size, index, lists, a.total, a.best), a)
<1> DEFINE b == LinkedValue(mem, head, size, index, lists, a.total, a.best)
<1>1. /\ b.pool = PoolValue(mem, head, size) /\ b.pool.slots = mem
      /\ b.pool.free_head = head /\ b.pool.size = size
      /\ b.index = index /\ b.lists = lists /\ b.total = a.total /\ b.best = a.best
  BY DEF LinkedValue, PoolValue
<1>2. b = [pool  |-> [slots |-> mem, free_head |-> head, size |-> size],
           index |-> index, lists |-> lists, total |-> a.total, best |-> a.best]
  BY DEF LinkedValue
<1> HIDE DEF b
<1> QED BY <1>1, <1>2 DEF Rep, Parts, b

(* A book that represents a is made of members that do. *)
LEMMA RepParts ==
  ASSUME NEW b, NEW a, Rep(b, a)
  PROVE  \E mem, head, size, index, lists :
           /\ b = LinkedValue(mem, head, size, index, lists, a.total, a.best)
           /\ Parts(mem, head, size, index, lists, a)
<1>1. b.pool = PoolValue(b.pool.slots, b.pool.free_head, b.pool.size)
  BY DEF Rep, PoolValue
<1>2. b = LinkedValue(b.pool.slots, b.pool.free_head, b.pool.size, b.index, b.lists, a.total, a.best)
  BY DEF Rep, LinkedValue
<1>3. Parts(b.pool.slots, b.pool.free_head, b.pool.size, b.index, b.lists, a)
  BY <1>1 DEF Rep, Parts
<1> QED BY <1>2, <1>3

(* A free slot is not an order. *)
LEMMA FreeIsNotLinked ==
  ASSUME NEW x
  PROVE  C!FreeSlot(x) \notin LinkedOrders
BY DEF C!FreeSlot, LinkedOrders

(* A slot of the free list holds no order. *)
LEMMA FreeHolds ==
  ASSUME NEW p, NEW free, FreeRep(p, free), NEW i \in 1 .. Len(free)
  PROVE  p.slots[free[i]] \notin LinkedOrders /\ free[i] \in OrderSlots
<1>1. /\ p.slots[free[i]] = C!FreeSlot(C!PtrAt(free, i + 1))
      /\ free \in Seq(C!PoolSlots)
  BY DEF FreeRep, C!FreeIs
<1>2. free[i] \in OrderSlots
  <2>1. free \in Seq(OrderSlots)
    BY <1>1 DEF C!PoolSlots, OrderSlots
  <2> QED BY ONLY <2>1, i \in 1 .. Len(free)
<1> QED BY <1>1, <1>2, FreeIsNotLinked

(* The abstract book with order o linked in slot s but not indexed. *)
LinkedTo(a, s, o) ==
  [queue |-> [a.queue EXCEPT ![o.level][o.side] = Append(@, s)],
   total |-> [a.total EXCEPT ![o.level][o.side] = (@ + o.shares) % ShareSpan],
   slots |-> [a.slots EXCEPT ![s] = o],
   free  |-> Tail(a.free), index |-> a.index, best |-> a.best]

(* Acquiring a slot, filling it in and enqueuing it represents the         *)
(* abstract book with the order linked in.                                 *)
LEMMA EnqueuedRep ==
  ASSUME NEW mem, NEW head, NEW size, NEW index, NEW lists, NEW a, Shaped(a), Divided(a),
         Parts(mem, head, size, index, lists, a), a.free # << >>,
         NEW ref, NEW price, NEW shares, NEW d, NEW trader,
         NEW o \in A!DrainedOrder, o = A!NewOrder(ref, price, shares, d, trader),
         NEW s, s = Head(a.free),
         NEW b, b = LinkedValue(mem, head, size, index, lists, a.total, a.best)
  PROVE  /\ head = s /\ s \in OrderSlots
         /\ \E mem2, head2, size2, lists2 :
              /\ Enqueued(b, ref, price, shares, d, trader) =
                   LinkedValue(mem2, head2, size2, index, lists2, LinkedTo(a, s, o).total, a.best)
              /\ Parts(mem2, head2, size2, index, lists2, LinkedTo(a, s, o))
<1> DEFINE m1 == [mem EXCEPT ![s] = Filled(o)]
           l  == o.level
           h2 == mem[s].next_free
           z2 == size + 1
           r  == List!push_back(m1, lists[l][d], s)
           p  == PoolValue(mem, head, size)
           p2 == PoolValue(m1, h2, z2)
           p3 == PoolValue(r.nodes, h2, z2)
           ls == [lists EXCEPT ![l][d] = r.list]
           c  == LinkedTo(a, s, o)
<1>1. /\ size \in Int /\ SlotsRep(mem, a.slots) /\ QueuesRep(mem, lists, a.queue)
      /\ FreeRep(p, a.free) /\ IndexRep(index, a.index)
  BY DEF Parts
<1>2. /\ a.queue \in Queues /\ a.slots \in [OrderSlots -> A!DrainedOrder \cup {A!NoOrder}]
      /\ Apart(a.queue)
  BY DEF Shaped, Divided
<1>3. p.slots = mem /\ p.free_head = head /\ p.size = size
  BY DEF PoolValue
<1>4. head = s /\ s \in OrderSlots /\ s = a.free[1] /\ 1 \in 1 .. Len(a.free)
  <2> HIDE DEF p
  <2> QED BY <1>1, <1>3, HeadIs DEF FreeRep
<1>5. a.slots[s] = A!NoOrder /\ Unqueued(a.queue, s)
  BY <1>4, FreeUnqueued DEF Divided
<1>6. /\ o # A!NoOrder /\ l \in A!Levels /\ o.side = d /\ d \in A!Sides /\ o.shares = shares
      /\ Filled(o) \in LinkedOrders /\ Visible(Filled(o)) = o
  BY DrainedFacts, FilledFacts DEF A!NewOrder
<1>7. mem \in C!Memory
  BY <1>1 DEF SlotsRep
<1>8. /\ m1 \in C!Memory /\ m1[s] = Filled(o) /\ \A m \in OrderSlots : m # s => m1[m] = mem[m]
  BY <1>4, <1>6, <1>7 DEF C!Memory, C!PoolSlots, OrderSlots
<1> HIDE DEF m1
<1>9. QueuesRep(m1, lists, a.queue)
  <2>1. \A e \in A!Levels, f \in A!Sides : \A i \in 1 .. Len(a.queue[e][f]) :
          m1[a.queue[e][f][i]] = mem[a.queue[e][f][i]]
    BY <1>2, <1>5, <1>8 DEF Unqueued, Queues
  <2> QED BY <1>1, <2>1, KeepQueues
<1>10. FreeRep(p2, Tail(a.free))
  <2>1. p2.slots = [mem EXCEPT ![head] = Filled(o)] /\ p2.free_head = h2 /\ p2.size = z2
    BY <1>4 DEF PoolValue, m1
  <2>2. /\ p2.slots = [p.slots EXCEPT ![p.free_head] = Filled(o)]
        /\ p2.free_head = p.slots[p.free_head].next_free /\ p2.size = p.size + 1
        /\ p.slots \in C!Memory /\ p.size \in Int
    <3> HIDE DEF p, p2
    <3> QED BY <1>1, <1>3, <1>4, <1>7, <2>1
  <2> HIDE DEF p, p2
  <2> QED BY ONLY <1>1, <2>2, a.free # << >>, TakeFree
<1>11. /\ r.nodes \in C!Memory
       /\ QueuesRep(r.nodes, ls, c.queue)
       /\ SameOrders(m1, r.nodes)
       /\ \A m \in OrderSlots : m1[m] \notin LinkedOrders => r.nodes[m] = m1[m]
  <2>1. c.queue = [a.queue EXCEPT ![l][d] = Append(@, s)]
    BY <1>6 DEF LinkedTo
  <2>2. m1[s] \in LinkedOrders
    BY <1>6, <1>8
  <2> HIDE DEF c, r, l
  <2>3. r = List!push_back(m1, lists[l][d], s)
    BY DEF r
  <2>4. /\ m1 \in C!Memory /\ a.queue \in Queues /\ Apart(a.queue) /\ s \in OrderSlots
        /\ l \in A!Levels /\ d \in A!Sides /\ Unqueued(a.queue, s)
    BY <1>2, <1>4, <1>5, <1>6, <1>8 DEF l
  <2>5. /\ r.nodes \in C!Memory
        /\ QueuesRep(r.nodes, Put(lists, l, d, r.list), Put(a.queue, l, d, Append(a.queue[l][d], s)))
        /\ SameOrders(m1, r.nodes)
        /\ \A m \in OrderSlots : m1[m] \notin LinkedOrders => r.nodes[m] = m1[m]
    BY ONLY <1>9, <2>2, <2>3, <2>4, PushQueues
  <2> QED BY <2>1, <2>5 DEF Put
<1>12. FreeRep(p3, Tail(a.free))
  <2>1. /\ p3.slots = r.nodes /\ p3.free_head = h2 /\ p3.size = z2
        /\ p2.slots = m1 /\ p2.free_head = h2 /\ p2.size = z2
    BY DEF PoolValue
  <2> HIDE DEF p2, p3, r
  <2>2. \A i \in 1 .. Len(Tail(a.free)) :
          m1[Tail(a.free)[i]] \notin LinkedOrders /\ Tail(a.free)[i] \in OrderSlots
    BY <1>10, <2>1, FreeHolds
  <2>3. \A i \in 1 .. Len(Tail(a.free)) : p3.slots[Tail(a.free)[i]] = p2.slots[Tail(a.free)[i]]
    BY <1>11, <2>1, <2>2
  <2>4. p3.free_head = p2.free_head /\ p3.size = p2.size
    BY <2>1
  <2> QED BY ONLY <1>10, <2>3, <2>4, KeepFree
<1>13. SlotsRep(r.nodes, c.slots)
  <2>1. \A t \in OrderSlots : c.slots[t] = IF t = s THEN o ELSE a.slots[t]
    BY <1>2, <1>4 DEF LinkedTo
  <2> HIDE DEF c, r
  <2> SUFFICES ASSUME NEW t \in OrderSlots
               PROVE  IF c.slots[t] = A!NoOrder THEN r.nodes[t] \notin LinkedOrders
                      ELSE r.nodes[t] \in LinkedOrders /\ Visible(r.nodes[t]) = c.slots[t]
    BY <1>11 DEF SlotsRep
  <2>2. CASE t = s
    <3>1. m1[t] \in LinkedOrders /\ Visible(m1[t]) = o
      BY <1>6, <1>8, <2>2
    <3> QED BY <1>6, <1>11, <2>1, <2>2, <3>1 DEF SameOrders
  <2>3. CASE t # s
    <3>1. m1[t] = mem[t] /\ c.slots[t] = a.slots[t]
      BY <1>8, <2>1, <2>3
    <3>2. CASE a.slots[t] = A!NoOrder
      BY <1>1, <1>11, <3>1, <3>2 DEF SlotsRep
    <3>3. CASE a.slots[t] # A!NoOrder
      BY <1>1, <1>11, <3>1, <3>3 DEF SlotsRep, SameOrders
    <3> QED BY <3>2, <3>3
  <2> QED BY <2>2, <2>3
<1>14. c.free = Tail(a.free) /\ c.index = a.index
       /\ c.total = [a.total EXCEPT ![l][d] = (@ + shares) % ShareSpan]
  BY <1>6 DEF LinkedTo
<1>15. Parts(r.nodes, h2, z2, index, ls, c)
  <2> HIDE DEF r, h2, ls, c
  <2> QED BY <1>1, <1>11, <1>12, <1>13, <1>14 DEF Parts
<1>16. Enqueued(b, ref, price, shares, d, trader) =
         LinkedValue(r.nodes, h2, z2, index, ls, c.total, a.best)
  <2> HIDE DEF c, r
  <2>1. r = List!push_back(m1, lists[o.level][d], s) /\ m1 = Store(mem, s, Filled(o))
    BY DEF r, m1, Store
  <2>2. b = LinkedValue(mem, s, size, index, lists, a.total, a.best)
    BY <1>4
  <2>3. Enqueued(b, ref, price, shares, d, trader) =
           LinkedValue(r.nodes, mem[s].next_free, size + 1, index,
                       Put(lists, o.level, d, r.list),
                       Put(a.total, o.level, d, (a.total[o.level][d] + shares) % ShareSpan), a.best)
    BY ONLY <1>4, <1>7, <2>1, <2>2, o = A!NewOrder(ref, price, shares, d, trader), EnqueuedIs
  <2> QED BY <1>14, <2>3 DEF Put
<1> HIDE DEF r, h2, ls, c, z2
<1> QED BY <1>4, <1>15, <1>16 DEF c

-----------------------------------------------------------------------------
(* A write to the cached best price of a side. *)
LEMMA BestRep ==
  ASSUME NEW mem, NEW head, NEW size, NEW index, NEW lists, NEW a, Shaped(a),
         Parts(mem, head, size, index, lists, a), NEW d, NEW v,
         NEW b, b = LinkedValue(mem, head, size, index, lists, a.total, a.best)
  PROVE  Rep([b EXCEPT !.best[d] = v], [a EXCEPT !.best[d] = v])
<1> DEFINE w == [a.best EXCEPT ![d] = v]
           c == [queue |-> a.queue, total |-> a.total, slots |-> a.slots,
                 free |-> a.free, index |-> a.index, best |-> w]
<1>1. [a EXCEPT !.best[d] = v] = c
  <2>1. a = [queue |-> a.queue, total |-> a.total, slots |-> a.slots,
             free |-> a.free, index |-> a.index, best |-> a.best]
    BY DEF Shaped
  <2> QED BY ONLY <2>1
<1>2. /\ c.queue = a.queue /\ c.total = a.total /\ c.slots = a.slots
      /\ c.free = a.free /\ c.index = a.index /\ c.best = w
  OBVIOUS
<1>3. [b EXCEPT !.best[d] = v] = LinkedValue(mem, head, size, index, lists, a.total, w)
  <2> HIDE DEF c
  <2> DEFINE tt == a.total
             bb == a.best
  <2> HIDE DEF tt, bb
  <2>1. b = LinkedValue(mem, head, size, index, lists, tt, bb)
    BY DEF tt, bb
  <2>2. [b EXCEPT !.best[d] = v] =
          LinkedValue(mem, head, size, index, lists, tt, [bb EXCEPT ![d] = v])
    BY ONLY <2>1 DEF LinkedValue
  <2> QED BY <2>2 DEF tt, bb
<1> HIDE DEF c, w
<1>4. Parts(mem, head, size, index, lists, c)
  BY <1>2 DEF Parts
<1> QED BY <1>1, <1>2, <1>3, <1>4, PartsRep

(* Updating the best price on both sides. *)
LEMMA UpdateRep ==
  ASSUME NEW mem, NEW head, NEW size, NEW index, NEW lists, NEW a, Shaped(a),
         Parts(mem, head, size, index, lists, a), NEW price, NEW d,
         NEW b, b = LinkedValue(mem, head, size, index, lists, a.total, a.best)
  PROVE  Rep(A!update_best_on_add(b, price, d), A!update_best_on_add(a, price, d))
<1>1. b.best = a.best
  BY DEF LinkedValue
<1>2. Rep(b, a) /\ Rep([b EXCEPT !.best[d] = price], [a EXCEPT !.best[d] = price])
  BY PartsRep, BestRep
<1> DEFINE up == a.best[d] = A!NoPrice \/ A!Better(d, price, a.best[d])
<1>3. /\ A!update_best_on_add(b, price, d) = IF up THEN [b EXCEPT !.best[d] = price] ELSE b
      /\ A!update_best_on_add(a, price, d) = IF up THEN [a EXCEPT !.best[d] = price] ELSE a
  BY ONLY <1>1 DEF A!update_best_on_add
<1> HIDE DEF up
<1>4. CASE up
  BY <1>2, <1>3, <1>4
<1>5. CASE ~up
  BY <1>2, <1>3, <1>5
<1> QED BY <1>4, <1>5

(* A call of the linked book and one of the abstract book give the same    *)
(* answer and books that correspond.                                       *)
Alike(c, r) == c.ok = r.ok /\ Rep(c.book, r.book)

(* What add_order asks before it changes anything. *)
LEMMA Asks ==
  ASSUME NEW b, NEW a, Rep(b, a)
  PROVE  /\ \A ref \in Refs : Index!find(b.index, ref) = a.index[ref]
         /\ \A ref \in Refs : Index!find(b.index, ref) # Nullptr <=> A!Live(a, ref)
         /\ b.pool.free_head = Pool!None <=> a.free = << >>
         /\ a.free # << >> => b.pool.free_head = Head(a.free)
<1>1. \A ref \in Refs : Index!find(b.index, ref) = a.index[ref]
  BY DEF Rep, IndexRep
<1>2. \A ref \in Refs : Index!find(b.index, ref) # Nullptr <=> A!Live(a, ref)
  BY <1>1 DEF A!Live, A!NoSlot, Nullptr
<1>3. C!FreeIs(b.pool, a.free)
  BY DEF Rep, FreeRep
<1> QED BY <1>1, <1>2, <1>3, HeadIs, SamePool

(* The index has room for the order. *)
LEMMA RoomIs ==
  ASSUME NEW m, NEW a, A!Sound(a), IndexRep(m, a.index), a.free # << >>
  PROVE  Cardinality({k \in Refs : Index!find(m, k) # 0}) < Index!Capacity
<1>1. ~A!IndexFull(a)
  BY AbstractFacts, A!IndexHasRoom
<1>2. {k \in Refs : Index!find(m, k) # 0} = {r \in Refs : A!Live(a, r)}
  BY DEF IndexRep, A!Live, A!NoSlot
<1>3. A!Cardinality({r \in Refs : A!Live(a, r)}) = Cardinality({r \in Refs : A!Live(a, r)})
  BY Zenon DEF A!Cardinality, Cardinality
<1>4. ~(Cardinality({r \in Refs : A!Live(a, r)}) >= Index!Capacity)
  BY <1>1, <1>3 DEF A!IndexFull, A!order_count
<1> DEFINE n == Cardinality({k \in Refs : Index!find(m, k) # 0})
<1>5. m.size = n
  BY MapFacts DEF IndexRep
<1>6. m.size \in Int
  BY DEF IndexRep, C!MapSound, C!MapRecord
<1>7. ~(n >= Index!Capacity)
  BY <1>2, <1>4
<1> HIDE DEF n
<1>8. n < Index!Capacity
  BY <1>5, <1>6, <1>7, AbstractFacts
<1> QED BY <1>8 DEF n

(* The abstract book that add_order leaves before it updates the best. *)
LEMMA JoinedIs ==
  ASSUME NEW a, A!Sound(a), a.free # << >>, NEW o \in A!Order,
         NEW s, s = Head(a.free), NEW k, k = LinkedTo(a, s, o), NEW j, j = A!Joined(a, o)
  PROVE  /\ j.queue = k.queue /\ j.total = k.total /\ j.slots = k.slots
         /\ j.free = k.free /\ j.best = a.best
         /\ j.index = [a.index EXCEPT ![o.order_ref] = s]
<1>1. j = [queue |-> [a.queue EXCEPT ![o.level][o.side] = Append(@, s)],
           total |-> [a.total EXCEPT ![o.level][o.side] = (@ + o.shares) % ShareSpan],
           slots |-> [a.slots EXCEPT ![s] = o],
           free  |-> Tail(a.free),
           index |-> [a.index EXCEPT ![o.order_ref] = s],
           best  |-> a.best]
  BY AbstractFacts, A!JoinedFields
<1> QED BY <1>1 DEF LinkedTo

(* An order that is added. *)
LEMMA AddJoins ==
  ASSUME NEW b, NEW a, Rep(b, a), A!Sound(a), NEW ref \in Refs, NEW price \in Prices,
         NEW shares \in 1 .. ShareSpan - 1, NEW d \in A!Sides, NEW trader \in Traders,
         ~A!Live(a, ref), a.free # << >>
  PROVE  Alike(add_order(b, ref, price, shares, d, trader),
               A!add_order(a, ref, price, shares, d, trader))
<1> DEFINE o == A!NewOrder(ref, price, shares, d, trader)
           s == Head(a.free)
           k == LinkedTo(a, s, o)
           j == A!Joined(a, o)
           e == Enqueued(b, ref, price, shares, d, trader)
           i == Index!insert(e.index, ref, s)
           r == A!add_order(a, ref, price, shares, d, trader)
           x == [e EXCEPT !.index = i.map]
           c == add_order(b, ref, price, shares, d, trader)
<1>1. /\ o \in A!Order /\ o.order_ref = ref /\ o.side = d /\ o.price = price
      /\ o.level = A!LevelFor(o.price)
      /\ r.ok
      /\ r.book = A!update_best_on_add(j, o.price, o.side)
  <2> HIDE DEF o, j, r
  <2>1. o = A!NewOrder(ref, price, shares, d, trader) /\ j = A!Joined(a, o)
        /\ r = A!add_order(a, ref, price, shares, d, trader)
    BY DEF o, j, r
  <2> QED BY <2>1, AbstractFacts, A!AddIsJoin
<1>2. Shaped(a) /\ Divided(a)
  BY SoundShaped
<1>3. o \in A!DrainedOrder
  <2>1. A!Order \subseteq A!DrainedOrder
    BY LinkedAssumption DEF A!Order, A!DrainedOrder
  <2> QED BY <1>1, <2>1
<1>4. PICK mem, head, size, index, lists :
        /\ b = LinkedValue(mem, head, size, index, lists, a.total, a.best)
        /\ Parts(mem, head, size, index, lists, a)
  BY RepParts
<1>5. s \in OrderSlots
      /\ \E mem2, head2, size2, lists2 :
           /\ e = LinkedValue(mem2, head2, size2, index, lists2, k.total, a.best)
           /\ Parts(mem2, head2, size2, index, lists2, k)
  <2> HIDE DEF o, s, k
  <2>1. o = A!NewOrder(ref, price, shares, d, trader) /\ s = Head(a.free) /\ k = LinkedTo(a, s, o)
    BY DEF o, s, k
  <2> QED BY ONLY <1>2, <1>3, <1>4, <2>1, a.free # << >>, EnqueuedRep
<1>6. PICK mem2, head2, size2, lists2 :
           /\ e = LinkedValue(mem2, head2, size2, index, lists2, k.total, a.best)
           /\ Parts(mem2, head2, size2, index, lists2, k)
  BY <1>5
<1>7. e.index = index
  <2> HIDE DEF e, k
  <2> QED BY <1>6 DEF LinkedValue
<1>8. IndexRep(index, a.index) /\ Index!find(index, ref) = 0
  BY <1>4 DEF Parts, IndexRep, A!Live, A!NoSlot
<1>9. /\ C!MapSound(i.map) /\ i.ok
      /\ \A q \in Refs : Index!find(i.map, q) = IF q = ref THEN s ELSE Index!find(index, q)
  <2> HIDE DEF e, s, i
  <2>1. i = Index!insert(index, ref, s)
    BY <1>7 DEF i
  <2>2. Cardinality({q \in Refs : Index!find(index, q) # 0}) < Index!Capacity
    BY <1>8, RoomIs
  <2>3. C!MapSound(index)
    BY <1>8 DEF IndexRep
  <2> QED BY <1>5, <1>8, <2>1, <2>2, <2>3, InsertFinds
<1>10. /\ j.queue = k.queue /\ j.total = k.total /\ j.slots = k.slots
       /\ j.free = k.free /\ j.best = a.best
       /\ j.index = [a.index EXCEPT ![o.order_ref] = s]
  <2> HIDE DEF o, s, k, j
  <2>1. j = A!Joined(a, o) /\ s = Head(a.free) /\ k = LinkedTo(a, s, o)
    BY DEF j, s, k
  <2> QED BY <1>1, <2>1, JoinedIs
<1>11. IndexRep(i.map, j.index)
  <2> HIDE DEF o, s, i, j
  <2>1. \A q \in Refs : j.index[q] = IF q = ref THEN s ELSE a.index[q]
    BY <1>1, <1>2, <1>10 DEF Shaped
  <2> QED BY <1>8, <1>9, <2>1 DEF IndexRep
<1>12. Parts(mem2, head2, size2, i.map, lists2, j)
  <2> HIDE DEF k, i, j
  <2> QED BY <1>6, <1>10, <1>11 DEF Parts
<1>13. x = LinkedValue(mem2, head2, size2, i.map, lists2, j.total, j.best)
  <2> HIDE DEF e, i, j, k
  <2>1. e = LinkedValue(mem2, head2, size2, index, lists2, j.total, j.best)
    BY <1>6, <1>10
  <2> DEFINE tt == j.total
             bb == j.best
             mm == i.map
  <2> HIDE DEF tt, bb, mm
  <2>2. e = LinkedValue(mem2, head2, size2, index, lists2, tt, bb)
    BY <2>1 DEF tt, bb
  <2>3. [e EXCEPT !.index = mm] = LinkedValue(mem2, head2, size2, mm, lists2, tt, bb)
    BY ONLY <2>2 DEF LinkedValue
  <2> QED BY <2>3 DEF tt, bb, mm
<1>14. Shaped(j)
  <2> HIDE DEF o, j
  <2>1. j = A!Joined(a, o)
    BY DEF j
  <2>2. A!Sound(j)
    BY <1>1, <2>1, AbstractFacts, A!JoinedSound
  <2> QED BY <2>2, SoundShaped
<1>15. Rep(A!update_best_on_add(x, price, d), r.book)
  <2> HIDE DEF x, j, r, i, o
  <2> QED BY <1>1, <1>12, <1>13, <1>14, UpdateRep
<1>16. c = Accepted(A!update_best_on_add(x, price, d))
  <2>1. /\ shares # 0 /\ Index!find(b.index, ref) = Nullptr
        /\ b.pool.free_head # Pool!None /\ b.pool.free_head = s
    BY Asks
  <2> DEFINE h == b.pool.free_head
             y == Index!insert(e.index, ref, h)
  <2>2. c = IF \/ shares = 0
               \/ Index!find(b.index, ref) # Nullptr
               \/ h = Pool!None
            THEN Refused(b)
            ELSE IF y.ok
                 THEN Accepted(Book!update_best_on_add([e EXCEPT !.index = y.map], price, d))
                 ELSE Refused([Dequeue(e, h) EXCEPT !.pool = Pool!release(@, h)])
    BY DEF add_order
  <2>3. y = i
    BY <2>1
  <2> HIDE DEF c, h, y, e, i, s
  <2>4. h # Pool!None
    BY <2>1 DEF h
  <2> QED BY <1>9, <2>1, <2>2, <2>3, <2>4, SameBest DEF x
<1> HIDE DEF c, r, x
<1> QED BY <1>1, <1>15, <1>16 DEF Alike, Accepted, c, r

(* add_order on the containers is add_order of the abstract book. *)
LEMMA AddSim ==
  ASSUME NEW b, NEW a, Rep(b, a), A!Sound(a), NEW ref \in Refs, NEW price \in Prices,
         NEW shares \in 0 .. ShareSpan - 1, NEW d \in A!Sides, NEW trader \in Traders
  PROVE  Alike(add_order(b, ref, price, shares, d, trader),
               A!add_order(a, ref, price, shares, d, trader))
<1>1. CASE shares = 0 \/ A!Live(a, ref) \/ a.free = << >>
  <2>1. \/ shares = 0 \/ Index!find(b.index, ref) # Nullptr
        \/ b.pool.free_head = Pool!None
    BY <1>1, Asks
  <2>2. add_order(b, ref, price, shares, d, trader) = Refused(b)
    BY <2>1 DEF add_order
  <2>3. A!add_order(a, ref, price, shares, d, trader) = A!Refused(a)
    BY <1>1 DEF A!add_order
  <2> QED BY <2>2, <2>3 DEF Alike, Refused, A!Refused
<1>2. CASE ~(shares = 0 \/ A!Live(a, ref) \/ a.free = << >>)
  <2>1. shares \in 1 .. ShareSpan - 1
    BY <1>2, LinkedAssumption
  <2> QED BY <1>2, <2>1, AddJoins
<1> QED BY <1>1, <1>2

-----------------------------------------------------------------------------
(* The linked book after remove on the list of an order. *)
LEMMA DequeuedIs ==
  ASSUME NEW mem, NEW head, NEW size, NEW index, NEW lists, NEW total, NEW best,
         NEW b, b = LinkedValue(mem, head, size, index, lists, total, best),
         NEW s, NEW l, l = mem[s].level, NEW d, d = mem[s].side,
         NEW r, r = List!remove(mem, lists[l][d], s)
  PROVE  Dequeue(b, s) =
           LinkedValue(r.nodes, head, size, index, Put(lists, l, d, r.list),
                       Put(total, l, d, (total[l][d] - mem[s].shares) % ShareSpan), best)
<1>1. b.pool.slots = mem /\ b.lists = lists /\ b.total = total
  BY DEF LinkedValue
<1> DEFINE n  == (total[l][d] - mem[s].shares) % ShareSpan
           rn == r.nodes
           rl == r.list
<1>2. Dequeue(b, s) = Written(b, rn, l, d, rl, n)
  BY <1>1 DEF Dequeue, Written
<1> HIDE DEF n, rn, rl
<1>3. Written(b, rn, l, d, rl, n) =
        LinkedValue(rn, head, size, index, [lists EXCEPT ![l][d] = rl],
                    [total EXCEPT ![l][d] = n], best)
  BY ONLY b = LinkedValue(mem, head, size, index, lists, total, best), RelinkValue
<1>4. Dequeue(b, s) =
        LinkedValue(rn, head, size, index, Put(lists, l, d, rl), Put(total, l, d, n), best)
  BY ONLY <1>2, <1>3 DEF Put
<1> QED BY ONLY <1>4 DEF n, rn, rl

(* A released slot. *)
LEMMA ReleasedIs ==
  ASSUME NEW mem, NEW head, NEW size, NEW index, NEW lists, NEW total, NEW best, NEW s,
         NEW b, b = LinkedValue(mem, head, size, index, lists, total, best)
  PROVE  [b EXCEPT !.pool = Pool!release(@, s)] =
           LinkedValue(Store(mem, s, C!FreeSlot(head)), s, size - 1, index, lists, total, best)
<1> DEFINE p == [slots |-> Store(mem, s, C!FreeSlot(head)), free_head |-> s, size |-> size - 1]
<1>1. b.pool.slots = mem /\ b.pool.free_head = head /\ b.pool.size = size
  BY DEF LinkedValue
<1>2. Pool!release(b.pool, s) = p
  BY <1>1, SamePool DEF C!release, Store
<1>3. [b EXCEPT !.pool = Pool!release(@, s)] = [b EXCEPT !.pool = p]
  BY <1>2
<1> HIDE DEF p
<1>4. [b EXCEPT !.pool = p] =
        [pool |-> p, index |-> index, lists |-> lists, total |-> total, best |-> best]
  BY DEF LinkedValue
<1> QED BY <1>3, <1>4 DEF p, LinkedValue

(* The linked book after erase. *)
LEMMA ErasedIs ==
  ASSUME NEW mem, NEW head, NEW size, NEW index, NEW lists, NEW total, NEW best, NEW m,
         NEW b, b = LinkedValue(mem, head, size, index, lists, total, best)
  PROVE  [b EXCEPT !.index = m] = LinkedValue(mem, head, size, m, lists, total, best)
BY DEF LinkedValue

(* The scan reads only the totals. *)
LEMMA ScanIs ==
  ASSUME NEW b, NEW c, b.total = c.total, NEW d, NEW w
  PROVE  A!ScanLevels(b, d, w) = A!ScanLevels(c, d, w)
<1> DEFINE F(x) == {i \in A!FlatSlots : /\ x.total[<<"flat", i>>][d] > 0
                                        /\ A!FlatPrice(i) \in w}
           O(x) == {p \in A!Outliers \cap w : x.total[<<"outlier", p>>][d] > 0}
<1>1. F(b) = F(c) /\ O(b) = O(c)
  OBVIOUS
<1>2. /\ A!ScanLevels(b, d, w) =
             A!BetterOf(d, IF F(b) = {} THEN A!NoPrice ELSE A!FlatPrice(A!BestIn(d, F(b))),
                        A!BestIn(d, O(b)))
      /\ A!ScanLevels(c, d, w) =
             A!BetterOf(d, IF F(c) = {} THEN A!NoPrice ELSE A!FlatPrice(A!BestIn(d, F(c))),
                        A!BestIn(d, O(c)))
  BY DEF A!ScanLevels
<1> HIDE DEF F, O
<1> QED BY <1>1, <1>2

(* Recomputing a best price on both sides. *)
LEMMA RecomputeRep ==
  ASSUME NEW mem, NEW head, NEW size, NEW index, NEW lists, NEW a, Shaped(a),
         Parts(mem, head, size, index, lists, a), NEW d,
         NEW b, b = LinkedValue(mem, head, size, index, lists, a.total, a.best)
  PROVE  Rep(A!recompute_best_after_level_emptied(b, d),
             A!recompute_best_after_level_emptied(a, d))
<1> DEFINE v == A!ScanLevels(a, d, 0 .. PriceSpan - 1)
<1>1. b.total = a.total
  BY DEF LinkedValue
<1>2. A!ScanLevels(b, d, 0 .. PriceSpan - 1) = v
  BY <1>1, ScanIs
<1>3. /\ A!recompute_best_after_level_emptied(b, d) = [b EXCEPT !.best[d] = v]
      /\ A!recompute_best_after_level_emptied(a, d) = [a EXCEPT !.best[d] = v]
  BY ONLY <1>2 DEF A!recompute_best_after_level_emptied
<1> HIDE DEF v
<1>4. Rep([b EXCEPT !.best[d] = v], [a EXCEPT !.best[d] = v])
  BY BestRep
<1> QED BY <1>3, <1>4

(* Where a coherent book keeps an order. *)
LEMMA ReachableIs ==
  ASSUME NEW a, A!BookCoherent(a), NEW s \in OrderSlots, a.slots[s] # A!NoOrder
  PROVE  /\ a.index[a.slots[s].order_ref] = s
         /\ \E k \in 1 .. Len(a.queue[a.slots[s].level][a.slots[s].side]) :
              a.queue[a.slots[s].level][a.slots[s].side][k] = s
<1>1. A!OrdersReachable(a) /\ s \in A!Slots
  BY DEF A!BookCoherent, A!Slots, OrderSlots
<1> QED BY ONLY <1>1, a.slots[s] # A!NoOrder DEF A!OrdersReachable

(* Slot s holds order o of level l and side d, indexed and queued. *)
HeldAt(mem, a, s, o, l, d) ==
  /\ o \in A!DrainedOrder /\ o # A!NoOrder /\ a.slots[s] = o
  /\ l = o.level /\ d = o.side /\ l \in A!Levels /\ d \in A!Sides /\ o.order_ref \in Refs
  /\ mem[s] \in LinkedOrders /\ mem[s].order_ref = o.order_ref /\ mem[s].price = o.price
  /\ mem[s].shares = o.shares /\ mem[s].side = d /\ mem[s].level = l
  /\ a.index[o.order_ref] = s
  /\ \E k \in 1 .. Len(a.queue[l][d]) : a.queue[l][d][k] = s

(* What the linked book holds of an order. *)
LEMMA HeldOrder ==
  ASSUME NEW mem, NEW a, NEW s \in OrderSlots, A!SoundBut(a, s), SlotsRep(mem, a.slots),
         a.slots[s] # A!NoOrder
  PROVE  HeldAt(mem, a, s, a.slots[s], a.slots[s].level, a.slots[s].side)
<1> DEFINE o == a.slots[s]
<1>1. o \in A!DrainedOrder
  BY DEF A!SoundBut, A!Slots, OrderSlots
<1>2. mem[s] \in LinkedOrders /\ Visible(mem[s]) = o
  BY DEF SlotsRep
<1>3. /\ mem[s].order_ref = o.order_ref /\ mem[s].price = o.price
      /\ mem[s].shares = o.shares /\ mem[s].side = o.side /\ mem[s].level = o.level
  BY <1>2 DEF Visible
<1>4. /\ a.index[o.order_ref] = s
      /\ \E k \in 1 .. Len(a.queue[o.level][o.side]) : a.queue[o.level][o.side][k] = s
  <2>1. A!BookCoherent(a)
    BY DEF A!SoundBut
  <2> QED BY <2>1, ReachableIs
<1>5. o.level \in A!Levels /\ o.side \in A!Sides /\ o.order_ref \in Refs
  BY <1>1, DrainedFacts
<1>6. o # A!NoOrder /\ a.slots[s] = o
  OBVIOUS
<1> HIDE DEF o
<1>7. HeldAt(mem, a, s, o, o.level, o.side)
  BY ONLY <1>1, <1>2, <1>3, <1>4, <1>5, <1>6 DEF HeldAt
<1> QED BY <1>7 DEF o

(* What remove_order_fully does to the members of the abstract book before *)
(* it looks at the cached best price.                                      *)
Clears(a, s, o, l, d, c) ==
  /\ c.queue = Put(a.queue, l, d, A!Unlink(a.queue[l][d], s))
  /\ c.total = Put(a.total, l, d, (a.total[l][d] - o.shares) % ShareSpan)
  /\ c.slots = Store(a.slots, s, A!NoOrder)
  /\ c.free = <<s>> \o a.free
  /\ c.index = Store(a.index, o.order_ref, 0)
  /\ c.best = a.best

(* The abstract book without an order, member by member. *)
LEMMA ClearsIs ==
  ASSUME NEW a, NEW s \in OrderSlots, A!SoundBut(a, s), a.slots[s] # A!NoOrder
  PROVE  Clears(a, s, a.slots[s], a.slots[s].level, a.slots[s].side, A!Cleared(a, s))
<1> DEFINE o == a.slots[s]
           c == A!Cleared(a, s)
<1>1. s \in A!Slots
  BY DEF A!Slots, OrderSlots
<1>2. c = [queue |-> [a.queue EXCEPT ![o.level][o.side] = A!Unlink(@, s)],
           total |-> [a.total EXCEPT ![o.level][o.side] = (@ - o.shares) % ShareSpan],
           slots |-> [a.slots EXCEPT ![s] = A!NoOrder],
           free  |-> <<s>> \o a.free,
           index |-> [a.index EXCEPT ![o.order_ref] = A!NoSlot],
           best  |-> a.best]
  <2> HIDE DEF o, c
  <2>1. o = a.slots[s] /\ c = A!Cleared(a, s)
    BY DEF o, c
  <2> QED BY Zenon, <1>1, <2>1, AbstractFacts, A!ClearedFields
<1> HIDE DEF o, c
<1>3. Clears(a, s, o, o.level, o.side, c)
  BY ONLY <1>2 DEF Clears, Put, Store, A!NoSlot
<1> QED BY <1>3 DEF o, c

(* remove, erase and release on the containers represent the abstract book *)
(* without the order.                                                      *)
LEMMA ClearedRep ==
  ASSUME NEW mem, NEW head, NEW size, NEW index, NEW lists, NEW a, NEW s \in OrderSlots,
         Shaped(a), Divided(a), Parts(mem, head, size, index, lists, a),
         NEW o, NEW l, NEW d, HeldAt(mem, a, s, o, l, d),
         NEW c, Clears(a, s, o, l, d, c), Shaped(c), Divided(c),
         NEW r, r = List!remove(mem, lists[l][d], s),
         NEW w, w = Index!erase(index, o.order_ref).map
  PROVE  /\ Parts(Store(r.nodes, s, C!FreeSlot(head)), s, size - 1, w, Put(lists, l, d, r.list), c)
         /\ r.nodes[s].order_ref = o.order_ref
<1> DEFINE rn == r.nodes
           m3 == Store(rn, s, C!FreeSlot(head))
           ls == Put(lists, l, d, r.list)
           p  == PoolValue(mem, head, size)
           p2 == PoolValue(rn, head, size)
           p3 == PoolValue(m3, s, size - 1)
<1>1. /\ size \in Int /\ SlotsRep(mem, a.slots) /\ QueuesRep(mem, lists, a.queue)
      /\ FreeRep(p, a.free) /\ IndexRep(index, a.index) /\ mem \in C!Memory
  BY DEF Parts, SlotsRep
<1>2. /\ a.queue \in Queues /\ a.slots \in [OrderSlots -> A!DrainedOrder \cup {A!NoOrder}]
      /\ Apart(a.queue) /\ a.index \in [Refs -> OrderSlots \cup {0}]
  BY DEF Shaped, Divided
<1>3. /\ a.slots[s] # A!NoOrder /\ mem[s] \in LinkedOrders /\ o.order_ref \in Refs
      /\ mem[s].order_ref = o.order_ref /\ a.index[o.order_ref] = s
      /\ l \in A!Levels /\ d \in A!Sides
  BY DEF HeldAt
<1>5. PICK k \in 1 .. Len(a.queue[l][d]) : a.queue[l][d][k] = s
  BY DEF HeldAt
<1>4. s # 0
  BY DEF OrderSlots
<1>6. /\ c.queue = Put(a.queue, l, d, A!Unlink(a.queue[l][d], s))
      /\ c.slots = Store(a.slots, s, A!NoOrder)
      /\ c.free = <<s>> \o a.free
      /\ c.index = Store(a.index, o.order_ref, 0)
  BY DEF Clears
<1>8. /\ rn \in C!Memory
      /\ QueuesRep(rn, ls, c.queue)
      /\ SameOrders(mem, rn)
      /\ \A m \in OrderSlots : mem[m] \notin LinkedOrders => rn[m] = mem[m]
  <2>2. /\ r.nodes \in C!Memory
        /\ QueuesRep(r.nodes, Put(lists, l, d, r.list), Put(a.queue, l, d, A!Unlink(a.queue[l][d], s)))
        /\ SameOrders(mem, r.nodes)
        /\ \A m \in OrderSlots : mem[m] \notin LinkedOrders => r.nodes[m] = mem[m]
    BY ONLY <1>1, <1>2, <1>3, <1>5, k \in 1 .. Len(a.queue[l][d]), r = List!remove(mem, lists[l][d], s), PullQueues
  <2> QED BY <1>6, <2>2
<1> HIDE DEF rn
<1>9. rn[s] \in LinkedOrders /\ rn[s].order_ref = o.order_ref
  <2>1. rn[s] \in LinkedOrders /\ Visible(rn[s]) = Visible(mem[s])
    BY ONLY s \in OrderSlots, <1>3, <1>8 DEF SameOrders
  <2>2. rn[s].order_ref = mem[s].order_ref
    BY <2>1 DEF Visible
  <2> QED BY ONLY <1>3, <2>1, <2>2
<1>10. FreeRep(p2, a.free)
  <2>1. /\ p2.slots = rn /\ p2.free_head = p.free_head /\ p2.size = p.size /\ p.slots = mem
    BY DEF PoolValue
  <2> HIDE DEF p, p2
  <2>2. \A i \in 1 .. Len(a.free) : mem[a.free[i]] \notin LinkedOrders /\ a.free[i] \in OrderSlots
    BY <1>1, <2>1, FreeHolds
  <2>3. \A i \in 1 .. Len(a.free) : p2.slots[a.free[i]] = p.slots[a.free[i]]
    BY <1>8, <2>1, <2>2
  <2> QED BY ONLY <1>1, <2>1, <2>3, KeepFree
<1>11. head \in C!Pointers
  <2>1. C!FreeIs(p, a.free) /\ p.free_head = head
    BY <1>1 DEF FreeRep, PoolValue
  <2> HIDE DEF p
  <2>2. head = 0 \/ head \in OrderSlots
    BY <2>1, HeadIs
  <2> QED BY <2>2 DEF C!Pointers, OrderSlots, Nullptr
<1>12. /\ m3 \in C!Memory /\ m3[s] = C!FreeSlot(head)
       /\ \A m \in OrderSlots : m # s => m3[m] = rn[m]
  <2>1. C!FreeSlot(head) \in C!FreeSlots
    BY <1>11 DEF C!FreeSlot, C!FreeSlots
  <2> QED BY <1>8, <2>1 DEF Store, C!Memory, C!PoolSlots, OrderSlots
<1>13. FreeRep(p3, c.free)
  <2>1. /\ p3.slots = m3 /\ p3.free_head = s /\ p3.size = size - 1
        /\ p2.slots = rn /\ p2.free_head = head /\ p2.size = size
    BY DEF PoolValue
  <2>2. /\ p3.slots = [p2.slots EXCEPT ![s] = C!FreeSlot(p2.free_head)]
        /\ p3.free_head = s /\ p3.size = p2.size - 1 /\ p2.slots \in C!Memory /\ p2.size \in Int
    <3> HIDE DEF p2, p3
    <3> QED BY <1>1, <1>8, <2>1 DEF m3, Store
  <2> HIDE DEF p2, p3
  <2>3. \A i \in 1 .. Len(a.free) : a.free[i] # s
    BY ONLY Divided(a), <1>3 DEF Divided
  <2>4. FreeRep(p3, <<s>> \o a.free)
    BY ONLY s \in OrderSlots, <1>10, <2>2, <2>3, GiveFree
  <2> QED BY <1>6, <2>4
<1> HIDE DEF m3
<1>14. QueuesRep(m3, ls, c.queue)
  <2>1. c.slots[s] = A!NoOrder /\ c.queue \in Queues
    BY <1>2, <1>6 DEF Shaped, Store
  <2>2. Unqueued(c.queue, s)
    BY <2>1, FreeUnqueued
  <2>3. \A e \in A!Levels, f \in A!Sides : \A i \in 1 .. Len(c.queue[e][f]) :
          m3[c.queue[e][f][i]] = rn[c.queue[e][f][i]]
    BY <1>12, <2>1, <2>2 DEF Unqueued, Queues
  <2>4. QueuesRep(rn, ls, c.queue)
    BY ONLY <1>8
  <2> DEFINE qs == c.queue
  <2> HIDE DEF ls, qs
  <2>5. QueuesRep(m3, ls, qs)
    BY ONLY <2>3, <2>4, KeepQueues DEF qs
  <2> QED BY <2>5 DEF qs
<1>15. SlotsRep(m3, c.slots)
  <2>1. \A t \in OrderSlots : c.slots[t] = IF t = s THEN A!NoOrder ELSE a.slots[t]
    BY ONLY <1>2, <1>6 DEF Store
  <2> SUFFICES ASSUME NEW t \in OrderSlots
               PROVE  IF c.slots[t] = A!NoOrder THEN m3[t] \notin LinkedOrders
                      ELSE m3[t] \in LinkedOrders /\ Visible(m3[t]) = c.slots[t]
    BY <1>12 DEF SlotsRep
  <2>2. CASE t = s
    BY <1>12, <2>1, <2>2, FreeIsNotLinked
  <2>3. CASE t # s
    <3>1. m3[t] = rn[t] /\ c.slots[t] = a.slots[t]
      BY <1>12, <2>1, <2>3
    <3>2. CASE a.slots[t] = A!NoOrder
      BY <1>1, <1>8, <3>1, <3>2 DEF SlotsRep
    <3>3. CASE a.slots[t] # A!NoOrder
      BY <1>1, <1>8, <3>1, <3>3 DEF SlotsRep, SameOrders
    <3> QED BY <3>2, <3>3
  <2> QED BY <2>2, <2>3
<1>16. IndexRep(w, c.index)
  <2>1. Index!find(index, o.order_ref) # 0 /\ C!MapSound(index)
    BY <1>1, <1>3, <1>4 DEF IndexRep
  <2>2. /\ C!MapSound(w)
        /\ \A q \in Refs : Index!find(w, q) = IF q = o.order_ref THEN 0 ELSE Index!find(index, q)
    BY <1>3, <2>1, EraseFinds
  <2>3. \A q \in Refs : c.index[q] = IF q = o.order_ref THEN 0 ELSE a.index[q]
    BY ONLY <1>2, <1>6 DEF Store
  <2> QED BY <1>1, <2>2, <2>3 DEF IndexRep
<1>17. Parts(m3, s, size - 1, w, ls, c)
  <2> HIDE DEF ls
  <2> QED BY <1>1, <1>13, <1>14, <1>15, <1>16 DEF Parts
<1> QED BY ONLY <1>9, <1>17 DEF m3, rn, ls

(* An empty list has no head. *)
LEMMA EmptyHead ==
  ASSUME NEW mem, NEW lists, NEW queue, QueuesRep(mem, lists, queue),
         NEW l \in A!Levels, NEW d \in A!Sides
  PROVE  lists[l][d].head = Nullptr <=> queue[l][d] = << >>
<1> DEFINE q == queue[l][d]
<1>1. q \in Seq(OrderSlots) /\ lists[l][d].head = C!PtrAt(q, 1)
  BY DEF QueuesRep, C!ListIs, C!PoolSlots, OrderSlots
<1>2. lists[l][d].head = IF 1 \in 1 .. Len(q) THEN q[1] ELSE 0
  BY <1>1 DEF C!PtrAt, Nullptr
<1> HIDE DEF q
<1>3. CASE q = << >>
  BY <1>2, <1>3 DEF q, Nullptr
<1>4. CASE q # << >>
  <2>1. 1 \in 1 .. Len(q) /\ q[1] \in OrderSlots
    BY <1>1, <1>4
  <2>2. 0 \notin OrderSlots
    BY DEF OrderSlots
  <2> QED BY <1>2, <1>4, <2>1, <2>2 DEF q, Nullptr
<1> QED BY <1>3, <1>4

(* The two definitions of remove_order_fully, step by step. *)
LEMMA RemoveSteps ==
  ASSUME NEW b, NEW s, NEW o, o = b.pool.slots[s], NEW q, q = Dequeue(b, s),
         NEW e, e = [q EXCEPT !.index = Index!erase(@, q.pool.slots[s].order_ref).map],
         NEW v, v = [e EXCEPT !.pool = Pool!release(@, s)]
  PROVE  remove_order_fully(b, s) =
           IF v.lists[o.level][o.side].head = Nullptr /\ b.best[o.side] = o.price
           THEN Book!recompute_best_after_level_emptied(v, o.side) ELSE v
BY DEF remove_order_fully

(* The abstract remove_order_fully in the same steps. *)
LEMMA AbstractSteps ==
  ASSUME NEW a, NEW s, NEW o, o = a.slots[s], NEW c, c = A!Cleared(a, s)
  PROVE  A!remove_order_fully(a, s) =
           IF c.queue[o.level][o.side] = << >> /\ a.best[o.side] = o.price
           THEN A!recompute_best_after_level_emptied(c, o.side) ELSE c
BY DEF A!remove_order_fully, A!Cleared

(* remove_order_fully on the containers is the abstract one. *)
LEMMA RemoveSim ==
  ASSUME NEW b, NEW a, Rep(b, a), NEW s \in OrderSlots, A!SoundBut(a, s),
         a.slots[s] # A!NoOrder
  PROVE  Rep(remove_order_fully(b, s), A!remove_order_fully(a, s))
<1> DEFINE o == a.slots[s]
           l == o.level
           d == o.side
           c == A!Cleared(a, s)
<1>1. PICK mem, head, size, index, lists :
        /\ b = LinkedValue(mem, head, size, index, lists, a.total, a.best)
        /\ Parts(mem, head, size, index, lists, a)
  BY RepParts
<1>2. Shaped(a) /\ Divided(a)
  BY ButShaped
<1>3. Clears(a, s, o, l, d, c)
  BY ClearsIs
<1>4. Shaped(c) /\ Divided(c)
  <2>1. s \in A!Slots
    BY DEF A!Slots, OrderSlots
  <2>2. A!Sound(c)
    BY <2>1, AbstractFacts, A!ClearedSound
  <2> HIDE DEF c
  <2> QED BY <2>2, SoundShaped
<1>5. HeldAt(mem, a, s, o, l, d)
  <2>1. SlotsRep(mem, a.slots)
    BY <1>1 DEF Parts
  <2> QED BY <2>1, HeldOrder
<1> DEFINE r  == List!remove(mem, lists[l][d], s)
           w  == Index!erase(index, o.order_ref).map
           m3 == Store(r.nodes, s, C!FreeSlot(head))
           ls == Put(lists, l, d, r.list)
           q  == Dequeue(b, s)
           e  == [q EXCEPT !.index = Index!erase(@, q.pool.slots[s].order_ref).map]
           v  == [e EXCEPT !.pool = Pool!release(@, s)]
           z  == size - 1
<1>20. remove_order_fully(b, s) =
         IF v.lists[mem[s].level][mem[s].side].head = Nullptr /\ b.best[mem[s].side] = mem[s].price
         THEN Book!recompute_best_after_level_emptied(v, mem[s].side) ELSE v
  <2>1. mem[s] = b.pool.slots[s]
    BY <1>1 DEF LinkedValue
  <2>2. q = Dequeue(b, s) /\ e = [q EXCEPT !.index = Index!erase(@, q.pool.slots[s].order_ref).map]
        /\ v = [e EXCEPT !.pool = Pool!release(@, s)]
    OBVIOUS
  <2> HIDE DEF q, e, v
  <2> QED BY ONLY <2>1, <2>2 DEF remove_order_fully
<1>21. A!remove_order_fully(a, s) =
         IF c.queue[l][d] = << >> /\ a.best[d] = o.price
         THEN A!recompute_best_after_level_emptied(c, d) ELSE c
  BY ONLY AbstractSteps
<1> HIDE DEF c, o, l, d
<1>9. /\ Parts(m3, s, z, w, ls, c)
      /\ r.nodes[s].order_ref = o.order_ref
  <2> HIDE DEF r, w
  <2>1. r = List!remove(mem, lists[l][d], s) /\ w = Index!erase(index, o.order_ref).map
    BY DEF r, w
  <2>2. Parts(mem, head, size, index, lists, a)
    BY <1>1
  <2>3. /\ Parts(Store(r.nodes, s, C!FreeSlot(head)), s, size - 1, w, Put(lists, l, d, r.list), c)
        /\ r.nodes[s].order_ref = o.order_ref
    BY ONLY s \in OrderSlots, <1>2, <1>3, <1>4, <1>5, <2>1, <2>2, ClearedRep
  <2> QED BY ONLY <2>3 DEF m3, z, ls
<1>10. q = LinkedValue(r.nodes, head, size, index, ls, c.total, a.best)
  <2> HIDE DEF r
  <2>1. r = List!remove(mem, lists[l][d], s)
    BY DEF r
  <2>2. l = mem[s].level /\ d = mem[s].side /\ mem[s].shares = o.shares
    BY <1>5 DEF HeldAt
  <2>3. q = LinkedValue(r.nodes, head, size, index, Put(lists, l, d, r.list),
                        Put(a.total, l, d, (a.total[l][d] - mem[s].shares) % ShareSpan), a.best)
    BY ONLY <1>1, <2>1, <2>2, DequeuedIs
  <2>4. c.total = Put(a.total, l, d, (a.total[l][d] - o.shares) % ShareSpan)
    BY <1>3 DEF Clears
  <2> QED BY ONLY <2>2, <2>3, <2>4 DEF ls
<1> HIDE DEF q, r, ls, w
<1>11. q.pool.slots = r.nodes /\ q.index = index
  BY <1>10 DEF LinkedValue
<1>12. Index!erase(q.index, q.pool.slots[s].order_ref).map = w
  BY <1>9, <1>11 DEF w
<1>13. e = LinkedValue(r.nodes, head, size, w, ls, c.total, a.best)
  <2>1. e = [q EXCEPT !.index = w]
    BY <1>12
  <2> HIDE DEF e
  <2> DEFINE rn == r.nodes
             tt == c.total
             bb == a.best
  <2> HIDE DEF rn, tt, bb
  <2>2. q = LinkedValue(rn, head, size, index, ls, tt, bb)
    BY <1>10 DEF rn, tt, bb
  <2>3. e = LinkedValue(rn, head, size, w, ls, tt, bb)
    BY ONLY <2>1, <2>2 DEF LinkedValue
  <2> QED BY <2>3 DEF rn, tt, bb
<1> HIDE DEF e
<1>14. v = LinkedValue(m3, s, z, w, ls, c.total, c.best)
  <2> DEFINE rn == r.nodes
             tt == c.total
             bb == a.best
  <2> HIDE DEF rn, tt, bb
  <2>1. e = LinkedValue(rn, head, size, w, ls, tt, bb)
    BY <1>13 DEF rn, tt, bb
  <2>2. v = LinkedValue(Store(rn, s, C!FreeSlot(head)), s, size - 1, w, ls, tt, bb)
    BY ONLY <2>1, ReleasedIs DEF v
  <2>3. c.best = a.best
    BY <1>3 DEF Clears
  <2> QED BY <2>2, <2>3 DEF rn, tt, bb
<1> HIDE DEF v, m3, z
<1>15. Rep(v, c) /\ Rep(A!recompute_best_after_level_emptied(v, d),
                        A!recompute_best_after_level_emptied(c, d))
  BY <1>4, <1>9, <1>14, PartsRep, RecomputeRep
<1>16. v.lists[l][d].head = Nullptr <=> c.queue[l][d] = << >>
  <2>1. v.lists = ls
    BY <1>14 DEF LinkedValue
  <2>2. QueuesRep(m3, ls, c.queue)
    BY <1>9 DEF Parts
  <2>3. l \in A!Levels /\ d \in A!Sides
    BY <1>5 DEF HeldAt
  <2> QED BY <2>1, <2>2, <2>3, EmptyHead
<1>17. b.best = a.best
  BY <1>1 DEF LinkedValue
<1>18. remove_order_fully(b, s) =
         IF c.queue[l][d] = << >> /\ a.best[d] = o.price
         THEN A!recompute_best_after_level_emptied(v, d) ELSE v
  <2>1. mem[s].level = l /\ mem[s].side = d /\ mem[s].price = o.price
    BY <1>5 DEF HeldAt
  <2> QED BY ONLY <1>16, <1>17, <1>20, <2>1, SameBest
<1> QED BY <1>15, <1>18, <1>21

-----------------------------------------------------------------------------
(* Writes to other members of the orders leave the lists as they are. *)
LEMMA KeepLinks ==
  ASSUME NEW mem, NEW lists, NEW queue, QueuesRep(mem, lists, queue),
         NEW mem2, \A s \in OrderSlots : mem[s] \in LinkedOrders =>
                     /\ mem2[s] \in LinkedOrders
                     /\ mem2[s].next = mem[s].next /\ mem2[s].prev = mem[s].prev
  PROVE  QueuesRep(mem2, lists, queue)
<1> SUFFICES ASSUME NEW l \in A!Levels, NEW d \in A!Sides
             PROVE  C!ListIs(mem2, lists[l][d], queue[l][d])
  BY DEF QueuesRep
<1> DEFINE q == queue[l][d]
           z == lists[l][d]
<1>1. C!ListIs(mem, z, q)
  BY DEF QueuesRep
<1> HIDE DEF q, z
<1>2. q \in Seq(OrderSlots)
  BY <1>1 DEF C!ListIs, C!PoolSlots, OrderSlots
<1>3. \A i \in 1 .. Len(q) : q[i] \in OrderSlots
  BY <1>2
<1>4. C!ListIs(mem2, z, q)
  BY <1>1, <1>3 DEF C!ListIs
<1> QED BY <1>4 DEF q, z

(* The abstract book with an order's shares reduced. *)
LEMMA ReducedFields ==
  ASSUME NEW a, Shaped(a), NEW s \in OrderSlots, NEW o, o = a.slots[s], o \in A!DrainedOrder,
         NEW delta, NEW c, c = A!Reduced(a, s, delta)
  PROVE  /\ c.queue = a.queue /\ c.free = a.free /\ c.index = a.index /\ c.best = a.best
         /\ c.slots = Store(a.slots, s, [o EXCEPT !.shares = o.shares - delta])
         /\ c.total = Put(a.total, o.level, o.side, (a.total[o.level][o.side] - delta) % ShareSpan)
<1>1. a = [queue |-> a.queue, total |-> a.total, slots |-> a.slots,
           free |-> a.free, index |-> a.index, best |-> a.best]
  BY DEF Shaped
<1> QED BY <1>1 DEF A!Reduced, Store, Put

(* An order with fewer shares. *)
LEMMA FewerShares ==
  ASSUME NEW w \in LinkedOrders, NEW o, Visible(w) = o, NEW n \in Nat
  PROVE  /\ [w EXCEPT !.shares = n] \in LinkedOrders
         /\ [w EXCEPT !.shares = n].next = w.next /\ [w EXCEPT !.shares = n].prev = w.prev
         /\ Visible([w EXCEPT !.shares = n]) = [o EXCEPT !.shares = n]
         /\ [w EXCEPT !.shares = n].shares = n
BY DEF LinkedOrders, Visible

(* The linked book with an order's shares reduced. *)
Lessened(b, s, l, d, delta) ==
  [b EXCEPT !.pool.slots[s].shares = @ - delta, !.total[l][d] = (@ - delta) % ShareSpan]

(* The same book, member by member. *)
LEMMA ReducedValue ==
  ASSUME NEW mem, NEW head, NEW size, NEW index, NEW lists, NEW total, NEW best,
         NEW b, b = LinkedValue(mem, head, size, index, lists, total, best),
         NEW s, NEW l, NEW d, NEW delta
  PROVE  Lessened(b, s, l, d, delta) =
           LinkedValue(Store(mem, s, [mem[s] EXCEPT !.shares = mem[s].shares - delta]),
                       head, size, index, lists,
                       Put(total, l, d, (total[l][d] - delta) % ShareSpan), best)
<1> DEFINE n  == mem[s].shares - delta
           k  == (total[l][d] - delta) % ShareSpan
           m2 == [mem EXCEPT ![s].shares = n]
           b1 == [b EXCEPT !.pool.slots[s].shares = n]
           b2 == [b1 EXCEPT !.total[l][d] = k]
<1>1. b.pool.slots = mem /\ b.total = total
  BY DEF LinkedValue
<1>2. Lessened(b, s, l, d, delta) = b2
  BY <1>1 DEF Lessened
<1> HIDE DEF n, k
<1>3. b1 = LinkedValue(m2, head, size, index, lists, total, best)
  BY DEF LinkedValue
<1>4. m2 = Store(mem, s, [mem[s] EXCEPT !.shares = n])
  BY DEF Store
<1> HIDE DEF b1, m2
<1>5. b2 = LinkedValue(m2, head, size, index, lists, [total EXCEPT ![l][d] = k], best)
  BY <1>3 DEF LinkedValue
<1> HIDE DEF b2
<1>6. b2 = LinkedValue(Store(mem, s, [mem[s] EXCEPT !.shares = n]), head, size, index, lists,
                       Put(total, l, d, k), best)
  BY ONLY <1>4, <1>5 DEF Put
<1> QED BY ONLY <1>2, <1>6 DEF n, k

(* Taking shares from an order, on both sides. *)
LEMMA ReducedRep ==
  ASSUME NEW mem, NEW head, NEW size, NEW index, NEW lists, NEW a, Shaped(a), Divided(a),
         Parts(mem, head, size, index, lists, a), NEW s \in OrderSlots,
         NEW o \in A!Order, a.slots[s] = o, NEW delta \in 1 .. o.shares,
         NEW v, v = [mem[s] EXCEPT !.shares = mem[s].shares - delta],
         NEW c, c = A!Reduced(a, s, delta), c.slots[s] # A!NoOrder
  PROVE  /\ Parts(Store(mem, s, v), head, size, index, lists, c)
         /\ c.total = Put(a.total, o.level, o.side, (a.total[o.level][o.side] - delta) % ShareSpan)
         /\ c.best = a.best
         /\ Store(mem, s, v)[s].shares = o.shares - delta
<1> DEFINE m2 == Store(mem, s, v)
           p  == PoolValue(mem, head, size)
           p2 == PoolValue(m2, head, size)
           n  == o.shares - delta
<1>1. /\ size \in Int /\ SlotsRep(mem, a.slots) /\ QueuesRep(mem, lists, a.queue)
      /\ FreeRep(p, a.free) /\ IndexRep(index, a.index) /\ mem \in C!Memory
  BY DEF Parts, SlotsRep
<1>2. o \in A!DrainedOrder /\ o # A!NoOrder
  <2>1. A!Order \subseteq A!DrainedOrder
    BY LinkedAssumption DEF A!Order, A!DrainedOrder
  <2> QED BY <2>1, DrainedFacts
<1>3. mem[s] \in LinkedOrders /\ Visible(mem[s]) = o
  BY <1>1, <1>2 DEF SlotsRep
<1>4. mem[s].shares = o.shares
  BY ONLY <1>3 DEF Visible
<1>5. n \in Nat
  <2>1. o.shares \in Nat
    BY <1>2, DrainedFacts
  <2> QED BY ONLY <2>1, delta \in 1 .. o.shares
<1>6. /\ v \in LinkedOrders /\ v.next = mem[s].next /\ v.prev = mem[s].prev
      /\ Visible(v) = [o EXCEPT !.shares = n] /\ v.shares = n
  <2>1. v = [mem[s] EXCEPT !.shares = n]
    BY <1>4
  <2> DEFINE w == mem[s]
  <2> HIDE DEF n, w
  <2>2. v = [w EXCEPT !.shares = n] /\ w \in LinkedOrders /\ Visible(w) = o
    BY <1>3, <2>1 DEF w
  <2>3. /\ v \in LinkedOrders /\ v.next = w.next /\ v.prev = w.prev
        /\ Visible(v) = [o EXCEPT !.shares = n] /\ v.shares = n
    BY ONLY <1>5, <2>2, FewerShares
  <2> QED BY <2>3 DEF w
<1>7. /\ c.queue = a.queue /\ c.free = a.free /\ c.index = a.index /\ c.best = a.best
      /\ c.slots = Store(a.slots, s, [o EXCEPT !.shares = n])
      /\ c.total = Put(a.total, o.level, o.side, (a.total[o.level][o.side] - delta) % ShareSpan)
  BY <1>2, ReducedFields
<1> HIDE DEF n
<1>8. /\ m2 \in C!Memory /\ m2[s] = v
      /\ \A m \in OrderSlots : m # s => m2[m] = mem[m]
  BY ONLY s \in OrderSlots, <1>1, <1>6 DEF Store, C!Memory, C!PoolSlots, OrderSlots
<1> HIDE DEF m2
<1>9. QueuesRep(m2, lists, c.queue)
  <2>1. \A m \in OrderSlots : mem[m] \in LinkedOrders =>
          /\ m2[m] \in LinkedOrders /\ m2[m].next = mem[m].next /\ m2[m].prev = mem[m].prev
    BY ONLY <1>6, <1>8
  <2>2. QueuesRep(m2, lists, a.queue)
    BY ONLY <1>1, <2>1, KeepLinks
  <2> QED BY ONLY <1>7, <2>2
<1>10. FreeRep(p2, c.free)
  <2>1. /\ p2.slots = m2 /\ p2.free_head = p.free_head /\ p2.size = p.size /\ p.slots = mem
    BY DEF PoolValue
  <2> HIDE DEF p, p2
  <2>2. \A i \in 1 .. Len(a.free) : mem[a.free[i]] \notin LinkedOrders /\ a.free[i] \in OrderSlots
    BY ONLY <1>1, <2>1, FreeHolds
  <2>3. \A i \in 1 .. Len(a.free) : p2.slots[a.free[i]] = p.slots[a.free[i]]
    BY ONLY <1>3, <1>8, <2>1, <2>2
  <2>4. FreeRep(p2, a.free)
    BY ONLY <1>1, <2>1, <2>3, KeepFree
  <2> QED BY ONLY <1>7, <2>4
<1>11. SlotsRep(m2, c.slots)
  <2>1. \A t \in OrderSlots : c.slots[t] = IF t = s THEN [o EXCEPT !.shares = n] ELSE a.slots[t]
    <3>1. a.slots \in [OrderSlots -> A!DrainedOrder \cup {A!NoOrder}]
      BY DEF Shaped
    <3> DEFINE u == [o EXCEPT !.shares = n]
    <3> HIDE DEF u
    <3>2. c.slots = Store(a.slots, s, u)
      BY <1>7 DEF u
    <3>3. \A t \in OrderSlots : c.slots[t] = IF t = s THEN u ELSE a.slots[t]
      BY ONLY <3>1, <3>2 DEF Store
    <3> QED BY <3>3 DEF u
  <2>2. \A t \in OrderSlots : IF c.slots[t] = A!NoOrder THEN m2[t] \notin LinkedOrders
                              ELSE m2[t] \in LinkedOrders /\ Visible(m2[t]) = c.slots[t]
    <3> SUFFICES ASSUME NEW t \in OrderSlots
                 PROVE  IF c.slots[t] = A!NoOrder THEN m2[t] \notin LinkedOrders
                        ELSE m2[t] \in LinkedOrders /\ Visible(m2[t]) = c.slots[t]
      OBVIOUS
    <3>1. CASE t = s
      <4>1. c.slots[s] = Visible(v)
        BY ONLY <1>6, <2>1, s \in OrderSlots
      <4> QED BY ONLY <1>6, <1>8, <3>1, <4>1, c.slots[s] # A!NoOrder
    <3>2. CASE t # s
      <4>1. m2[t] = mem[t] /\ c.slots[t] = a.slots[t]
        BY ONLY <1>8, <2>1, <3>2, t \in OrderSlots
      <4> QED BY ONLY <1>1, <4>1, t \in OrderSlots DEF SlotsRep
    <3> QED BY ONLY <3>1, <3>2
  <2> QED BY ONLY <1>8, <2>2 DEF SlotsRep
<1>12. Parts(m2, head, size, index, lists, c)
  BY ONLY <1>1, <1>7, <1>9, <1>10, <1>11 DEF Parts
<1> QED BY ONLY <1>6, <1>7, <1>8, <1>12 DEF m2, n

(* What the linked book reads of a live order. *)
LEMMA LiveIs ==
  ASSUME NEW b, NEW a, Rep(b, a), A!Sound(a), NEW ref \in Refs, A!Live(a, ref),
         NEW s, s = a.index[ref], NEW o, o = a.slots[s]
  PROVE  /\ s \in OrderSlots /\ s # 0 /\ o \in A!Order /\ o # A!NoOrder
         /\ Index!find(b.index, ref) = s
         /\ b.pool.slots[s].shares = o.shares /\ b.pool.slots[s].side = o.side
         /\ b.pool.slots[s].level = o.level
         /\ A!SoundBut(a, s)
<1>1. s \in A!Slots /\ o \in A!Order /\ o # A!NoOrder
  BY AbstractFacts, A!LiveOrder
<1>2. s \in OrderSlots
  BY <1>1 DEF A!Slots, OrderSlots
<1>3. s # 0
  BY <1>2 DEF OrderSlots
<1>4. Index!find(b.index, ref) = s
  BY Asks
<1>5. Visible(b.pool.slots[s]) = o
  BY <1>1, <1>2 DEF Rep, SlotsRep
<1>6. /\ b.pool.slots[s].shares = o.shares /\ b.pool.slots[s].side = o.side
      /\ b.pool.slots[s].level = o.level
  BY ONLY <1>5 DEF Visible
<1>7. A!SoundBut(a, s)
  BY <1>1, AbstractFacts, A!SoundIsSoundBut
<1> QED BY <1>1, <1>2, <1>3, <1>4, <1>6, <1>7

(* delete_order on the containers is the abstract one. *)
LEMMA DeleteSim ==
  ASSUME NEW b, NEW a, Rep(b, a), A!Sound(a), NEW ref \in Refs
  PROVE  Alike(delete_order(b, ref), A!delete_order(a, ref))
<1> DEFINE s == a.index[ref]
<1>1. CASE ~A!Live(a, ref)
  <2>1. delete_order(b, ref) = Refused(b)
    BY <1>1, Asks DEF delete_order
  <2>2. A!delete_order(a, ref) = A!Refused(a)
    BY <1>1 DEF A!delete_order
  <2> QED BY <2>1, <2>2 DEF Alike, Refused, A!Refused
<1>2. CASE A!Live(a, ref)
  <2>1. s \in OrderSlots /\ s # 0 /\ a.slots[s] # A!NoOrder /\ Index!find(b.index, ref) = s
        /\ A!SoundBut(a, s)
    BY <1>2, LiveIs
  <2>2. Rep(remove_order_fully(b, s), A!remove_order_fully(a, s))
    BY <2>1, RemoveSim
  <2>3. delete_order(b, ref) = Accepted(remove_order_fully(b, s))
    BY <2>1 DEF delete_order, Nullptr
  <2>4. A!delete_order(a, ref) = A!Accepted(A!remove_order_fully(a, s))
    BY <1>2 DEF A!delete_order
  <2> QED BY <2>2, <2>3, <2>4 DEF Alike, Accepted, A!Accepted
<1> QED BY <1>1, <1>2

(* replace_order on the containers is the abstract one. *)
LEMMA ReplaceSim ==
  ASSUME NEW b, NEW a, Rep(b, a), A!BookInv(a), NEW old \in Refs, NEW new \in Refs,
         NEW shares \in 0 .. ShareSpan - 1, NEW price \in Prices
  PROVE  Alike(replace_order(b, old, new, shares, price),
               A!replace_order(a, old, new, shares, price))
<1> DEFINE s == a.index[old]
           refuse == ~A!Live(a, old) \/ shares = 0 \/ (old # new /\ A!Live(a, new))
<1>0. A!Sound(a)
  BY DEF A!BookInv
<1>1. /\ Index!find(b.index, old) = s
      /\ refuse <=> \/ Index!find(b.index, old) = Nullptr
                    \/ shares = 0
                    \/ old # new /\ Index!find(b.index, new) # Nullptr
  BY Asks
<1>2. CASE refuse
  <2>1. replace_order(b, old, new, shares, price) = Refused(b)
    <3> HIDE DEF refuse
    <3> QED BY <1>1, <1>2 DEF replace_order
  <2>2. A!replace_order(a, old, new, shares, price) = A!Refused(a)
    BY <1>2 DEF A!replace_order
  <2> QED BY <2>1, <2>2 DEF Alike, Refused, A!Refused
<1>3. CASE ~refuse
  <2> DEFINE d  == a.slots[s].side
             b2 == remove_order_fully(b, s)
             a2 == A!remove_order_fully(a, s)
  <2>1. A!Live(a, old)
    BY <1>3
  <2>2. /\ s \in OrderSlots /\ a.slots[s] # A!NoOrder /\ a.slots[s] \in A!Order
        /\ b.pool.slots[s].side = d /\ A!SoundBut(a, s)
    BY <1>0, <2>1, LiveIs
  <2>3. Rep(b2, a2)
    BY <2>2, RemoveSim
  <2>4. A!Sound(a2)
    <3>1. A!BookInv(a2)
      BY <2>1, AbstractFacts, A!RemoveEffect
    <3> QED BY <3>1 DEF A!BookInv
  <2>5. d \in A!Sides
    BY <2>2 DEF A!Order
  <2>6. replace_order(b, old, new, shares, price) = add_order(b2, new, price, shares, d, 0)
    <3>1. replace_order(b, old, new, shares, price) =
            add_order(remove_order_fully(b, s), new, price, shares, b.pool.slots[s].side, 0)
      <4> HIDE DEF s, refuse
      <4> QED BY <1>1, <1>3 DEF replace_order
    <3> QED BY <2>2, <3>1
  <2>7. A!replace_order(a, old, new, shares, price) = A!add_order(a2, new, price, shares, d, 0)
    BY <1>3 DEF A!replace_order, A!OrderOf
  <2> HIDE DEF b2, a2, d
  <2>8. 0 \in Traders
    BY LinkedAssumption
  <2>9. Alike(add_order(b2, new, price, shares, d, 0), A!add_order(a2, new, price, shares, d, 0))
    BY <2>3, <2>4, <2>5, <2>8, AddSim
  <2> QED BY <2>6, <2>7, <2>9
<1> QED BY <1>2, <1>3

(* The book after the shares of an order went down, before it is known     *)
(* whether any are left.                                                   *)
LEMMA TakenRep ==
  ASSUME NEW b, NEW a, Rep(b, a), A!Sound(a), NEW s \in OrderSlots,
         NEW o \in A!Order, a.slots[s] = o, NEW delta \in 1 .. o.shares,
         NEW l, l = b.pool.slots[s].level, NEW d, d = b.pool.slots[s].side,
         l = o.level, d = o.side,
         NEW c, c = A!Reduced(a, s, delta), c.slots[s] # A!NoOrder,
         NEW x, x = Lessened(b, s, l, d, delta)
  PROVE  Rep(x, c) /\ x.pool.slots[s].shares = o.shares - delta
<1>1. Shaped(a) /\ Divided(a)
  BY SoundShaped
<1>2. PICK mem, head, size, index, lists :
        /\ b = LinkedValue(mem, head, size, index, lists, a.total, a.best)
        /\ Parts(mem, head, size, index, lists, a)
  BY RepParts
<1> DEFINE v  == [mem[s] EXCEPT !.shares = mem[s].shares - delta]
           m2 == Store(mem, s, v)
           k  == Put(a.total, l, d, (a.total[l][d] - delta) % ShareSpan)
<1>3. x = LinkedValue(m2, head, size, index, lists, k, a.best)
  <2> DEFINE tt == a.total
             bb == a.best
  <2> HIDE DEF tt, bb
  <2>1. b = LinkedValue(mem, head, size, index, lists, tt, bb)
    BY <1>2 DEF tt, bb
  <2>2. x = LinkedValue(Store(mem, s, [mem[s] EXCEPT !.shares = mem[s].shares - delta]),
                        head, size, index, lists,
                        Put(tt, l, d, (tt[l][d] - delta) % ShareSpan), bb)
    BY ONLY <2>1, ReducedValue, x = Lessened(b, s, l, d, delta)
  <2> QED BY ONLY <2>2 DEF tt, bb
<1>4. /\ Parts(m2, head, size, index, lists, c)
      /\ c.total = Put(a.total, o.level, o.side, (a.total[o.level][o.side] - delta) % ShareSpan)
      /\ c.best = a.best
      /\ m2[s].shares = o.shares - delta
  <2> HIDE DEF k
  <2>1. v = [mem[s] EXCEPT !.shares = mem[s].shares - delta]
    OBVIOUS
  <2> HIDE DEF v
  <2> QED BY ONLY <1>1, <1>2, <2>1, ReducedRep, s \in OrderSlots, o \in A!Order, a.slots[s] = o,
       delta \in 1 .. o.shares, c = A!Reduced(a, s, delta), c.slots[s] # A!NoOrder
<1>5. k = c.total
  BY ONLY <1>4, l = o.level, d = o.side
<1> HIDE DEF m2, k
<1>6. x = LinkedValue(m2, head, size, index, lists, c.total, c.best)
  BY ONLY <1>3, <1>4, <1>5
<1>7. Rep(x, c)
  BY ONLY <1>4, <1>6, PartsRep
<1>8. x.pool.slots = m2
  BY ONLY <1>6 DEF LinkedValue
<1> QED BY ONLY <1>4, <1>7, <1>8

(* execute_order and cancel_order. *)
LEMMA ReduceSim ==
  ASSUME NEW b, NEW a, Rep(b, a), A!Sound(a), NEW ref \in Refs, NEW delta \in Nat
  PROVE  Alike(reduce_shares(b, ref, delta), A!reduce_shares(a, ref, delta))
<1> DEFINE s == a.index[ref]
           o == a.slots[s]
           c == A!Reduced(a, s, delta)
           l == b.pool.slots[s].level
           d == b.pool.slots[s].side
           x == Lessened(b, s, l, d, delta)
<1>0. Index!find(b.index, ref) = s
  BY Asks
<1>1. CASE ~A!Live(a, ref)
  <2>1. Index!find(b.index, ref) = Nullptr
    BY <1>1, Asks
  <2>2. reduce_shares(b, ref, delta) = Refused(b)
    BY ONLY <2>1 DEF reduce_shares
  <2>3. A!reduce_shares(a, ref, delta) = A!Refused(a)
    BY ONLY <1>1, Zenon DEF A!reduce_shares
  <2> QED BY <2>2, <2>3 DEF Alike, Refused, A!Refused
<1>2. CASE A!Live(a, ref)
  <2>1. /\ s \in OrderSlots /\ s # 0 /\ o \in A!Order /\ o # A!NoOrder
        /\ b.pool.slots[s].shares = o.shares /\ d = o.side /\ l = o.level
        /\ A!SoundBut(a, s)
    BY <1>2, LiveIs
  <2>2. o.shares \in Nat
    <3>1. o.shares \in 1 .. ShareSpan - 1
      BY <2>1 DEF A!Order
    <3> QED BY ONLY <3>1
  <2>3. CASE delta = 0 \/ delta > o.shares
    <3>1. reduce_shares(b, ref, delta) = Refused(b)
      <4>1. delta = 0 \/ (s # Nullptr /\ delta > b.pool.slots[s].shares)
        BY <2>1, <2>3 DEF Nullptr
      <4>2. \/ Index!find(b.index, ref) = Nullptr \/ delta = 0
            \/ Index!find(b.index, ref) # Nullptr /\ delta > b.pool.slots[Index!find(b.index, ref)].shares
        BY <1>0, <4>1
      <4> QED BY ONLY <4>2, Zenon DEF reduce_shares
    <3>2. A!reduce_shares(a, ref, delta) = A!Refused(a)
      BY ONLY <1>2, <2>3, Zenon DEF A!reduce_shares
    <3> QED BY <3>1, <3>2 DEF Alike, Refused, A!Refused
  <2>4. CASE delta \in 1 .. o.shares
    <3> DEFINE r == A!reduce_shares(a, ref, delta)
    <3>1. /\ r.ok
          /\ r.book = IF delta = o.shares THEN A!remove_order_fully(c, s) ELSE c
      BY <1>2, <2>2, <2>4, AbstractFacts, A!ReduceIsTake
    <3>2. A!SoundBut(c, s) /\ c.slots[s] # A!NoOrder
      <4>1. s \in A!Slots
        BY <2>1 DEF A!Slots, OrderSlots
      <4> QED BY <2>1, <2>4, <4>1, AbstractFacts, A!ReducedSound
    <3>3. Rep(x, c) /\ x.pool.slots[s].shares = o.shares - delta
      <4> DEFINE ll == l
                 dd == d
                 cc == c
                 xx == x
      <4>1. /\ ll = b.pool.slots[s].level /\ dd = b.pool.slots[s].side /\ ll = o.level /\ dd = o.side
            /\ cc = A!Reduced(a, s, delta) /\ cc.slots[s] # A!NoOrder
            /\ xx = Lessened(b, s, ll, dd, delta)
        BY <2>1, <3>2
      <4> HIDE DEF ll, dd, cc, xx, o
      <4>2. a.slots[s] = o
        BY DEF o
      <4> HIDE DEF s
      <4>3. Rep(xx, cc) /\ xx.pool.slots[s].shares = o.shares - delta
        BY ONLY Rep(b, a), A!Sound(a), <2>1, <2>4, <4>1, <4>2, TakenRep
      <4> QED BY ONLY <4>3 DEF xx, cc, ll, dd
    <3>4. reduce_shares(b, ref, delta) =
            Accepted(IF x.pool.slots[s].shares = 0 THEN remove_order_fully(x, s) ELSE x)
      <4>1. ~(s = Nullptr \/ delta = 0 \/ (s # Nullptr /\ delta > b.pool.slots[s].shares))
        BY <2>1, <2>2, <2>4 DEF Nullptr
      <4> DEFINE f == Index!find(b.index, ref)
                 w == Lessened(b, f, b.pool.slots[f].level, b.pool.slots[f].side, delta)
      <4>2. ~(f = Nullptr \/ delta = 0 \/ (f # Nullptr /\ delta > b.pool.slots[f].shares))
        BY ONLY <1>0, <4>1
      <4>3. reduce_shares(b, ref, delta) =
              Accepted(IF w.pool.slots[f].shares = 0 THEN remove_order_fully(w, f) ELSE w)
        BY ONLY <4>2, Zenon DEF reduce_shares, Lessened
      <4>4. f = s
        BY ONLY <1>0
      <4> HIDE DEF f, s
      <4> QED BY ONLY <4>3, <4>4
    <3> HIDE DEF x, c, r
    <3>5. CASE delta = o.shares
      <4>1. x.pool.slots[s].shares = 0
        BY ONLY <2>2, <3>3, <3>5
      <4>2. Rep(remove_order_fully(x, s), A!remove_order_fully(c, s))
        BY ONLY <2>1, <3>2, <3>3, RemoveSim
      <4> QED BY <3>1, <3>4, <3>5, <4>1, <4>2 DEF Alike, Accepted, r
    <3>6. CASE delta # o.shares
      <4>1. x.pool.slots[s].shares # 0
        BY ONLY <2>2, <2>4, <3>3, <3>6
      <4> QED BY <3>1, <3>3, <3>4, <3>6, <4>1 DEF Alike, Accepted, r
    <3> QED BY ONLY <3>5, <3>6
  <2> QED BY ONLY <2>2, <2>3, <2>4, delta \in Nat
<1> QED BY ONLY <1>1, <1>2

-----------------------------------------------------------------------------
(* The constructor builds the empty book, whatever the hash. *)
LEMMA InitRep ==
  ASSUME NEW hash \in Hashes
  PROVE  Rep(EmptyLinkedBook(hash), A!EmptyBook)
<1> DEFINE p == Pool!NewPool
           q == [i \in 1 .. OrderCapacity |-> i]
           b == EmptyLinkedBook(hash)
           e == A!EmptyBook
<1>1. p = C!NewPool
  BY SamePool
<1> HIDE DEF p
<1>2. /\ p.slots \in C!Memory /\ \A i \in C!PoolSlots : p.slots[i] \notin LinkedOrders
      /\ C!FreeIs(p, q) /\ p.size = 0
  BY <1>1, ContainerFacts, C!NewPoolIs
<1>3. \A mem : C!ListIs(mem, C!EmptyList, << >>) /\ C!EmptyList \in C!ListValues
  BY ContainerFacts, C!EmptyListIs
<1>4. p = [slots |-> p.slots, free_head |-> p.free_head, size |-> p.size]
  BY DEF p, Pool!NewPool
<1>5. /\ b.pool = p /\ b.index = Index!EmptyMap(hash)
      /\ b.lists = [l \in A!Levels |-> [d \in A!Sides |-> C!EmptyList]]
      /\ b.total = e.total /\ b.best = e.best
      /\ b = [pool |-> b.pool, index |-> b.index, lists |-> b.lists, total |-> b.total,
              best |-> b.best]
  BY SameLevels, SamePool DEF EmptyLinkedBook, A!EmptyBook, p
<1>6. /\ e.queue = [l \in A!Levels |-> [d \in A!Sides |-> << >>]]
      /\ e.slots = [s \in OrderSlots |-> A!NoOrder]
      /\ e.free = q /\ e.index = [r \in Refs |-> 0]
  BY DEF A!EmptyBook, A!Slots, OrderSlots, A!NoSlot
<1> HIDE DEF b, e
<1>7. SlotsRep(p.slots, e.slots)
  BY <1>2, <1>6 DEF SlotsRep, C!PoolSlots, OrderSlots
<1>8. QueuesRep(p.slots, b.lists, e.queue)
  <2> DEFINE z == C!EmptyList
             n == << >>
             m == p.slots
             L == b.lists
             Q == e.queue
  <2>1. C!ListIs(m, z, n) /\ z \in C!ListValues
    BY ONLY <1>3
  <2>2. /\ L = [l \in A!Levels |-> [d \in A!Sides |-> z]]
        /\ Q = [l \in A!Levels |-> [d \in A!Sides |-> n]]
    BY ONLY <1>5, <1>6
  <2> HIDE DEF z, n, m, L, Q
  <2>3. L \in [A!Levels -> [A!Sides -> C!ListValues]]
    BY ONLY <2>1, <2>2
  <2>4. ASSUME NEW l \in A!Levels, NEW d \in A!Sides
        PROVE  C!ListIs(m, L[l][d], Q[l][d])
    <3>1. L[l][d] = z /\ Q[l][d] = n
      BY ONLY <2>2, l \in A!Levels, d \in A!Sides
    <3> QED BY ONLY <2>1, <3>1
  <2>5. QueuesRep(m, L, Q)
    BY ONLY <2>3, <2>4 DEF QueuesRep
  <2> QED BY <2>5 DEF m, L, Q
<1>9. FreeRep(p, e.free)
  <2>1. Len(q) = OrderCapacity
    BY ContainerFacts
  <2> QED BY <1>2, <1>6, <2>1, ContainerFacts DEF FreeRep
<1>10. IndexRep(b.index, e.index)
  BY <1>5, <1>6, EmptyFinds DEF IndexRep
<1> QED BY <1>2, <1>4, <1>5, <1>7, <1>8, <1>9, <1>10 DEF Rep, b, e

-----------------------------------------------------------------------------
(* The inductive invariant: the structures of b represent a coherent       *)
(* abstract book, and that book is the one the walks and look-ups show.    *)
Represented(b) == Rep(b, Abstraction(b)) /\ A!BookInv(Abstraction(b))

(* A book that represents a sound abstract book has it as its abstraction. *)
LEMMA RepAbstraction ==
  ASSUME NEW b, NEW a, Rep(b, a), A!BookInv(a)
  PROVE  Abstraction(b) = a /\ Represented(b)
<1>1. Shaped(a)
  BY SoundShaped DEF A!BookInv
<1>2. Abstraction(b) = a
  <2>1. /\ a = [queue |-> a.queue, total |-> a.total, slots |-> a.slots,
                free |-> a.free, index |-> a.index, best |-> a.best]
        /\ a.queue \in Queues
    BY <1>1 DEF Shaped
  <2>2. a.slots = [s \in OrderSlots |-> a.slots[s]] /\ a.index = [r \in Refs |-> a.index[r]]
    BY <1>1 DEF Shaped
  <2> QED BY <2>1, <2>2, AbstractionIs
<1> QED BY <1>2 DEF Represented

(* Calls that end alike agree. *)
LEMMA AlikeAgrees ==
  ASSUME NEW c, NEW r, Alike(c, r), A!BookInv(r.book)
  PROVE  Agree(c, r) /\ Represented(c.book)
BY RepAbstraction DEF Alike, Agree

(* From a represented book every call does what the abstract call does and *)
(* leaves a represented book.                                              *)
LEMMA AddAgrees ==
  ASSUME NEW b, Represented(b), NEW ref \in Refs, NEW price \in Prices,
         NEW shares \in ShareInputs, NEW d \in Book!Sides, NEW trader \in Traders
  PROVE  /\ Agree(add_order(b, ref, price, shares, d, trader),
                  Book!add_order(Abstraction(b), ref, price, shares, d, trader))
         /\ Represented(add_order(b, ref, price, shares, d, trader).book)
<1> DEFINE a == Abstraction(b)
           r == A!add_order(a, ref, price, shares, d, trader)
<1> HIDE DEF a
<1>1. Rep(b, a) /\ A!BookInv(a) /\ A!Sound(a)
  BY DEF a, Represented, A!BookInv
<1>2. shares \in 0 .. ShareSpan - 1 /\ d \in A!Sides
  BY LinkedAssumption, SameLevels
<1>3. Alike(add_order(b, ref, price, shares, d, trader), r)
  BY <1>1, <1>2, AddSim
<1>4. A!BookInv(r.book)
  BY <1>1, <1>2, AbstractFacts, A!AddEffect
<1>5. Book!add_order(a, ref, price, shares, d, trader) = r
  BY SameCalls
<1> QED BY <1>3, <1>4, <1>5, AlikeAgrees DEF a

(* execute_order and cancel_order: *)
LEMMA ReduceAgrees ==
  ASSUME NEW b, Represented(b), NEW ref \in Refs, NEW shares \in ShareInputs
  PROVE  /\ Agree(reduce_shares(b, ref, shares), Book!reduce_shares(Abstraction(b), ref, shares))
         /\ Represented(reduce_shares(b, ref, shares).book)
<1> DEFINE a == Abstraction(b)
           r == A!reduce_shares(a, ref, shares)
<1> HIDE DEF a
<1>1. Rep(b, a) /\ A!BookInv(a) /\ A!Sound(a)
  BY DEF a, Represented, A!BookInv
<1>2. shares \in Nat
  BY LinkedAssumption
<1>3. Alike(reduce_shares(b, ref, shares), r)
  BY <1>1, <1>2, ReduceSim
<1>4. A!BookInv(r.book)
  BY <1>1, <1>2, AbstractFacts, A!ReduceEffect
<1>5. Book!reduce_shares(a, ref, shares) = r
  BY SameCalls
<1> QED BY <1>3, <1>4, <1>5, AlikeAgrees DEF a

(* delete_order: *)
LEMMA DeleteAgrees ==
  ASSUME NEW b, Represented(b), NEW ref \in Refs
  PROVE  /\ Agree(delete_order(b, ref), Book!delete_order(Abstraction(b), ref))
         /\ Represented(delete_order(b, ref).book)
<1> DEFINE a == Abstraction(b)
           r == A!delete_order(a, ref)
<1> HIDE DEF a
<1>1. Rep(b, a) /\ A!BookInv(a) /\ A!Sound(a)
  BY DEF a, Represented, A!BookInv
<1>2. Alike(delete_order(b, ref), r)
  BY <1>1, DeleteSim
<1>3. A!BookInv(r.book)
  BY <1>1, AbstractFacts, A!DeleteEffect
<1>4. Book!delete_order(a, ref) = r
  BY SameCalls
<1> QED BY <1>2, <1>3, <1>4, AlikeAgrees DEF a

(* replace_order: *)
LEMMA ReplaceAgrees ==
  ASSUME NEW b, Represented(b), NEW old \in Refs, NEW new \in Refs,
         NEW shares \in ShareInputs, NEW price \in Prices
  PROVE  /\ Agree(replace_order(b, old, new, shares, price),
                  Book!replace_order(Abstraction(b), old, new, shares, price))
         /\ Represented(replace_order(b, old, new, shares, price).book)
<1> DEFINE a == Abstraction(b)
           r == A!replace_order(a, old, new, shares, price)
<1> HIDE DEF a
<1>1. Rep(b, a) /\ A!BookInv(a)
  BY DEF a, Represented
<1>2. shares \in 0 .. ShareSpan - 1
  BY LinkedAssumption
<1>3. Alike(replace_order(b, old, new, shares, price), r)
  BY <1>1, <1>2, ReplaceSim
<1>4. A!BookInv(r.book)
  BY <1>1, <1>2, AbstractFacts, A!ReplaceEffect
<1>5. Book!replace_order(a, old, new, shares, price) = r
  BY SameCalls
<1> QED BY <1>3, <1>4, <1>5, AlikeAgrees DEF a

-----------------------------------------------------------------------------
(* What the structures of a represented book say of one another. *)
LiveSlots(a) == {s \in OrderSlots : a.slots[s] # A!NoOrder}

(* Counting the orders. *)
LEMMA LiveCount ==
  ASSUME NEW a
  PROVE  /\ IsFiniteSet(LiveSlots(a)) /\ Cardinality(LiveSlots(a)) \in Nat
         /\ IsFiniteSet(OrderSlots) /\ Cardinality(OrderSlots) = OrderCapacity
         /\ Cardinality(OrderSlots \ LiveSlots(a)) = OrderCapacity - Cardinality(LiveSlots(a))
<1>1. IsFiniteSet(OrderSlots) /\ Cardinality(OrderSlots) = OrderCapacity
  BY ContainerFacts, FS_Interval DEF OrderSlots
<1>2. LiveSlots(a) \in SUBSET OrderSlots /\ OrderSlots \cap LiveSlots(a) = LiveSlots(a)
  BY DEF LiveSlots
<1>3. IsFiniteSet(LiveSlots(a)) /\ Cardinality(LiveSlots(a)) \in Nat
  BY <1>1, <1>2, FS_Subset, FS_CardinalityType
<1>4. Cardinality(OrderSlots \ LiveSlots(a)) =
        Cardinality(OrderSlots) - Cardinality(OrderSlots \cap LiveSlots(a))
  BY <1>1, FS_Difference
<1> QED BY <1>1, <1>2, <1>3, <1>4

(* Counting the members of a sequence. *)
LEMMA CountSeq ==
  ASSUME NEW q \in Seq(OrderSlots), C!Distinct(q)
  PROVE  Cardinality(C!RangeOf(q)) = Len(q) /\ C!RangeOf(q) \subseteq OrderSlots
BY ContainerFacts, C!DistinctCount, SameCard

(* The free list holds the slots without an order, and the pool counts the *)
(* others.                                                                 *)
LEMMA PoolPartitioned ==
  ASSUME NEW b, NEW a, Rep(b, a), A!Sound(a)
  PROVE  Pool!Partitioned(b.pool, LiveSlots(a))
<1> DEFINE chain == Pool!FreeChain(b.pool)
           live  == LiveSlots(a)
<1>1. /\ C!FreeIs(b.pool, a.free) /\ b.pool.size = OrderCapacity - Len(a.free)
      /\ b.pool.slots \in C!Memory
  BY DEF Rep, FreeRep, SlotsRep
<1>2. chain = a.free
  BY <1>1, ChainIs
<1>3. a.free \in Seq(OrderSlots) /\ C!Distinct(a.free)
  BY <1>1 DEF C!FreeIs, C!PoolSlots, OrderSlots
<1>4. A!FreeListSound(a) /\ A!NoSlotLeaks(a)
  BY DEF A!Sound, A!BookCoherent
<1>5. C!RangeOf(a.free) = OrderSlots \ live
  <2>1. \A i \in 1 .. Len(a.free) : a.free[i] \in OrderSlots /\ a.slots[a.free[i]] = A!NoOrder
    BY <1>3, <1>4 DEF A!FreeListSound
  <2>2. \A s \in OrderSlots : a.slots[s] = A!NoOrder => \E i \in 1 .. Len(a.free) : a.free[i] = s
    BY <1>4 DEF A!NoSlotLeaks, A!Slots, OrderSlots
  <2> QED BY ONLY <2>1, <2>2 DEF C!RangeOf, LiveSlots
<1>6. Len(a.free) = OrderCapacity - Cardinality(live)
  <2>1. Cardinality(C!RangeOf(a.free)) = Len(a.free)
    BY ONLY <1>3, CountSeq
  <2>2. Cardinality(OrderSlots \ live) = OrderCapacity - Cardinality(live)
    BY LiveCount
  <2> QED BY ONLY <1>5, <2>1, <2>2
<1>7. {chain[i] : i \in DOMAIN chain} = Pool!PoolSlots \ live
  <2>1. DOMAIN a.free = 1 .. Len(a.free)
    BY <1>3
  <2> QED BY <1>2, <1>5, <2>1 DEF C!RangeOf, Pool!PoolSlots, OrderSlots
<1>8. b.pool.size = Cardinality(live)
  <2>1. Cardinality(live) \in Nat /\ OrderCapacity \in Nat
    BY LiveCount, ContainerFacts
  <2> HIDE DEF live
  <2> QED BY ONLY <1>1, <1>6, <2>1
<1>9. b.pool.free_head = Pool!None <=> b.pool.size = OrderCapacity
  <2>1. b.pool.free_head = 0 <=> a.free = << >>
    BY <1>1, HeadIs
  <2>2. a.free = << >> <=> Len(a.free) = 0
    BY <1>3
  <2>3. Len(a.free) \in Nat
    BY <1>3
  <2> QED BY <1>1, <2>1, <2>2, <2>3, SamePool, ContainerFacts
<1>10. Pool!Cardinality(live) = Cardinality(live)
  BY Zenon DEF Pool!Cardinality, Cardinality
<1> HIDE DEF live
<1>11. Pool!Partitioned(b.pool, live)
  BY <1>2, <1>6, <1>7, <1>8, <1>9, <1>10 DEF Pool!Partitioned
<1> QED BY <1>11 DEF live

(* The index holds as many keys as the pool holds orders. *)
LEMMA IndexCount ==
  ASSUME NEW b, NEW a, Rep(b, a), A!Sound(a)
  PROVE  b.index.size = Cardinality(LiveSlots(a))
<1> DEFINE live == LiveSlots(a)
           D    == {r \in Refs : Index!find(b.index, r) # 0}
           f    == [s \in live |-> a.slots[s].order_ref]
<1>1. b.index.size = Cardinality(D)
  BY MapFacts DEF Rep, IndexRep
<1>2. /\ \A r \in Refs : Index!find(b.index, r) = a.index[r]
      /\ A!BookCoherent(a) /\ Shaped(a)
  BY SoundShaped DEF Rep, IndexRep, A!Sound
<1>3. ASSUME NEW s \in live
      PROVE  /\ a.slots[s].order_ref \in D /\ a.index[a.slots[s].order_ref] = s
  <2>1. s \in OrderSlots /\ a.slots[s] # A!NoOrder
    BY DEF LiveSlots
  <2>2. a.index[a.slots[s].order_ref] = s
    BY <1>2, <2>1, ReachableIs
  <2>3. a.slots[s] \in A!DrainedOrder
    BY <1>2, <2>1 DEF Shaped
  <2>4. a.slots[s].order_ref \in Refs
    BY <2>3, DrainedFacts
  <2>5. s # 0
    BY <2>1 DEF OrderSlots
  <2> QED BY <1>2, <2>2, <2>4, <2>5
<1>4. ASSUME NEW r \in D PROVE a.index[r] \in live /\ a.slots[a.index[r]].order_ref = r
  <2>1. A!Live(a, r) /\ r \in Refs
    BY <1>2 DEF A!Live, A!NoSlot
  <2>2. a.slots[a.index[r]] # A!NoOrder /\ a.slots[a.index[r]].order_ref = r
    BY <1>2, <2>1 DEF A!BookCoherent, A!IndexSound, A!OrderOf
  <2>3. a.index[r] \in OrderSlots
    <3>1. a.index \in [Refs -> OrderSlots \cup {0}]
      BY <1>2 DEF Shaped
    <3> QED BY <2>1, <3>1 DEF A!Live, A!NoSlot
  <2> QED BY <2>2, <2>3 DEF LiveSlots
<1> HIDE DEF live, D
<1>5. f \in [live -> D] /\ \A s \in live : f[s] = a.slots[s].order_ref
  BY <1>3
<1> HIDE DEF f
<1>6. f \in Injection(live, D)
  BY <1>3, <1>5 DEF Injection, IsInjective
<1>7. f \in Surjection(live, D)
  <2>1. \A r \in D : \E s \in live : f[s] = r
    BY <1>4, <1>5
  <2> QED BY <1>5, <2>1 DEF Surjection
<1>8. ExistsBijection(live, D)
  BY <1>6, <1>7 DEF ExistsBijection, Bijection
<1>9. IsFiniteSet(live)
  BY LiveCount DEF live
<1>10. Cardinality(D) = Cardinality(live)
  BY <1>8, <1>9, FS_Bijection
<1> QED BY <1>1, <1>10 DEF live

(* Each list walks forwards and backwards over orders of the pool. *)
LEMMA WalksSound ==
  ASSUME NEW b, NEW a, Rep(b, a), A!Sound(a), NEW l \in A!Levels, NEW d \in A!Sides
  PROVE  /\ List!Forward(b.pool.slots, b.lists[l][d]) = a.queue[l][d]
         /\ List!Mirrored(b.pool.slots, b.lists[l][d])
         /\ Len(a.queue[l][d]) <= Cardinality(LiveSlots(a))
<1> DEFINE q == a.queue[l][d]
           R == C!RangeOf(q)
<1>1. b.pool.slots \in C!Memory /\ C!ListIs(b.pool.slots, b.lists[l][d], q)
  BY DEF Rep, SlotsRep, QueuesRep
<1>2. q \in Seq(OrderSlots) /\ C!Distinct(q)
  BY <1>1 DEF C!ListIs, C!PoolSlots, OrderSlots
<1>3. \A i \in 1 .. Len(q) : a.slots[q[i]] # A!NoOrder
  BY SoundShaped DEF Divided
<1>4. R \in SUBSET LiveSlots(a)
  <2> HIDE DEF q
  <2>1. \A i \in 1 .. Len(q) : q[i] \in OrderSlots
    BY <1>2
  <2> QED BY <1>3, <2>1 DEF C!RangeOf, LiveSlots
<1>5. Cardinality(R) = Len(q)
  BY <1>2, CountSeq
<1>6. Cardinality(R) <= Cardinality(LiveSlots(a))
  BY <1>4, LiveCount, FS_Subset
<1> QED BY <1>1, <1>5, <1>6, WalksAre

(* The structures of a represented book agree. *)
LEMMA RepresentedPointers ==
  ASSUME Represented(linked)
  PROVE  PointersSound
<1> DEFINE a    == Abstraction(linked)
           mem  == linked.pool.slots
           live == {s \in 1 .. OrderCapacity : Pool!InUse(linked.pool.slots[s])}
<1> HIDE DEF a
<1>1. Rep(linked, a) /\ A!Sound(a)
  BY DEF a, Represented, A!BookInv
<1>2. mem \in C!Memory /\ SlotsRep(mem, a.slots)
  BY <1>1 DEF Rep, SlotsRep
<1>3. live = LiveSlots(a)
  <2>1. \A s \in OrderSlots : Pool!InUse(mem[s]) <=> a.slots[s] # A!NoOrder
    BY <1>2, InUseIs DEF SlotsRep
  <2> QED BY <2>1 DEF LiveSlots, OrderSlots
<1> HIDE DEF live
<1>4. Pool!Partitioned(linked.pool, live)
  BY <1>1, <1>3, PoolPartitioned
<1>5. Index!FindExact
  BY <1>1, FindExactHolds DEF Rep, IndexRep
<1>6. ASSUME NEW s \in live
      PROVE  /\ Index!find(linked.index, linked.pool.slots[s].order_ref) = s
             /\ \E i \in DOMAIN List!Forward(linked.pool.slots,
                          linked.lists[linked.pool.slots[s].level][linked.pool.slots[s].side]) :
                  List!Forward(linked.pool.slots,
                    linked.lists[linked.pool.slots[s].level][linked.pool.slots[s].side])[i] = s
  <2> DEFINE o == a.slots[s]
  <2>1. s \in OrderSlots /\ o # A!NoOrder
    BY <1>3 DEF LiveSlots
  <2>2. o \in A!DrainedOrder
    BY <1>1, <2>1, SoundShaped DEF Shaped
  <2>3. o.level \in A!Levels /\ o.side \in A!Sides /\ o.order_ref \in Refs
    BY <2>2, DrainedFacts
  <2>4. /\ linked.pool.slots[s].order_ref = o.order_ref /\ linked.pool.slots[s].level = o.level
        /\ linked.pool.slots[s].side = o.side
    <3>1. Visible(mem[s]) = o
      BY <1>2, <2>1 DEF SlotsRep
    <3> QED BY ONLY <3>1 DEF Visible
  <2>5. /\ a.index[o.order_ref] = s
        /\ \E i \in 1 .. Len(a.queue[o.level][o.side]) : a.queue[o.level][o.side][i] = s
    BY <1>1, <2>1, ReachableIs DEF A!Sound
  <2>6. Index!find(linked.index, o.order_ref) = s
    BY <1>1, <2>3, <2>5, Asks
  <2>7. List!Forward(linked.pool.slots, linked.lists[o.level][o.side]) = a.queue[o.level][o.side]
    BY <1>1, <2>3, WalksSound
  <2>8. DOMAIN a.queue[o.level][o.side] = 1 .. Len(a.queue[o.level][o.side])
    <3>1. a.queue[o.level][o.side] \in Seq(OrderSlots)
      BY <1>1, <2>3, SoundShaped DEF Shaped, Queues
    <3> QED BY <3>1
  <2> HIDE DEF o
  <2> QED BY ONLY <2>4, <2>5, <2>6, <2>7, <2>8
<1>7. ASSUME NEW l \in DOMAIN linked.lists, NEW d \in DOMAIN linked.lists[l]
      PROVE  /\ Len(List!Forward(linked.pool.slots, linked.lists[l][d])) <= Cardinality(live)
             /\ List!Mirrored(linked.pool.slots, linked.lists[l][d])
  <2>1. l \in A!Levels /\ d \in A!Sides
    BY <1>1 DEF Rep, QueuesRep
  <2> QED BY <1>1, <1>3, <2>1, WalksSound
<1>8. linked.index.size = Cardinality(live)
  BY <1>1, <1>3, IndexCount
<1> QED BY ONLY <1>4, <1>5, <1>6, <1>7, <1>8, Zenon DEF PointersSound, live

(* A represented book answers and changes as the abstract one. *)
LEMMA RepresentedImplements ==
  ASSUME Represented(linked)
  PROVE  ImplementsBook
BY AddAgrees, ReduceAgrees, DeleteAgrees, ReplaceAgrees DEF ImplementsBook

-----------------------------------------------------------------------------
LinkedInv == Represented(linked)

(* The constructor leaves a represented book, the empty one. *)
LEMMA InitRepresented == Init => LinkedInv /\ Abstraction(linked) = A!EmptyBook
<1> SUFFICES ASSUME NEW hash \in Hashes, linked = EmptyLinkedBook(hash)
             PROVE  LinkedInv /\ Abstraction(linked) = A!EmptyBook
  BY DEF Init
<1>1. Rep(linked, A!EmptyBook)
  BY InitRep
<1>2. A!BookInv(A!EmptyBook)
  BY AbstractFacts, A!InitInv
<1> QED BY <1>1, <1>2, RepAbstraction DEF LinkedInv

(* Every call leaves a represented book. *)
LEMMA StepRepresented == LinkedInv /\ [Next]_linked => LinkedInv'
<1> SUFFICES ASSUME Represented(linked), [Next]_linked PROVE Represented(linked')
  BY DEF LinkedInv
<1>1. CASE \E r \in Refs, p \in Prices, n \in ShareInputs, d \in Book!Sides, t \in Traders :
             AddOrder(r, p, n, d, t)
  BY <1>1, AddAgrees DEF AddOrder
<1>2. CASE \E r \in Refs, n \in ShareInputs : ReduceShares(r, n)
  BY <1>2, ReduceAgrees DEF ReduceShares
<1>3. CASE \E r \in Refs : DeleteOrder(r)
  BY <1>3, DeleteAgrees DEF DeleteOrder
<1>4. CASE \E old, new \in Refs, n \in ShareInputs, p \in Prices : ReplaceOrder(old, new, n, p)
  BY <1>4, ReplaceAgrees DEF ReplaceOrder
<1>5. CASE UNCHANGED linked
  BY <1>5
<1> QED BY ONLY <1>1, <1>2, <1>3, <1>4, <1>5, [Next]_linked DEF Next

(* Whatever calls are made of the book on its pool, lists and hash table,  *)
(* these represent a coherent book: the pool, the links and the table      *)
(* never disagree.                                                         *)
THEOREM LinkedInvariant == Spec => []LinkedInv
<1>1. Init => LinkedInv
  BY InitRepresented
<1> QED BY <1>1, StepRepresented, PTL DEF Spec

(* After any sequence of calls the index finds exactly the orders in the   *)
(* pool, each is linked forwards and backwards in the list of its level    *)
(* and side, and every other slot is on the free list.                     *)
THEOREM LinkedPointersSound == Spec => []PointersSound
<1>1. LinkedInv => PointersSound
  BY RepresentedPointers DEF LinkedInv
<1> QED BY <1>1, LinkedInvariant, PTL

(* From every state the book can reach, every call on the pool, the links  *)
(* and the table (add_order, reduce_shares, delete_order, replace_order)   *)
(* answers, and leaves behind, what the call of the abstract book does.    *)
THEOREM LinkedImplementsBook == Spec => []ImplementsBook
<1>1. LinkedInv => ImplementsBook
  BY RepresentedImplements DEF LinkedInv
<1> QED BY <1>1, LinkedInvariant, PTL

(* The book on its containers implements the book of OrderBook.tla, so     *)
(* that everything proved of that book holds of the code's pointers: each  *)
(* sequence of container calls is one abstract call.                       *)
THEOREM LinkedRefinesBook == Spec => Book!Spec
<1>1. Init => Book!Init
  BY InitRepresented, SameLevels, Zenon DEF Book!Init, Book!EmptyBook, A!EmptyBook, Book!Slots, A!Slots,
     Book!NoOrder, A!NoOrder, Book!NoLevel, A!NoLevel, Book!NoSlot, A!NoSlot
<1>2. LinkedInv /\ [Next]_linked => [Book!Next]_(Abstraction(linked))
  <2> SUFFICES ASSUME Represented(linked), [Next]_linked
               PROVE  [Book!Next]_(Abstraction(linked))
    BY DEF LinkedInv
  <2>1. CASE \E r \in Refs, p \in Prices, n \in ShareInputs, d \in Book!Sides, t \in Traders :
               AddOrder(r, p, n, d, t)
    <3>1. PICK r \in Refs, p \in Prices, n \in ShareInputs, d \in Book!Sides, t \in Traders :
               AddOrder(r, p, n, d, t)
      BY <2>1
    <3>2. Book!AddOrder(r, p, n, d, t)
      BY <3>1, AddAgrees DEF AddOrder, Book!AddOrder, Agree
    <3> QED BY <3>2 DEF Book!Next
  <2>2. CASE \E r \in Refs, n \in ShareInputs : ReduceShares(r, n)
    <3>1. PICK r \in Refs, n \in ShareInputs : ReduceShares(r, n)
      BY <2>2
    <3>2. Book!ExecuteOrder(r, n)
      BY <3>1, ReduceAgrees DEF ReduceShares, Book!ExecuteOrder, Book!execute_order, Agree
    <3> QED BY <3>2 DEF Book!Next
  <2>3. CASE \E r \in Refs : DeleteOrder(r)
    <3>1. PICK r \in Refs : DeleteOrder(r)
      BY <2>3
    <3>2. Book!DeleteOrder(r)
      BY <3>1, DeleteAgrees DEF DeleteOrder, Book!DeleteOrder, Agree
    <3> QED BY <3>2 DEF Book!Next
  <2>4. CASE \E old, new \in Refs, n \in ShareInputs, p \in Prices : ReplaceOrder(old, new, n, p)
    <3>1. PICK old \in Refs, new \in Refs, n \in ShareInputs, p \in Prices :
            ReplaceOrder(old, new, n, p)
      BY <2>4
    <3>2. Book!ReplaceOrder(old, new, n, p)
      BY <3>1, ReplaceAgrees DEF ReplaceOrder, Book!ReplaceOrder, Agree
    <3> QED BY <3>2 DEF Book!Next
  <2>5. CASE UNCHANGED linked
    BY <2>5
  <2> QED BY ONLY <2>1, <2>2, <2>3, <2>4, <2>5, [Next]_linked DEF Next
<1> QED BY <1>1, <1>2, LinkedInvariant, PTL DEF Spec, Book!Spec
=============================================================================
