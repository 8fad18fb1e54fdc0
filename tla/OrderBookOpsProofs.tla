------------------------- MODULE OrderBookOpsProofs ---------------------------
(***************************************************************************)
(* Lemmas about the operations of the order book, for every size of pool,  *)
(* window and price range: each leaves a sound book, and a call that is    *)
(* refused leaves the book as it was; then what each does to the set of    *)
(* resting orders, and from that the lemmas about the counters of the      *)
(* levels and about the cached best prices.                                *)
(***************************************************************************)
EXTENDS OrderBookOps, ArithmeticProofs, FunctionTheorems

-----------------------------------------------------------------------------
(* An assignment to one entry of a function of functions. *)
LEMMA Except2 ==
  ASSUME NEW L, NEW S, NEW T, NEW f \in [L -> [S -> T]], NEW l \in L,
         NEW d \in S, NEW v \in T, NEW g, g = [f EXCEPT ![l][d] = v]
  PROVE  /\ g \in [L -> [S -> T]]
         /\ \A m \in L, e \in S :
              g[m][e] = IF m = l /\ e = d THEN v ELSE f[m][e]
OBVIOUS

-----------------------------------------------------------------------------
(* Levels and orders. *)

(* Writing an entry of a function of functions back restores it. *)
LEMMA ExceptUndo ==
  ASSUME NEW A, NEW B, NEW C, NEW f \in [A -> [B -> C]],
         NEW x \in A, NEW y \in B, NEW v
  PROVE  [[f EXCEPT ![x][y] = v] EXCEPT ![x][y] = f[x][y]] = f
<1> DEFINE g == [f EXCEPT ![x][y] = v]
           h == [g EXCEPT ![x][y] = f[x][y]]
<1>1. h = [a \in A |-> h[a]] /\ f = [a \in A |-> f[a]]
  OBVIOUS
<1>2. ASSUME NEW a \in A, a # x PROVE h[a] = f[a]
  BY <1>2
<1>3. h[x] = f[x]
  OBVIOUS
<1>4. \A a \in A : h[a] = f[a]
  BY <1>2, <1>3
<1> HIDE DEF h
<1>5. h = f
  BY ONLY <1>1, <1>4
<1> QED BY <1>5 DEF h

(* A price in use has a level: its flat slot or its outlier entry. *)
LEMMA LevelForType ==
  ASSUME NEW p \in Prices
  PROVE  LevelFor(p) \in Levels
<1>1. p \in Int /\ ReferencePrice \in Int /\ HalfWidth \in Nat
  BY PriceAssumption
<1>2. CASE p - ReferencePrice \in -HalfWidth .. HalfWidth
  <2>1. p - ReferencePrice + HalfWidth \in FlatSlots
    BY <1>1, <1>2 DEF FlatSlots
  <2> QED BY <1>2, <2>1 DEF LevelFor, Levels
<1>3. CASE p - ReferencePrice \notin -HalfWidth .. HalfWidth
  BY <1>3 DEF LevelFor, Levels, Outliers
<1> QED BY <1>2, <1>3

(* An order in use is told apart from an empty slot by its level. *)
LEMMA LevelIsNotNull ==
  ASSUME NEW l \in Levels
  PROVE  l # NoLevel
BY DEF Levels, NoLevel

(* No node is in the list twice. *)
Once(q) == \A i, j \in 1 .. Len(q) : q[i] = q[j] => i = j

(* List u holds what list q holds, node k excepted. *)
AllBut(u, q, k) ==
  /\ \A i \in 1 .. Len(u) : \E m \in 1 .. Len(q) : m # k /\ u[i] = q[m]
  /\ \A m \in 1 .. Len(q) : m # k => \E i \in 1 .. Len(u) : u[i] = q[m]

(* What IntrusiveList::remove leaves: the other nodes, each still once. *)
LEMMA UnlinkFacts ==
  ASSUME NEW q \in Seq(Slots), NEW k \in 1 .. Len(q), Once(q),
         NEW u, u = Unlink(q, q[k])
  PROVE  u \in Seq(Slots) /\ Once(u) /\ AllBut(u, q, k)
<1>1. (CHOOSE j \in 1 .. Len(q) : q[j] = q[k]) = k
  BY DEF Once
<1>2. u = [i \in 1 .. Len(q) - 1 |-> IF i < k THEN q[i] ELSE q[i + 1]]
  BY <1>1 DEF Unlink
<1>3. Len(q) - 1 \in Nat /\ Len(q) \in Nat /\ k \in Nat
  OBVIOUS
<1>4. \A i \in 1 .. Len(q) - 1 : (IF i < k THEN q[i] ELSE q[i + 1]) \in Slots
  OBVIOUS
<1>5. u \in Seq(Slots) /\ Len(u) = Len(q) - 1
  BY <1>2, <1>3, <1>4
<1>6. ASSUME NEW i \in 1 .. Len(u)
      PROVE  \/ i \in 1 .. k - 1 /\ u[i] = q[i]
             \/ i \in k .. Len(q) - 1 /\ u[i] = q[i + 1]
  BY <1>2, <1>3, <1>5
<1>7. ASSUME NEW i \in 1 .. Len(u)
      PROVE  \E m \in 1 .. Len(q) : m # k /\ u[i] = q[m]
  <2>1. CASE i \in 1 .. k - 1 /\ u[i] = q[i]
    BY <1>3, <2>1
  <2>2. CASE i \in k .. Len(q) - 1 /\ u[i] = q[i + 1]
    <3>1. i + 1 \in 1 .. Len(q) /\ i + 1 # k
      BY <1>3, <2>2
    <3> QED BY <2>2, <3>1
  <2> QED BY <1>6, <2>1, <2>2
<1>8. ASSUME NEW m \in 1 .. Len(q), m # k
      PROVE  \E i \in 1 .. Len(u) : u[i] = q[m]
  <2>1. CASE m < k
    <3>1. m \in 1 .. Len(u) /\ u[m] = q[m]
      BY <1>2, <1>3, <1>5, <2>1
    <3> QED BY <3>1
  <2>2. CASE m > k
    <3>1. m - 1 \in 1 .. Len(u) /\ u[m - 1] = q[m]
      BY <1>2, <1>3, <1>5, <2>2
    <3> QED BY <3>1
  <2> QED BY <1>3, <1>8, <2>1, <2>2
<1>9. ASSUME NEW i \in 1 .. Len(u), NEW j \in 1 .. Len(u), u[i] = u[j]
      PROVE  i = j
  <2>1. \/ i \in 1 .. k - 1 /\ u[i] = q[i]
        \/ i \in k .. Len(q) - 1 /\ u[i] = q[i + 1]
    BY <1>6
  <2>2. \/ j \in 1 .. k - 1 /\ u[j] = q[j]
        \/ j \in k .. Len(q) - 1 /\ u[j] = q[j + 1]
    BY <1>6
  <2>3. \E m \in {i, i + 1} : m \in 1 .. Len(q) /\ u[i] = q[m]
    BY <1>3, <2>1
  <2> QED BY <1>3, <1>9, <2>1, <2>2 DEF Once
<1> QED BY <1>5, <1>7, <1>8, <1>9 DEF Once, AllBut

(* What ObjectPool::release does to the free list. *)
LEMMA PushFacts ==
  ASSUME NEW q \in Seq(Slots), NEW s \in Slots
  PROVE  /\ <<s>> \o q \in Seq(Slots)
         /\ Len(<<s>> \o q) = Len(q) + 1
         /\ (<<s>> \o q)[1] = s
         /\ \A i \in 2 .. Len(q) + 1 : (<<s>> \o q)[i] = q[i - 1]
OBVIOUS

-----------------------------------------------------------------------------
(* A node of a queue is an order of that level and side. *)
LEMMA QueueNode ==
  ASSUME NEW b, QueuesSound(b), NEW l \in Levels, NEW d \in Sides,
         NEW k \in 1 .. Len(b.queue[l][d])
  PROVE  /\ b.slots[b.queue[l][d][k]] # NoOrder
         /\ b.slots[b.queue[l][d][k]].level = l
         /\ b.slots[b.queue[l][d][k]].side = d
BY DEF QueuesSound

-----------------------------------------------------------------------------
(* The inductive invariant, and books in the middle of an operation. *)

(* A book whose members have their types and agree with each other. *)
Sound(b) == b \in Book /\ BookCoherent(b)

(* An order that reduce_shares has taken the last share from. *)
DrainedOrder ==
  [order_ref : Refs, price : Prices, shares : 0 .. ShareSpan - 1,
   side : Sides, trader_id : Traders, level : Levels]

(* A book in which the order of slot s may be drained. *)
SoundBut(b, s) ==
  /\ b \in [queue : [Levels -> [Sides -> Seq(Slots)]],
            total : [Levels -> [Sides -> 0 .. ShareSpan - 1]],
            slots : [Slots -> DrainedOrder \cup {NoOrder}],
            free  : Seq(Slots),
            index : [Refs -> Slots \cup {NoSlot}],
            best  : [Sides -> (0 .. PriceSpan - 1) \cup {NoPrice}]]
  /\ \A t \in Slots \ {s} : b.slots[t] \in Order \cup {NoOrder}
  /\ BookCoherent(b)

(* A sound book is sound whichever slot is set aside. *)
LEMMA SoundIsSoundBut ==
  ASSUME NEW b, NEW s \in Slots, Sound(b)
  PROVE  SoundBut(b, s)
<1>1. Order \subseteq DrainedOrder
  BY ShareAssumption DEF Order, DrainedOrder
<1> QED BY <1>1 DEF Sound, SoundBut, Book

(* remove_order_fully before it looks at the cached best price. *)
Cleared(b, s) ==
  Release([Delink(b, s, b.slots[s]) EXCEPT
             !.index[b.slots[s].order_ref] = NoSlot], s)

(* Its effect on each member. *)
LEMMA ClearedFields ==
  ASSUME NEW b, NEW s \in Slots, SoundBut(b, s), b.slots[s] # NoOrder,
         NEW o, o = b.slots[s], NEW c, c = Cleared(b, s)
  PROVE  /\ o \in DrainedOrder
         /\ c =
              [queue |-> [b.queue EXCEPT ![o.level][o.side] = Unlink(@, s)],
               total |-> [b.total EXCEPT ![o.level][o.side] =
                            (@ - o.shares) % ShareSpan],
               slots |-> [b.slots EXCEPT ![s] = NoOrder],
               free  |-> <<s>> \o b.free,
               index |-> [b.index EXCEPT ![o.order_ref] = NoSlot],
               best  |-> b.best]
<1>1. o \in DrainedOrder
  BY DEF SoundBut
<1> QED BY <1>1 DEF SoundBut, Cleared, Release, Delink

(* Share counters wrap inside their width. *)
LEMMA ModType ==
  ASSUME NEW x \in Int
  PROVE  x % ShareSpan \in 0 .. ShareSpan - 1
BY ShareAssumption

(* Unlinking, freeing and unindexing the order of slot s leaves a sound    *)
(* book: nothing points to s any more except the free list.                *)
LEMMA ClearedSound ==
  ASSUME NEW b, NEW s \in Slots, SoundBut(b, s), b.slots[s] # NoOrder
  PROVE  Sound(Cleared(b, s))
<1> DEFINE o == b.slots[s]
           c == Cleared(b, s)
           q == b.queue[o.level][o.side]
           u == Unlink(q, s)
<1>o. o \in DrainedOrder
  BY ClearedFields
<1>c. c = [queue |-> [b.queue EXCEPT ![o.level][o.side] = Unlink(@, s)],
           total |-> [b.total EXCEPT ![o.level][o.side] =
                        (@ - o.shares) % ShareSpan],
           slots |-> [b.slots EXCEPT ![s] = NoOrder],
           free  |-> <<s>> \o b.free,
           index |-> [b.index EXCEPT ![o.order_ref] = NoSlot],
           best  |-> b.best]
  BY ClearedFields
<1>1. /\ c.queue = [b.queue EXCEPT ![o.level][o.side] = u]
      /\ c.total = [b.total EXCEPT ![o.level][o.side] =
                      (b.total[o.level][o.side] - o.shares) % ShareSpan]
      /\ c.slots = [b.slots EXCEPT ![s] = NoOrder]
      /\ c.free = <<s>> \o b.free
      /\ c.index = [b.index EXCEPT ![o.order_ref] = NoSlot]
      /\ c.best = b.best
      /\ c \in [queue : {c.queue}, total : {c.total}, slots : {c.slots},
                free : {c.free}, index : {c.index}, best : {c.best}]
  <2> HIDE DEF c
  <2> QED BY <1>c
<1>2. /\ o.level \in Levels /\ o.side \in Sides /\ o.order_ref \in Refs
      /\ o.shares \in Int
  <2> HIDE DEF o
  <2> QED BY <1>o, ShareAssumption DEF DrainedOrder
<1>3. /\ b.queue \in [Levels -> [Sides -> Seq(Slots)]]
      /\ b.total \in [Levels -> [Sides -> 0 .. ShareSpan - 1]]
      /\ b.slots \in [Slots -> DrainedOrder \cup {NoOrder}]
      /\ \A t \in Slots \ {s} : b.slots[t] \in Order \cup {NoOrder}
      /\ b.free \in Seq(Slots)
      /\ b.index \in [Refs -> Slots \cup {NoSlot}]
      /\ b.best \in [Sides -> (0 .. PriceSpan - 1) \cup {NoPrice}]
  BY DEF SoundBut
<1>4. /\ \E k \in 1 .. Len(q) : q[k] = s
      /\ b.index[o.order_ref] = s
  <2>1. OrdersReachable(b)
    BY DEF SoundBut, BookCoherent
  <2> QED BY <2>1 DEF OrdersReachable
<1>5. q \in Seq(Slots) /\ Once(q)
  <2>1. QueuesSound(b)
    BY DEF SoundBut, BookCoherent
  <2>2. q \in Seq(Slots)
    BY <1>2, <1>3
  <2>3. ASSUME NEW i \in 1 .. Len(q), NEW j \in 1 .. Len(q), q[i] = q[j]
        PROVE  i = j
    <3> HIDE DEF o
    <3> QED BY ONLY <1>2, <2>1, <2>3, SMTT(20) DEF QueuesSound
  <2> QED BY <2>2, <2>3 DEF Once
<1> HIDE DEF o, c, q, u
<1>k. PICK k \in 1 .. Len(q) : q[k] = s
  BY <1>4
<1>6. u \in Seq(Slots) /\ Once(u) /\ AllBut(u, q, k)
  <2>1. u = Unlink(q, q[k])
    BY <1>k DEF u
  <2> QED BY <1>5, <2>1, UnlinkFacts
<1>7. /\ c.free \in Seq(Slots)
      /\ Len(c.free) = Len(b.free) + 1
      /\ c.free[1] = s
      /\ \A i \in 2 .. Len(b.free) + 1 : c.free[i] = b.free[i - 1]
      /\ Len(b.free) \in Nat
  BY <1>1, <1>3, PushFacts
<1>q. /\ c.queue \in [Levels -> [Sides -> Seq(Slots)]]
      /\ \A l \in Levels, d \in Sides :
           c.queue[l][d] = IF l = o.level /\ d = o.side
                           THEN u ELSE b.queue[l][d]
  <2>1. /\ c.queue = [b.queue EXCEPT ![o.level][o.side] = u]
        /\ b.queue \in [Levels -> [Sides -> Seq(Slots)]]
        /\ o.level \in Levels /\ o.side \in Sides /\ u \in Seq(Slots)
    BY <1>1, <1>2, <1>3, <1>6
  <2> QED BY ONLY <2>1, Except2
<1>s. /\ c.slots \in [Slots -> Order \cup {NoOrder}]
      /\ \A t \in Slots : c.slots[t] = IF t = s THEN NoOrder ELSE b.slots[t]
  BY <1>1, <1>3
<1>i. /\ c.index \in [Refs -> Slots \cup {NoSlot}]
      /\ \A r \in Refs : c.index[r] = IF r = o.order_ref
                                      THEN NoSlot ELSE b.index[r]
  BY <1>1, <1>2, <1>3
<1>8. c \in Book
  <2>1. b.total[o.level][o.side] - o.shares \in Int
    BY <1>2, <1>3
  <2>2. (b.total[o.level][o.side] - o.shares) % ShareSpan \in 0 .. ShareSpan - 1
    BY <2>1, ModType
  <2>3. c.total \in [Levels -> [Sides -> 0 .. ShareSpan - 1]]
    BY <1>1, <1>2, <1>3, <2>2, Except2
  <2>4. c.best \in [Sides -> (0 .. PriceSpan - 1) \cup {NoPrice}]
    BY <1>1, <1>3
  <2> QED BY <1>1, <1>7, <1>q, <1>s, <1>i, <2>3, <2>4 DEF Book
<1>9. FreeListSound(c)
  <2>1. \A i \in 1 .. Len(b.free) : b.free[i] # s /\ b.slots[b.free[i]] = NoOrder
    BY DEF SoundBut, BookCoherent, FreeListSound
  <2>2. \A i, j \in 1 .. Len(b.free) : b.free[i] = b.free[j] => i = j
    BY DEF SoundBut, BookCoherent, FreeListSound
  <2>3. \A i \in 1 .. Len(c.free) :
           \/ i = 1 /\ c.free[i] = s
           \/ i - 1 \in 1 .. Len(b.free) /\ c.free[i] = b.free[i - 1]
    BY <1>7
  <2>4. \A i \in 1 .. Len(c.free) : c.slots[c.free[i]] = NoOrder
    <3> SUFFICES ASSUME NEW i \in 1 .. Len(c.free)
                 PROVE  c.slots[c.free[i]] = NoOrder
      OBVIOUS
    <3>1. CASE i = 1 /\ c.free[i] = s
      BY <1>s, <3>1
    <3>2. CASE i - 1 \in 1 .. Len(b.free) /\ c.free[i] = b.free[i - 1]
      <4>1. b.free[i - 1] \in Slots /\ b.free[i - 1] # s
            /\ b.slots[b.free[i - 1]] = NoOrder
        BY <1>3, <2>1, <3>2
      <4> QED BY <1>s, <3>2, <4>1
    <3> QED BY <2>3, <3>1, <3>2
  <2>5. ASSUME NEW i \in 1 .. Len(c.free), NEW j \in 1 .. Len(c.free),
               c.free[i] = c.free[j]
        PROVE  i = j
    <3>1. \/ i = 1 /\ c.free[i] = s
          \/ i - 1 \in 1 .. Len(b.free) /\ c.free[i] = b.free[i - 1]
      BY <2>3
    <3>2. \/ j = 1 /\ c.free[j] = s
          \/ j - 1 \in 1 .. Len(b.free) /\ c.free[j] = b.free[j - 1]
      BY <2>3
    <3>3. CASE i = 1 \/ j = 1
      BY <2>1, <2>5, <3>1, <3>2, <3>3
    <3>4. CASE i # 1 /\ j # 1
      <4>1. i - 1 = j - 1
        BY <2>2, <2>5, <3>1, <3>2, <3>4
      <4> QED BY <1>7, <4>1
    <3> QED BY <3>3, <3>4
  <2> QED BY <2>4, <2>5 DEF FreeListSound
<1>10. NoSlotLeaks(c)
  <2> SUFFICES ASSUME NEW t \in Slots, c.slots[t] = NoOrder
               PROVE  \E i \in 1 .. Len(c.free) : c.free[i] = t
    BY DEF NoSlotLeaks
  <2>1. CASE t = s
    BY <2>1, <1>7
  <2>2. CASE t # s
    <3>1. PICK i \in 1 .. Len(b.free) : b.free[i] = t
      BY <1>s, <2>2 DEF SoundBut, BookCoherent, NoSlotLeaks
    <3>2. c.free[i + 1] = b.free[(i + 1) - 1] /\ i + 1 \in 1 .. Len(c.free)
      BY <1>7
    <3>3. (i + 1) - 1 = i
      BY <1>7
    <3> QED BY <3>1, <3>2, <3>3
  <2> QED BY <2>1, <2>2
<1>11. IndexSound(c)
  <2> SUFFICES ASSUME NEW r \in Refs, c.index[r] # NoSlot
               PROVE  /\ c.slots[c.index[r]] # NoOrder
                      /\ c.slots[c.index[r]].order_ref = r
    BY DEF IndexSound, Live, OrderOf
  <2>1. r # o.order_ref /\ c.index[r] = b.index[r] /\ b.index[r] \in Slots
    BY <1>i, <1>3
  <2>2. b.slots[b.index[r]] # NoOrder /\ b.slots[b.index[r]].order_ref = r
    BY <2>1 DEF SoundBut, BookCoherent, IndexSound, Live, OrderOf
  <2>3. b.index[r] # s
    BY <2>1, <2>2 DEF o
  <2> QED BY <1>s, <2>1, <2>2, <2>3
<1>12. OrdersReachable(c)
  <2> SUFFICES ASSUME NEW t \in Slots, c.slots[t] # NoOrder
               PROVE  /\ c.index[c.slots[t].order_ref] = t
                      /\ c.slots[t].level = LevelFor(c.slots[t].price)
                      /\ \E i \in 1 .. Len(c.queue[c.slots[t].level][c.slots[t].side]) :
                           c.queue[c.slots[t].level][c.slots[t].side][i] = t
    BY DEF OrdersReachable
  <2> DEFINE p == b.slots[t]
  <2>1. t # s /\ c.slots[t] = p /\ p # NoOrder
    BY <1>s
  <2>2. p.order_ref \in Refs /\ p.level \in Levels /\ p.side \in Sides
    BY <1>3, <2>1 DEF Order
  <2>3. /\ b.index[p.order_ref] = t
        /\ p.level = LevelFor(p.price)
        /\ \E i \in 1 .. Len(b.queue[p.level][p.side]) :
             b.queue[p.level][p.side][i] = t
    BY <2>1 DEF SoundBut, BookCoherent, OrdersReachable
  <2> HIDE DEF p
  <2>4. c.index[p.order_ref] = t
    BY <1>i, <1>4, <2>1, <2>2, <2>3
  <2>5. \E j \in 1 .. Len(c.queue[p.level][p.side]) :
           c.queue[p.level][p.side][j] = t
    <3>1. CASE p.level = o.level /\ p.side = o.side
      <4>1. c.queue[p.level][p.side] = u /\ b.queue[p.level][p.side] = q
        BY <1>q, <2>2, <3>1 DEF q
      <4>2. PICK i \in 1 .. Len(q) : q[i] = t
        BY <2>3, <4>1
      <4>3. i # k
        BY <1>k, <2>1, <4>2
      <4> QED BY <1>6, <4>1, <4>2, <4>3 DEF AllBut
    <3>2. CASE ~(p.level = o.level /\ p.side = o.side)
      BY <1>q, <2>2, <2>3, <3>2
    <3> QED BY <3>1, <3>2
  <2> QED BY <2>1, <2>3, <2>4, <2>5
<1>13. QueuesSound(c)
  <2> SUFFICES ASSUME NEW l \in Levels, NEW d \in Sides,
                      NEW i \in 1 .. Len(c.queue[l][d])
               PROVE  /\ c.slots[c.queue[l][d][i]] # NoOrder
                      /\ c.slots[c.queue[l][d][i]].level = l
                      /\ c.slots[c.queue[l][d][i]].side = d
                      /\ \A j \in 1 .. Len(c.queue[l][d]) :
                           c.queue[l][d][i] = c.queue[l][d][j] => i = j
    BY DEF QueuesSound
  <2> DEFINE w == b.queue[l][d]
  <2>1. /\ \A j \in 1 .. Len(w) :
             /\ b.slots[w[j]] # NoOrder
             /\ b.slots[w[j]].level = l
             /\ b.slots[w[j]].side = d
        /\ \A j, m \in 1 .. Len(w) : w[j] = w[m] => j = m
    BY DEF SoundBut, BookCoherent, QueuesSound
  <2>2. \A j \in 1 .. Len(w) : w[j] \in Slots
    BY <1>3
  <2>3. CASE l = o.level /\ d = o.side
    <3>1. c.queue[l][d] = u /\ w = q
      BY <1>q, <2>3 DEF q
    <3> HIDE DEF w
    <3>2. PICK m \in 1 .. Len(q) : m # k /\ u[i] = q[m]
      BY <1>6, <3>1 DEF AllBut
    <3>3. q[m] # s /\ q[m] \in Slots
      BY <1>k, <1>5, <2>2, <3>1, <3>2 DEF Once
    <3>4. c.queue[l][d][i] = q[m] /\ c.slots[q[m]] = b.slots[q[m]]
      BY <1>s, <3>1, <3>2, <3>3
    <3>5. /\ b.slots[q[m]] # NoOrder
          /\ b.slots[q[m]].level = l
          /\ b.slots[q[m]].side = d
      BY <2>1, <3>1
    <3>6. \A j \in 1 .. Len(u) : u[i] = u[j] => i = j
      BY <1>6, <3>1 DEF Once
    <3> QED BY <3>1, <3>4, <3>5, <3>6
  <2>4. CASE ~(l = o.level /\ d = o.side)
    <3>1. c.queue[l][d] = w
      BY <1>q, <2>4
    <3> HIDE DEF w
    <3>2. w[i] \in Slots /\ w[i] # s
      BY <2>1, <2>2, <2>4, <3>1 DEF o
    <3> QED BY <1>s, <2>1, <3>1, <3>2
  <2> QED BY <2>3, <2>4
<1> QED BY <1>8, <1>9, <1>10, <1>11, <1>12, <1>13 DEF Sound, BookCoherent, c

-----------------------------------------------------------------------------
(* The best of a set of prices. *)

(* A bounded set of natural numbers has a greatest element. *)
LEMMA NatMax ==
  ASSUME NEW n \in Nat, NEW T \in SUBSET (0 .. n), T # {}
  PROVE  \E x \in T : \A y \in T : x >= y
<1> DEFINE U == {n - x : x \in T}
<1>1. U \in SUBSET Nat /\ U # {}
  <2>1. \A x \in T : n - x \in Nat
    OBVIOUS
  <2>2. U \in SUBSET Nat
    BY <2>1
  <2>3. \E x \in T : n - x \in U
    OBVIOUS
  <2> QED BY <2>2, <2>3
<1>2. PICK u \in U : \A v \in U : u <= v
  <2> HIDE DEF U
  <2> QED BY <1>1, LeastNat
<1>3. PICK x \in T : u = n - x
  OBVIOUS
<1>4. \A y \in T : n - x <= n - y
  BY <1>2, <1>3
<1> HIDE DEF U
<1>5. ASSUME NEW y \in T PROVE x >= y
  <2>1. n \in Int /\ x \in Int /\ y \in Int
    <3>1. x \in 0 .. n /\ y \in 0 .. n
      OBVIOUS
    <3> QED BY ONLY <3>1, n \in Nat
  <2>2. n - x <= n - y
    BY <1>4
  <2> QED BY ONLY <2>1, <2>2
<1> QED BY <1>5

(* BestIn picks one of the prices (or flat slots) it is given, and none of *)
(* them ranks before it.                                                   *)
LEMMA BestInFacts ==
  ASSUME NEW n \in Nat, NEW T \in SUBSET (0 .. n), T # {}, NEW d \in Sides
  PROVE  /\ BestIn(d, T) \in T
         /\ \A y \in T : ~Better(d, y, BestIn(d, T))
<1>1. CASE d = "buy"
  <2>1. \E x \in T : \A y \in T : x >= y
    BY NatMax
  <2>2. BestIn(d, T) = CHOOSE x \in T : \A y \in T : x >= y
    BY <1>1 DEF BestIn, Max
  <2>3. PICK m \in T : m = BestIn(d, T) /\ \A y \in T : m >= y
    BY <2>1, <2>2
  <2>4. \A y \in T : ~(y > m)
    BY <2>3
  <2> QED BY <1>1, <2>3, <2>4 DEF Better
<1>2. CASE d = "sell"
  <2>1. \E x \in T : \A y \in T : x <= y
    <3>1. T \in SUBSET Nat
      OBVIOUS
    <3> QED BY <3>1, LeastNat
  <2>2. BestIn(d, T) = CHOOSE x \in T : \A y \in T : x <= y
    BY <1>2 DEF BestIn, Min
  <2>3. PICK m \in T : m = BestIn(d, T) /\ \A y \in T : m <= y
    BY <2>1, <2>2
  <2>4. \A y \in T : ~(y < m)
    BY <2>3
  <2> QED BY <1>2, <2>3, <2>4 DEF Better
<1> QED BY <1>1, <1>2 DEF Sides

(* The scan of the levels answers a price of the 32-bit range, or none. *)
LEMMA ScanType ==
  ASSUME NEW b, NEW d \in Sides, NEW within \in SUBSET (0 .. PriceSpan - 1)
  PROVE  ScanLevels(b, d, within) \in (0 .. PriceSpan - 1) \cup {NoPrice}
<1> DEFINE flat == {i \in FlatSlots : /\ b.total[<<"flat", i>>][d] > 0
                                      /\ FlatPrice(i) \in within}
           inFlat == IF flat = {} THEN NoPrice ELSE FlatPrice(BestIn(d, flat))
           outs == {p \in Outliers \cap within :
                      b.total[<<"outlier", p>>][d] > 0}
           T == (0 .. PriceSpan - 1) \cup {NoPrice}
<1>1. inFlat \in T
  <2>1. CASE flat = {}
    BY <2>1
  <2>2. CASE flat # {}
    <3>1. flat \in SUBSET (0 .. 2 * HalfWidth) /\ 2 * HalfWidth \in Nat
      BY PriceAssumption DEF FlatSlots
    <3> HIDE DEF flat
    <3>2. BestIn(d, flat) \in flat
      BY <2>2, <3>1, BestInFacts
    <3>3. FlatPrice(BestIn(d, flat)) \in within
      BY <3>2 DEF flat
    <3> QED BY <2>2, <3>3
  <2> QED BY <2>1, <2>2
<1>2. BestIn(d, outs) \in T
  <2>1. CASE outs = {}
    BY <2>1 DEF BestIn
  <2>2. CASE outs # {}
    <3>1. PriceSpan - 1 \in Nat
      BY PriceAssumption
    <3>3. outs \in SUBSET (0 .. PriceSpan - 1)
      <4> HIDE DEF T
      <4> QED OBVIOUS
    <3> HIDE DEF outs
    <3>2. BestIn(d, outs) \in outs
      BY <2>2, <3>1, <3>3, BestInFacts
    <3> QED BY <3>2, <3>3
  <2> QED BY <2>1, <2>2
<1>3. ScanLevels(b, d, within) = BetterOf(d, inFlat, BestIn(d, outs))
  BY DEF ScanLevels
<1> HIDE DEF inFlat, outs, T
<1>4. BetterOf(d, inFlat, BestIn(d, outs)) \in {inFlat, BestIn(d, outs)}
  BY DEF BetterOf
<1> QED BY <1>1, <1>2, <1>3, <1>4 DEF T

(* The cached best prices are no part of a book's coherence. *)
LEMMA BestIsFree ==
  ASSUME NEW b, Sound(b), NEW d \in Sides,
         NEW v \in (0 .. PriceSpan - 1) \cup {NoPrice}
  PROVE  Sound([b EXCEPT !.best[d] = v])
<1> DEFINE c == [b EXCEPT !.best[d] = v]
<1>1. /\ c \in Book
      /\ c.queue = b.queue /\ c.slots = b.slots
      /\ c.free = b.free /\ c.index = b.index
  BY DEF Sound, Book
<1>2. BookCoherent(b)
  BY DEF Sound
<1> HIDE DEF c
<1>3. FreeListSound(c) /\ NoSlotLeaks(c) /\ IndexSound(c)
  BY <1>1, <1>2 DEF BookCoherent, FreeListSound, NoSlotLeaks, IndexSound,
                    Live, OrderOf
<1>4. OrdersReachable(c)
  <2>1. OrdersReachable(b)
    BY <1>2 DEF BookCoherent
  <2> QED BY ONLY <1>1, <2>1, ZenonT(30) DEF OrdersReachable
<1>5. QueuesSound(c)
  BY <1>1, <1>2 DEF BookCoherent, QueuesSound
<1>6. Sound(c)
  BY <1>1, <1>3, <1>4, <1>5 DEF Sound, BookCoherent
<1> QED BY <1>6 DEF c

-----------------------------------------------------------------------------
(* Adding an order. *)

(* The order that add_order writes into the slot it has acquired. *)
NewOrder(ref, price, shares, d, trader) ==
  [order_ref |-> ref, price |-> price, shares |-> shares, side |-> d,
   trader_id |-> trader, level |-> LevelFor(price)]

(* It has the type of an order and names the level of its price. *)
LEMMA NewOrderType ==
  ASSUME NEW ref \in Refs, NEW price \in Prices, NEW d \in Sides,
         NEW shares \in 1 .. ShareSpan - 1, NEW trader \in Traders,
         NEW o, o = NewOrder(ref, price, shares, d, trader)
  PROVE  /\ o \in Order
         /\ o.order_ref = ref /\ o.side = d
         /\ o.level = LevelFor(o.price)
BY LevelForType DEF NewOrder, Order

(* An order is not an empty slot. *)
LEMMA OrderIsNotEmpty ==
  ASSUME NEW o \in Order
  PROVE  o # NoOrder
<1>1. o.level \in Levels
  BY DEF Order
<1>2. NoOrder.level = NoLevel
  BY DEF NoOrder
<1> QED BY <1>1, <1>2, LevelIsNotNull

(* What acquiring the head of the free list does to it. *)
LEMMA PopFacts ==
  ASSUME NEW f \in Seq(Slots), f # <<>>
  PROVE  /\ Head(f) \in Slots /\ Head(f) = f[1] /\ 1 \in 1 .. Len(f)
         /\ Tail(f) \in Seq(Slots)
         /\ Len(Tail(f)) = Len(f) - 1
         /\ \A i \in 1 .. Len(Tail(f)) : /\ i + 1 \in 1 .. Len(f)
                                         /\ Tail(f)[i] = f[i + 1]
         /\ \A i \in 2 .. Len(f) : /\ i - 1 \in 1 .. Len(Tail(f))
                                   /\ Tail(f)[i - 1] = f[i]
         /\ Len(f) \in Nat
OBVIOUS

(* What appending a node does to a queue. *)
LEMMA AppendFacts ==
  ASSUME NEW q \in Seq(Slots), NEW s \in Slots, NEW a, a = Append(q, s)
  PROVE  /\ a \in Seq(Slots) /\ Len(a) = Len(q) + 1 /\ Len(q) \in Nat
         /\ Len(a) \in 1 .. Len(a) /\ a[Len(a)] = s
         /\ \A i \in 1 .. Len(q) : i \in 1 .. Len(a) /\ a[i] = q[i]
         /\ \A i \in 1 .. Len(a) : i \in 1 .. Len(q) \/ i = Len(a)
OBVIOUS

(* add_order before the index insert, and after it. *)
Linked(b, o) == Link(Acquire(b, Head(b.free), o), Head(b.free), o)

Joined(b, o) == [Linked(b, o) EXCEPT !.index[o.order_ref] = Head(b.free)]

(* The effect of linking and indexing an order on each member. *)
LEMMA JoinedFields ==
  ASSUME NEW b, Sound(b), b.free # <<>>, NEW o \in Order,
         NEW s, s = Head(b.free), NEW c, c = Joined(b, o)
  PROVE  c = [queue |-> [b.queue EXCEPT ![o.level][o.side] = Append(@, s)],
              total |-> [b.total EXCEPT ![o.level][o.side] =
                           (@ + o.shares) % ShareSpan],
              slots |-> [b.slots EXCEPT ![s] = o],
              free  |-> Tail(b.free),
              index |-> [b.index EXCEPT ![o.order_ref] = s],
              best  |-> b.best]
BY DEF Sound, Book, Joined, Linked, Acquire, Link

(* Linking and indexing a new order in a free slot leaves a sound book.    *)
LEMMA JoinedSound ==
  ASSUME NEW b, Sound(b), b.free # <<>>, NEW o \in Order,
         o.level = LevelFor(o.price), ~Live(b, o.order_ref)
  PROVE  Sound(Joined(b, o))
<1> DEFINE s == Head(b.free)
           c == Joined(b, o)
           q == b.queue[o.level][o.side]
           a == Append(q, s)
<1>c. c = [queue |-> [b.queue EXCEPT ![o.level][o.side] = Append(@, s)],
           total |-> [b.total EXCEPT ![o.level][o.side] =
                        (@ + o.shares) % ShareSpan],
           slots |-> [b.slots EXCEPT ![s] = o],
           free  |-> Tail(b.free),
           index |-> [b.index EXCEPT ![o.order_ref] = s],
           best  |-> b.best]
  BY JoinedFields
<1>1. /\ c.queue = [b.queue EXCEPT ![o.level][o.side] = a]
      /\ c.total = [b.total EXCEPT ![o.level][o.side] =
                      (b.total[o.level][o.side] + o.shares) % ShareSpan]
      /\ c.slots = [b.slots EXCEPT ![s] = o]
      /\ c.free = Tail(b.free)
      /\ c.index = [b.index EXCEPT ![o.order_ref] = s]
      /\ c.best = b.best
      /\ c \in [queue : {c.queue}, total : {c.total}, slots : {c.slots},
                free : {c.free}, index : {c.index}, best : {c.best}]
  <2> HIDE DEF c
  <2> QED BY <1>c
<1>2. /\ o.level \in Levels /\ o.side \in Sides /\ o.order_ref \in Refs
      /\ o.shares \in Int
  BY ShareAssumption DEF Order
<1>3. /\ b.queue \in [Levels -> [Sides -> Seq(Slots)]]
      /\ b.total \in [Levels -> [Sides -> 0 .. ShareSpan - 1]]
      /\ b.slots \in [Slots -> Order \cup {NoOrder}]
      /\ b.free \in Seq(Slots)
      /\ b.index \in [Refs -> Slots \cup {NoSlot}]
      /\ b.best \in [Sides -> (0 .. PriceSpan - 1) \cup {NoPrice}]
  BY DEF Sound, Book
<1>4. o # NoOrder
  BY OrderIsNotEmpty
<1>5. /\ s \in Slots /\ s = b.free[1] /\ 1 \in 1 .. Len(b.free)
      /\ c.free \in Seq(Slots)
      /\ \A i \in 1 .. Len(c.free) : /\ i + 1 \in 1 .. Len(b.free)
                                     /\ c.free[i] = b.free[i + 1]
      /\ \A i \in 2 .. Len(b.free) : /\ i - 1 \in 1 .. Len(c.free)
                                     /\ c.free[i - 1] = b.free[i]
  BY <1>1, <1>3, PopFacts
<1>6. b.slots[s] = NoOrder /\ Once(b.free)
  BY <1>5 DEF Sound, BookCoherent, FreeListSound, Once
<1>7. q \in Seq(Slots)
  BY <1>2, <1>3
<1>8. b.index[o.order_ref] = NoSlot /\ NoSlot \notin Slots
  BY CapacityAssumption DEF Live, NoSlot, Slots
<1> HIDE DEF s, c, q, a
<1>a. /\ a \in Seq(Slots)
      /\ Len(a) \in 1 .. Len(a) /\ a[Len(a)] = s
      /\ \A i \in 1 .. Len(q) : i \in 1 .. Len(a) /\ a[i] = q[i]
      /\ \A i \in 1 .. Len(a) : i \in 1 .. Len(q) \/ i = Len(a)
  <2>1. a = Append(q, s)
    BY DEF a
  <2> QED BY <1>5, <1>7, <2>1, AppendFacts
<1>q. /\ c.queue \in [Levels -> [Sides -> Seq(Slots)]]
      /\ \A l \in Levels, d \in Sides :
           c.queue[l][d] = IF l = o.level /\ d = o.side
                           THEN a ELSE b.queue[l][d]
  BY <1>1, <1>2, <1>3, <1>a, Except2
<1>s. /\ c.slots \in [Slots -> Order \cup {NoOrder}]
      /\ \A t \in Slots : c.slots[t] = IF t = s THEN o ELSE b.slots[t]
  BY <1>1, <1>3, <1>5
<1>i. /\ c.index \in [Refs -> Slots \cup {NoSlot}]
      /\ \A r \in Refs : c.index[r] = IF r = o.order_ref THEN s ELSE b.index[r]
  BY <1>1, <1>2, <1>3, <1>5
<1>9. c \in Book
  <2>1. b.total[o.level][o.side] + o.shares \in Int
    BY <1>2, <1>3
  <2>2. (b.total[o.level][o.side] + o.shares) % ShareSpan \in 0 .. ShareSpan - 1
    BY <2>1, ModType
  <2>3. c.total \in [Levels -> [Sides -> 0 .. ShareSpan - 1]]
    BY <1>1, <1>2, <1>3, <2>2, Except2
  <2>4. c.best \in [Sides -> (0 .. PriceSpan - 1) \cup {NoPrice}]
    BY <1>1, <1>3
  <2> QED BY <1>1, <1>5, <1>q, <1>s, <1>i, <2>3, <2>4 DEF Book
<1>10. FreeListSound(c)
  <2>1. ASSUME NEW i \in 1 .. Len(c.free)
        PROVE  c.slots[c.free[i]] = NoOrder
    <3>1. c.free[i] = b.free[i + 1] /\ i + 1 \in 1 .. Len(b.free) /\ i + 1 # 1
      BY <1>5
    <3>2. c.free[i] # s
      BY <1>5, <1>6, <3>1 DEF Once
    <3>3. b.slots[b.free[i + 1]] = NoOrder /\ b.free[i + 1] \in Slots
      BY <1>3, <3>1 DEF Sound, BookCoherent, FreeListSound
    <3> QED BY <1>s, <3>1, <3>2, <3>3
  <2>2. ASSUME NEW i \in 1 .. Len(c.free), NEW j \in 1 .. Len(c.free),
               c.free[i] = c.free[j]
        PROVE  i = j
    <3>1. /\ c.free[i] = b.free[i + 1] /\ i + 1 \in 1 .. Len(b.free)
          /\ c.free[j] = b.free[j + 1] /\ j + 1 \in 1 .. Len(b.free)
      BY <1>5
    <3>2. i + 1 = j + 1
      BY <1>6, <2>2, <3>1 DEF Once
    <3> QED BY <3>2
  <2> QED BY <2>1, <2>2 DEF FreeListSound
<1>11. NoSlotLeaks(c)
  <2> SUFFICES ASSUME NEW t \in Slots, c.slots[t] = NoOrder
               PROVE  \E i \in 1 .. Len(c.free) : c.free[i] = t
    BY DEF NoSlotLeaks
  <2>1. t # s /\ b.slots[t] = NoOrder
    BY <1>4, <1>s
  <2>2. PICK i \in 1 .. Len(b.free) : b.free[i] = t
    BY <2>1 DEF Sound, BookCoherent, NoSlotLeaks
  <2>3. i \in 2 .. Len(b.free)
    BY <1>5, <2>1, <2>2
  <2> QED BY <1>5, <2>2, <2>3
<1>12. IndexSound(c)
  <2> SUFFICES ASSUME NEW r \in Refs, c.index[r] # NoSlot
               PROVE  /\ c.slots[c.index[r]] # NoOrder
                      /\ c.slots[c.index[r]].order_ref = r
    BY DEF IndexSound, Live, OrderOf
  <2>1. CASE r = o.order_ref
    BY <1>4, <1>5, <1>s, <1>i, <2>1
  <2>2. CASE r # o.order_ref
    <3>1. c.index[r] = b.index[r] /\ b.index[r] \in Slots
      BY <1>i, <1>3, <2>2
    <3>2. b.slots[b.index[r]] # NoOrder /\ b.slots[b.index[r]].order_ref = r
      BY <1>8, <3>1 DEF Sound, BookCoherent, IndexSound, Live, OrderOf
    <3>3. b.index[r] # s
      BY <1>6, <3>2
    <3> QED BY <1>s, <3>1, <3>2, <3>3
  <2> QED BY <2>1, <2>2
<1>13. OrdersReachable(c)
  <2> SUFFICES ASSUME NEW t \in Slots, c.slots[t] # NoOrder
               PROVE  /\ c.index[c.slots[t].order_ref] = t
                      /\ c.slots[t].level = LevelFor(c.slots[t].price)
                      /\ \E i \in 1 .. Len(c.queue[c.slots[t].level][c.slots[t].side]) :
                           c.queue[c.slots[t].level][c.slots[t].side][i] = t
    BY DEF OrdersReachable
  <2>1. CASE t = s
    <3>1. c.slots[t] = o /\ c.index[o.order_ref] = s
          /\ c.queue[o.level][o.side] = a
      BY <1>2, <1>q, <1>s, <1>i, <2>1
    <3> QED BY <1>a, <2>1, <3>1
  <2>2. CASE t # s
    <3> DEFINE p == b.slots[t]
    <3>1. c.slots[t] = p /\ p # NoOrder
      BY <1>s, <2>2
    <3>2. p.order_ref \in Refs /\ p.level \in Levels /\ p.side \in Sides
      BY <1>3, <3>1 DEF Order
    <3>3. /\ b.index[p.order_ref] = t
          /\ p.level = LevelFor(p.price)
          /\ \E i \in 1 .. Len(b.queue[p.level][p.side]) :
               b.queue[p.level][p.side][i] = t
      BY <3>1 DEF Sound, BookCoherent, OrdersReachable
    <3> HIDE DEF p
    <3>4. c.index[p.order_ref] = t
      BY <1>8, <1>i, <3>2, <3>3
    <3>5. \E j \in 1 .. Len(c.queue[p.level][p.side]) :
             c.queue[p.level][p.side][j] = t
      <4>1. CASE p.level = o.level /\ p.side = o.side
        <5>1. c.queue[p.level][p.side] = a /\ b.queue[p.level][p.side] = q
          BY <1>q, <3>2, <4>1 DEF q
        <5>2. PICK i \in 1 .. Len(q) : q[i] = t
          BY <3>3, <5>1
        <5> QED BY <1>a, <5>1, <5>2
      <4>2. CASE ~(p.level = o.level /\ p.side = o.side)
        BY <1>q, <3>2, <3>3, <4>2
      <4> QED BY <4>1, <4>2
    <3> QED BY <3>1, <3>3, <3>4, <3>5
  <2> QED BY <2>1, <2>2
<1>14. QueuesSound(c)
  <2> SUFFICES ASSUME NEW l \in Levels, NEW d \in Sides,
                      NEW i \in 1 .. Len(c.queue[l][d])
               PROVE  /\ c.slots[c.queue[l][d][i]] # NoOrder
                      /\ c.slots[c.queue[l][d][i]].level = l
                      /\ c.slots[c.queue[l][d][i]].side = d
                      /\ \A j \in 1 .. Len(c.queue[l][d]) :
                           c.queue[l][d][i] = c.queue[l][d][j] => i = j
    BY DEF QueuesSound
  <2> DEFINE w == b.queue[l][d]
  <2>1. /\ \A j \in 1 .. Len(w) :
             /\ b.slots[w[j]] # NoOrder
             /\ b.slots[w[j]].level = l
             /\ b.slots[w[j]].side = d
        /\ \A j, m \in 1 .. Len(w) : w[j] = w[m] => j = m
    <3>1. QueuesSound(b)
      BY DEF Sound, BookCoherent
    <3> QED BY ONLY <3>1, l \in Levels, d \in Sides, SMTT(20) DEF QueuesSound
  <2>w. w \in Seq(Slots)
    BY <1>3
  <2>2. \A j \in 1 .. Len(w) : w[j] \in Slots /\ w[j] # s
    <3> HIDE DEF w
    <3>1. \A j \in 1 .. Len(w) : w[j] \in Slots
      BY <2>w
    <3> QED BY <1>6, <2>1, <3>1
  <2>3. \A j \in 1 .. Len(w) : c.slots[w[j]] = b.slots[w[j]]
    <3> HIDE DEF w
    <3> QED BY <1>s, <2>2
  <2>4. CASE l = o.level /\ d = o.side
    <3>1. c.queue[l][d] = a /\ w = q
      BY <1>q, <2>4 DEF q
    <3> HIDE DEF w
    <3>2. CASE i \in 1 .. Len(q)
      <4>1. a[i] = q[i]
        BY <1>a, <3>2
      <4>2. \A j \in 1 .. Len(a) : a[i] = a[j] => i = j
        BY <1>a, <2>1, <2>2, <3>1, <3>2
      <4> QED BY <2>1, <2>3, <3>1, <3>2, <4>1, <4>2
    <3>3. CASE i = Len(a) /\ i \notin 1 .. Len(q)
      <4>1. a[i] = s /\ c.slots[s] = o
        BY <1>a, <1>5, <1>s, <3>3
      <4>2. \A j \in 1 .. Len(a) : a[i] = a[j] => i = j
        BY <1>a, <2>2, <3>1, <3>3, <4>1
      <4> QED BY <1>4, <2>4, <3>1, <4>1, <4>2
    <3> QED BY <1>a, <3>1, <3>2, <3>3
  <2>5. CASE ~(l = o.level /\ d = o.side)
    <3>1. c.queue[l][d] = w
      BY <1>q, <2>5
    <3> HIDE DEF w
    <3> QED BY <2>1, <2>3, <3>1
  <2> QED BY <2>4, <2>5
<1> QED BY <1>9, <1>10, <1>11, <1>12, <1>13, <1>14 DEF Sound, BookCoherent, c

(* Subtracting what was just added restores a counter, wrapped or not. *)
LEMMA ModUndo ==
  ASSUME NEW x \in 0 .. ShareSpan - 1, NEW n \in 0 .. ShareSpan - 1
  PROVE  (((x + n) % ShareSpan) - n) % ShareSpan = x
<1>1. ShareSpan \in Nat /\ ShareSpan > 0 /\ x \in Nat /\ n \in Nat
  BY ShareAssumption
<1>2. CASE x + n < ShareSpan
  <2>1. (x + n) % ShareSpan = x + n
    BY <1>1, <1>2
  <2>2. (x + n) - n = x
    BY <1>1
  <2> QED BY <1>1, <2>1, <2>2
<1>3. CASE x + n >= ShareSpan
  <2>1. (x + n) % ShareSpan = x + n - ShareSpan
    BY <1>1, <1>3
  <2>2. (x + n - ShareSpan) - n = x - ShareSpan
    BY <1>1
  <2>3. (x - ShareSpan) % ShareSpan = x
    BY <1>1
  <2> QED BY <2>1, <2>2, <2>3
<1> QED BY <1>1, <1>2, <1>3

(* Unlinking the node that was just appended restores the queue. *)
LEMMA UnlinkUndo ==
  ASSUME NEW q \in Seq(Slots), NEW s \in Slots,
         \A i \in 1 .. Len(q) : q[i] # s
  PROVE  Unlink(Append(q, s), s) = q
<1> DEFINE a == Append(q, s)
<1>1. /\ a \in Seq(Slots) /\ Len(a) = Len(q) + 1 /\ Len(q) \in Nat
      /\ Len(a) \in 1 .. Len(a) /\ a[Len(a)] = s
      /\ \A i \in 1 .. Len(q) : i \in 1 .. Len(a) /\ a[i] = q[i]
      /\ \A i \in 1 .. Len(a) : i \in 1 .. Len(q) \/ i = Len(a)
  BY AppendFacts
<1> HIDE DEF a
<1>2. (CHOOSE k \in 1 .. Len(a) : a[k] = s) = Len(a)
  BY <1>1
<1>3. Unlink(a, s) = [i \in 1 .. Len(a) - 1 |->
                        IF i < Len(a) THEN a[i] ELSE a[i + 1]]
  BY <1>2 DEF Unlink
<1>4. Len(a) - 1 = Len(q)
  BY <1>1
<1>5. Unlink(a, s) = [i \in 1 .. Len(q) |-> q[i]]
  BY <1>1, <1>3, <1>4
<1> QED BY <1>5 DEF a

(* A free slot is in no queue. *)
LEMMA FreeIsUnqueued ==
  ASSUME NEW b, Sound(b), NEW s \in Slots, b.slots[s] = NoOrder,
         NEW l \in Levels, NEW d \in Sides
  PROVE  \A i \in 1 .. Len(b.queue[l][d]) : b.queue[l][d][i] # s
BY DEF Sound, BookCoherent, QueuesSound

(* The effect of acquiring a slot and linking the order in it. *)
LEMMA LinkedFields ==
  ASSUME NEW b, Sound(b), NEW o, NEW s, s = Head(b.free),
         NEW c, c = Linked(b, o)
  PROVE  c = [queue |-> [b.queue EXCEPT ![o.level][o.side] = Append(@, s)],
              total |-> [b.total EXCEPT ![o.level][o.side] =
                           (@ + o.shares) % ShareSpan],
              slots |-> [b.slots EXCEPT ![s] = o],
              free  |-> Tail(b.free), index |-> b.index, best |-> b.best]
BY DEF Sound, Book, Linked, Acquire, Link

(* The effect of unlinking an order and releasing its slot. *)
LEMMA UnlinkedFields ==
  ASSUME NEW k, NEW o, NEW s \in Slots, NEW c, c = Release(Delink(k, s, o), s),
         k \in [queue : [Levels -> [Sides -> Seq(Slots)]],
                total : [Levels -> [Sides -> 0 .. ShareSpan - 1]],
                slots : [Slots -> Order \cup {NoOrder}],
                free : Seq(Slots), index : {k.index}, best : {k.best}],
         o.level \in Levels, o.side \in Sides
  PROVE  c = [queue |-> [k.queue EXCEPT ![o.level][o.side] = Unlink(@, s)],
              total |-> [k.total EXCEPT ![o.level][o.side] =
                           (@ - o.shares) % ShareSpan],
              slots |-> [k.slots EXCEPT ![s] = NoOrder],
              free  |-> <<s>> \o k.free, index |-> k.index, best |-> k.best]
BY DEF Release, Delink

(* The rollback of add_order, run when the index refuses the new order,    *)
(* restores every member of the book: the queue, the wrapped total, the    *)
(* slot and the place of the slot at the head of the free list.            *)
THEOREM RollbackRestores ==
  ASSUME NEW b, Sound(b), b.free # <<>>, NEW o \in Order,
         NEW s, s = Head(b.free)
  PROVE  Release(Delink(Linked(b, o), s, o), s) = b
<1> DEFINE q == b.queue[o.level][o.side]
           t == b.total[o.level][o.side]
           k == Linked(b, o)
           c == Release(Delink(k, s, o), s)
<1>1. /\ b.queue \in [Levels -> [Sides -> Seq(Slots)]]
      /\ b.total \in [Levels -> [Sides -> 0 .. ShareSpan - 1]]
      /\ b.slots \in [Slots -> Order \cup {NoOrder}]
      /\ b.free \in Seq(Slots)
      /\ b = [queue |-> b.queue, total |-> b.total, slots |-> b.slots,
              free |-> b.free, index |-> b.index, best |-> b.best]
  BY DEF Sound, Book
<1>2. /\ o.level \in Levels /\ o.side \in Sides
      /\ o.shares \in 0 .. ShareSpan - 1
  BY ShareAssumption DEF Order
<1>3. s \in Slots /\ s = b.free[1] /\ 1 \in 1 .. Len(b.free)
  BY <1>1, PopFacts
<1>4. b.slots[s] = NoOrder
  BY <1>3 DEF Sound, BookCoherent, FreeListSound
<1>5. Unlink(Append(q, s), s) = q
  <2>1. q \in Seq(Slots)
    BY <1>1, <1>2
  <2>2. \A i \in 1 .. Len(q) : q[i] # s
    BY <1>2, <1>3, <1>4, FreeIsUnqueued
  <2> HIDE DEF q
  <2> QED BY <1>3, <2>1, <2>2, UnlinkUndo
<1>6. (((t + o.shares) % ShareSpan) - o.shares) % ShareSpan = t
  <2>1. t \in 0 .. ShareSpan - 1
    BY <1>1, <1>2
  <2> QED BY <1>2, <2>1, ModUndo
<1>7. <<s>> \o Tail(b.free) = b.free
  BY <1>1, <1>3
<1>8. k = [queue |-> [b.queue EXCEPT ![o.level][o.side] = Append(@, s)],
           total |-> [b.total EXCEPT ![o.level][o.side] =
                        (@ + o.shares) % ShareSpan],
           slots |-> [b.slots EXCEPT ![s] = o],
           free  |-> Tail(b.free), index |-> b.index, best |-> b.best]
  BY LinkedFields
<1>9. /\ k.queue = [b.queue EXCEPT ![o.level][o.side] = Append(q, s)]
      /\ k.total = [b.total EXCEPT ![o.level][o.side] =
                      (t + o.shares) % ShareSpan]
      /\ k.slots = [b.slots EXCEPT ![s] = o]
      /\ k.free = Tail(b.free) /\ k.index = b.index /\ k.best = b.best
      /\ k = [queue |-> k.queue, total |-> k.total, slots |-> k.slots,
              free |-> k.free, index |-> k.index, best |-> k.best]
  <2> HIDE DEF k
  <2> QED BY <1>8
<1> HIDE DEF k, q, t
<1>10. /\ k.queue[o.level][o.side] = Append(q, s)
       /\ k.total[o.level][o.side] = (t + o.shares) % ShareSpan
  BY <1>1, <1>2, <1>9
<1>11. c = [queue |-> [k.queue EXCEPT ![o.level][o.side] = Unlink(@, s)],
            total |-> [k.total EXCEPT ![o.level][o.side] =
                         (@ - o.shares) % ShareSpan],
            slots |-> [k.slots EXCEPT ![s] = NoOrder],
            free  |-> <<s>> \o k.free, index |-> k.index, best |-> k.best]
  <2>1. Append(q, s) \in Seq(Slots) /\ Tail(b.free) \in Seq(Slots)
    <3>1. q \in Seq(Slots)
      BY <1>1, <1>2 DEF q
    <3> QED BY <1>1, <1>3, <3>1, PopFacts, AppendFacts
  <2>2. (t + o.shares) % ShareSpan \in 0 .. ShareSpan - 1
    <3>1. t + o.shares \in Int
      BY <1>1, <1>2 DEF t
    <3> QED BY <3>1, ModType
  <2>3. k.queue \in [Levels -> [Sides -> Seq(Slots)]]
    BY <1>1, <1>2, <1>9, <2>1, Except2
  <2>4. k.total \in [Levels -> [Sides -> 0 .. ShareSpan - 1]]
    BY <1>1, <1>2, <1>9, <2>2, Except2
  <2>5. k.slots \in [Slots -> Order \cup {NoOrder}] /\ k.free \in Seq(Slots)
    BY <1>1, <1>3, <1>9, <2>1
  <2>6. k \in [queue : [Levels -> [Sides -> Seq(Slots)]],
               total : [Levels -> [Sides -> 0 .. ShareSpan - 1]],
               slots : [Slots -> Order \cup {NoOrder}],
               free : Seq(Slots), index : {k.index}, best : {k.best}]
    BY <1>9, <2>3, <2>4, <2>5
  <2> QED BY <1>2, <1>3, <2>6, UnlinkedFields
<1>c. /\ c.queue = [k.queue EXCEPT ![o.level][o.side] =
                      Unlink(k.queue[o.level][o.side], s)]
      /\ c.total = [k.total EXCEPT ![o.level][o.side] =
                      (k.total[o.level][o.side] - o.shares) % ShareSpan]
      /\ c.slots = [k.slots EXCEPT ![s] = NoOrder]
      /\ c.free = <<s>> \o k.free /\ c.index = k.index /\ c.best = k.best
      /\ c = [queue |-> c.queue, total |-> c.total, slots |-> c.slots,
              free |-> c.free, index |-> c.index, best |-> c.best]
  <2> HIDE DEF c
  <2> QED BY <1>11
<1> HIDE DEF c
<1>12. c.queue = b.queue
  <2> DEFINE v == Append(q, s)
             T == Seq(Slots)
  <2>1. k.queue = [b.queue EXCEPT ![o.level][o.side] = v]
    BY <1>9
  <2>2. Unlink(k.queue[o.level][o.side], s) = b.queue[o.level][o.side]
    BY <1>5, <1>10 DEF q
  <2>3. c.queue = [k.queue EXCEPT ![o.level][o.side] =
                     b.queue[o.level][o.side]]
    BY <1>c, <2>2
  <2>4. b.queue \in [Levels -> [Sides -> T]]
    BY <1>1
  <2> HIDE DEF v, T
  <2> QED BY ONLY <1>2, <2>1, <2>3, <2>4, ExceptUndo
<1>13. c.total = b.total
  <2>1. k.total = [b.total EXCEPT ![o.level][o.side] =
                     (t + o.shares) % ShareSpan]
    BY <1>9
  <2>2. (k.total[o.level][o.side] - o.shares) % ShareSpan
          = b.total[o.level][o.side]
    BY <1>6, <1>10 DEF t
  <2>3. c.total = [k.total EXCEPT ![o.level][o.side] =
                     b.total[o.level][o.side]]
    BY <1>c, <2>2
  <2>4. b.total \in [Levels -> [Sides -> 0 .. ShareSpan - 1]]
    BY <1>1
  <2> DEFINE v == (t + o.shares) % ShareSpan
             T == 0 .. ShareSpan - 1
  <2>5. k.total = [b.total EXCEPT ![o.level][o.side] = v]
    BY <2>1
  <2>6. b.total \in [Levels -> [Sides -> T]]
    BY <2>4
  <2> HIDE DEF v, T
  <2> QED BY ONLY <1>2, <2>3, <2>5, <2>6, ExceptUndo
<1>14. c.slots = b.slots
  BY <1>1, <1>3, <1>4, <1>9, <1>c
<1>15. c = b
  BY <1>1, <1>7, <1>9, <1>c, <1>12, <1>13, <1>14
<1> QED BY <1>15 DEF c, k

-----------------------------------------------------------------------------
(* The other operations. *)

(* A live reference points at an order. *)
LEMMA LiveOrder ==
  ASSUME NEW b, Sound(b), NEW ref \in Refs, Live(b, ref),
         NEW s, s = b.index[ref], NEW o, o = b.slots[s]
  PROVE  /\ s \in Slots /\ o # NoOrder /\ o \in Order
         /\ o.order_ref = ref
<1>1. b.index \in [Refs -> Slots \cup {NoSlot}]
      /\ b.slots \in [Slots -> Order \cup {NoOrder}]
  BY DEF Sound, Book
<1>2. s \in Slots
  BY <1>1 DEF Live
<1>3. o # NoOrder /\ o.order_ref = ref
  BY DEF Sound, BookCoherent, IndexSound, OrderOf
<1> QED BY <1>1, <1>2, <1>3

(* reduce_shares before it looks whether the order is drained. *)
Reduced(b, s, delta) ==
  [b EXCEPT !.slots[s].shares = @ - delta,
            !.total[b.slots[s].level][b.slots[s].side] = (@ - delta) % ShareSpan]

(* Taking shares from an order leaves everything in its place. *)
LEMMA ReducedSound ==
  ASSUME NEW b, Sound(b), NEW s \in Slots, NEW o, o = b.slots[s], o \in Order,
         NEW delta \in 1 .. o.shares, NEW c, c = Reduced(b, s, delta)
  PROVE  /\ SoundBut(c, s)
         /\ c.slots[s] # NoOrder
         /\ delta # o.shares => Sound(c)
<1> DEFINE n == [o EXCEPT !.shares = o.shares - delta]
<1>1. /\ b.queue \in [Levels -> [Sides -> Seq(Slots)]]
      /\ b.total \in [Levels -> [Sides -> 0 .. ShareSpan - 1]]
      /\ b.slots \in [Slots -> Order \cup {NoOrder}]
      /\ b.free \in Seq(Slots)
      /\ b.index \in [Refs -> Slots \cup {NoSlot}]
      /\ b.best \in [Sides -> (0 .. PriceSpan - 1) \cup {NoPrice}]
  BY DEF Sound, Book
<1>2. o.level \in Levels /\ o.side \in Sides /\ o.shares \in 1 .. ShareSpan - 1
  BY DEF Order
<1>3. /\ n \in DrainedOrder
      /\ n.order_ref = o.order_ref /\ n.price = o.price
      /\ n.side = o.side /\ n.level = o.level
  BY <1>2, ShareAssumption DEF Order, DrainedOrder
<1>4. delta # o.shares => n \in Order
  BY <1>2, ShareAssumption DEF Order
<1>5. n # NoOrder
  <2>1. n.level # NoLevel
    BY <1>2, <1>3, LevelIsNotNull
  <2> HIDE DEF n
  <2> QED BY <2>1 DEF NoOrder
<1>6. c = [queue |-> b.queue,
           total |-> [b.total EXCEPT ![o.level][o.side] =
                        (@ - delta) % ShareSpan],
           slots |-> [b.slots EXCEPT ![s] = n],
           free  |-> b.free, index |-> b.index, best |-> b.best]
  BY <1>2 DEF Sound, Book, Reduced
<1>7. /\ c.queue = b.queue /\ c.free = b.free /\ c.index = b.index
      /\ c.best = b.best
      /\ c.total = [b.total EXCEPT ![o.level][o.side] =
                      (b.total[o.level][o.side] - delta) % ShareSpan]
      /\ c.slots = [b.slots EXCEPT ![s] = n]
      /\ c \in [queue : {c.queue}, total : {c.total}, slots : {c.slots},
                free : {c.free}, index : {c.index}, best : {c.best}]
  <2> HIDE DEF n
  <2> QED BY ONLY <1>6
<1> HIDE DEF n
<1>8. c.total \in [Levels -> [Sides -> 0 .. ShareSpan - 1]]
  <2>1. b.total[o.level][o.side] - delta \in Int
    BY <1>1, <1>2
  <2> DEFINE v == (b.total[o.level][o.side] - delta) % ShareSpan
  <2>2. v \in 0 .. ShareSpan - 1
    BY <2>1, ModType
  <2>3. c.total = [b.total EXCEPT ![o.level][o.side] = v]
    BY <1>7
  <2>4. b.total \in [Levels -> [Sides -> 0 .. ShareSpan - 1]]
    BY <1>1
  <2> HIDE DEF v
  <2> QED BY ONLY <1>2, <2>2, <2>3, <2>4, Except2
<1>9. \A t \in Slots : c.slots[t] = IF t = s THEN n ELSE b.slots[t]
  BY <1>1, <1>7
<1>10. \A t \in Slots : /\ c.slots[t] = NoOrder <=> b.slots[t] = NoOrder
                        /\ c.slots[t].order_ref = b.slots[t].order_ref
                        /\ c.slots[t].price = b.slots[t].price
                        /\ c.slots[t].side = b.slots[t].side
                        /\ c.slots[t].level = b.slots[t].level
  BY <1>3, <1>5, <1>9, OrderIsNotEmpty
<1>11. BookCoherent(b)
  BY DEF Sound
<1>12. FreeListSound(c) /\ NoSlotLeaks(c)
  <2>1. \A i \in 1 .. Len(b.free) : b.free[i] \in Slots
    BY <1>1
  <2>2. \A t \in Slots : c.slots[t] = NoOrder <=> b.slots[t] = NoOrder
    BY <1>10
  <2>3. c.free = b.free
    BY <1>7
  <2>4. FreeListSound(c)
    BY <1>11, <2>1, <2>2, <2>3 DEF BookCoherent, FreeListSound
  <2>5. NoSlotLeaks(c)
    BY <1>11, <2>2, <2>3 DEF BookCoherent, NoSlotLeaks
  <2> QED BY <2>4, <2>5
<1>13. IndexSound(c)
  <2> SUFFICES ASSUME NEW r \in Refs, c.index[r] # NoSlot
               PROVE  /\ c.slots[c.index[r]] # NoOrder
                      /\ c.slots[c.index[r]].order_ref = r
    BY DEF IndexSound, Live, OrderOf
  <2>1. c.index = b.index
    BY <1>7
  <2>2. b.index[r] \in Slots
    BY <1>1, <2>1
  <2>3. b.slots[b.index[r]] # NoOrder /\ b.slots[b.index[r]].order_ref = r
    BY <1>11, <2>1 DEF BookCoherent, IndexSound, Live, OrderOf
  <2> QED BY ONLY <1>10, <2>1, <2>2, <2>3
<1>14. OrdersReachable(c)
  <2> SUFFICES ASSUME NEW t \in Slots, NEW p, p = c.slots[t], p # NoOrder
               PROVE  /\ c.index[p.order_ref] = t
                      /\ p.level = LevelFor(p.price)
                      /\ \E i \in 1 .. Len(c.queue[p.level][p.side]) :
                           c.queue[p.level][p.side][i] = t
    BY DEF OrdersReachable
  <2> DEFINE e == b.slots[t]
  <2>1. /\ b.index[e.order_ref] = t
        /\ e.level = LevelFor(e.price)
        /\ \E i \in 1 .. Len(b.queue[e.level][e.side]) :
             b.queue[e.level][e.side][i] = t
    BY <1>10, <1>11 DEF BookCoherent, OrdersReachable
  <2>2. /\ p.order_ref = e.order_ref /\ p.price = e.price
        /\ p.side = e.side /\ p.level = e.level
    BY <1>10
  <2>3. c.index = b.index /\ c.queue = b.queue
    BY <1>7
  <2> HIDE DEF e
  <2>4. c.index[p.order_ref] = t
    BY ONLY <2>1, <2>2, <2>3
  <2>5. p.level = LevelFor(p.price)
    BY ONLY <2>1, <2>2
  <2>6. b.queue[e.level][e.side] = c.queue[p.level][p.side]
    BY ONLY <2>2, <2>3
  <2>7. \E i \in 1 .. Len(c.queue[p.level][p.side]) :
           c.queue[p.level][p.side][i] = t
    BY ONLY <2>1, <2>6
  <2> QED BY ONLY <2>4, <2>5, <2>7
<1>15. QueuesSound(c)
  <2> SUFFICES ASSUME NEW l \in Levels, NEW d \in Sides,
                      NEW q, q = c.queue[l][d], NEW i \in 1 .. Len(q)
               PROVE  /\ c.slots[q[i]] # NoOrder
                      /\ c.slots[q[i]].level = l
                      /\ c.slots[q[i]].side = d
                      /\ \A j \in 1 .. Len(q) : q[i] = q[j] => i = j
    BY DEF QueuesSound
  <2>q. q = b.queue[l][d]
    BY <1>7
  <2>1. q[i] \in Slots
    BY <1>1, <2>q
  <2>2. /\ b.slots[q[i]] # NoOrder
        /\ b.slots[q[i]].level = l
        /\ b.slots[q[i]].side = d
        /\ \A j \in 1 .. Len(q) : q[i] = q[j] => i = j
    BY <1>11, <2>q DEF BookCoherent, QueuesSound
  <2>3. /\ c.slots[q[i]] = NoOrder <=> b.slots[q[i]] = NoOrder
        /\ c.slots[q[i]].level = b.slots[q[i]].level
        /\ c.slots[q[i]].side = b.slots[q[i]].side
    BY ONLY <1>10, <2>1
  <2> QED BY ONLY <2>2, <2>3
<1>16. BookCoherent(c)
  BY <1>12, <1>13, <1>14, <1>15 DEF BookCoherent
<1>17. c.slots[s] # NoOrder
  BY <1>5, <1>9
<1>18. /\ c.slots \in [Slots -> DrainedOrder \cup {NoOrder}]
       /\ \A t \in Slots \ {s} : c.slots[t] \in Order \cup {NoOrder}
  <2>1. Order \subseteq DrainedOrder
    BY ShareAssumption DEF Order, DrainedOrder
  <2>2. b.slots \in [Slots -> Order \cup {NoOrder}] /\ n \in DrainedOrder
    BY <1>1, <1>3
  <2>3. c.slots = [b.slots EXCEPT ![s] = n]
    BY <1>7
  <2>4. c.slots \in [Slots -> DrainedOrder \cup {NoOrder}]
    BY ONLY <2>1, <2>2, <2>3
  <2>5. \A t \in Slots \ {s} : c.slots[t] \in Order \cup {NoOrder}
    BY ONLY <2>2, <2>3
  <2> QED BY ONLY <2>4, <2>5
<1>19. SoundBut(c, s)
  BY <1>1, <1>7, <1>8, <1>16, <1>18 DEF SoundBut
<1>20. ASSUME delta # o.shares PROVE Sound(c)
  <2>1. c.slots \in [Slots -> Order \cup {NoOrder}]
    <3>1. b.slots \in [Slots -> Order \cup {NoOrder}] /\ n \in Order
      BY <1>1, <1>4, <1>20
    <3>2. c.slots = [b.slots EXCEPT ![s] = n]
      BY <1>7
    <3> QED BY ONLY <3>1, <3>2
  <2> QED BY <1>1, <1>7, <1>8, <1>16, <2>1 DEF Sound, Book
<1> QED BY <1>17, <1>19, <1>20

(* The constructor leaves a sound book: every slot is on the free list. *)
LEMMA InitSound == Sound(EmptyBook)
<1> DEFINE b == EmptyBook
<1>1. /\ b.queue = [l \in Levels |-> [d \in Sides |-> <<>>]]
      /\ b.total = [l \in Levels |-> [d \in Sides |-> 0]]
      /\ b.slots = [s \in Slots |-> NoOrder]
      /\ b.free  = [i \in 1 .. OrderCapacity |-> i]
      /\ b.index = [r \in Refs |-> NoSlot]
      /\ b.best  = [d \in Sides |-> NoPrice]
      /\ b \in [queue : {b.queue}, total : {b.total}, slots : {b.slots},
                free : {b.free}, index : {b.index}, best : {b.best}]
  BY DEF EmptyBook
<1> HIDE DEF b
<1>2. /\ b.free \in Seq(Slots) /\ Len(b.free) = OrderCapacity
      /\ \A i \in 1 .. Len(b.free) : b.free[i] = i /\ i \in Slots
  <2>1. OrderCapacity \in Nat
    BY CapacityAssumption
  <2> DEFINE f == [i \in 1 .. OrderCapacity |-> i]
  <2>2. /\ f \in Seq(Slots) /\ Len(f) = OrderCapacity
        /\ \A i \in 1 .. OrderCapacity : f[i] = i
    BY <2>1 DEF Slots
  <2>3. b.free = f
    BY <1>1
  <2> HIDE DEF f
  <2> QED BY <2>2, <2>3 DEF Slots
<1>3. b \in Book
  <2>1. 0 \in 0 .. ShareSpan - 1
    BY ShareAssumption
  <2>2. <<>> \in Seq(Slots)
    OBVIOUS
  <2>3. /\ b.queue \in [Levels -> [Sides -> Seq(Slots)]]
        /\ b.total \in [Levels -> [Sides -> 0 .. ShareSpan - 1]]
    BY <1>1, <2>1, <2>2
  <2>4. /\ b.slots \in [Slots -> Order \cup {NoOrder}]
        /\ b.index \in [Refs -> Slots \cup {NoSlot}]
        /\ b.best \in [Sides -> (0 .. PriceSpan - 1) \cup {NoPrice}]
    BY <1>1
  <2> QED BY <1>1, <1>2, <2>3, <2>4 DEF Book
<1>4. FreeListSound(b) /\ NoSlotLeaks(b)
  <2>1. \A s \in Slots : b.slots[s] = NoOrder
    BY <1>1
  <2>2. Slots = 1 .. Len(b.free)
    BY <1>2 DEF Slots
  <2>3. FreeListSound(b)
    BY <1>2, <2>1 DEF FreeListSound
  <2>4. NoSlotLeaks(b)
    BY <1>2, <2>2 DEF NoSlotLeaks
  <2> QED BY <2>3, <2>4
<1>5. IndexSound(b) /\ OrdersReachable(b)
  BY <1>1 DEF IndexSound, OrdersReachable, Live
<1>6. QueuesSound(b)
  BY <1>1 DEF QueuesSound
<1> QED BY <1>3, <1>4, <1>5, <1>6 DEF Sound, BookCoherent, b

-----------------------------------------------------------------------------
(* Refused calls. *)

(* While the pool has a free slot the index has room: live references      *)
(* point to different slots, none of them the free one, and the index was  *)
(* built for at least as many entries as the pool has slots.               *)
LEMMA IndexHasRoom ==
  ASSUME NEW b, Sound(b), b.free # <<>>
  PROVE  ~IndexFull(b)
<1> DEFINE s == Head(b.free)
           R == {r \in Refs : Live(b, r)}
           f == [r \in R |-> b.index[r]]
<1>1. /\ b.index \in [Refs -> Slots \cup {NoSlot}]
      /\ b.free \in Seq(Slots)
  BY DEF Sound, Book
<1>2. s \in Slots /\ s = b.free[1] /\ 1 \in 1 .. Len(b.free)
  BY <1>1, PopFacts
<1>3. b.slots[s] = NoOrder
  BY <1>2 DEF Sound, BookCoherent, FreeListSound
<1>4. \A r \in R : /\ b.index[r] \in Slots \ {s}
                   /\ b.slots[b.index[r]].order_ref = r
  BY <1>1, <1>3 DEF Sound, BookCoherent, IndexSound, Live, OrderOf
<1>5. f \in Injection(R, Slots \ {s})
  <2> HIDE DEF s, R
  <2> QED BY <1>4, Fun_IsInj
<1>6. /\ IsFiniteSet(Slots) /\ Cardinality(Slots) = OrderCapacity
  <2>1. OrderCapacity \in Nat
    BY CapacityAssumption
  <2>2. /\ IsFiniteSet(1 .. OrderCapacity)
        /\ Cardinality(1 .. OrderCapacity)
             = IF 1 > OrderCapacity THEN 0 ELSE OrderCapacity - 1 + 1
    BY <2>1, FS_Interval
  <2> QED BY <2>1, <2>2 DEF Slots
<1>7. /\ IsFiniteSet(Slots \ {s})
      /\ Cardinality(Slots \ {s}) = OrderCapacity - 1
  BY <1>2, <1>6, FS_RemoveElement
<1> HIDE DEF s, R, f
<1>8. Cardinality(R) <= OrderCapacity - 1 /\ Cardinality(R) \in Nat
  BY <1>5, <1>7, FS_Injection, FS_CardinalityType
<1> QED BY <1>8, CapacityAssumption DEF IndexFull, order_count, R

(* A book with a free slot accepts a new reference. *)
LEMMA AddAccepts ==
  ASSUME NEW b, Sound(b), b.free # <<>>, NEW ref, ~Live(b, ref),
         NEW price, NEW shares, shares # 0, NEW d, NEW trader
  PROVE  add_order(b, ref, price, shares, d, trader).ok
<1> DEFINE o == NewOrder(ref, price, shares, d, trader)
           s == Head(b.free)
           k == Linked(b, o)
<1>1. k.index = b.index
  <2>1. k = [queue |-> [b.queue EXCEPT ![o.level][o.side] = Append(@, s)],
             total |-> [b.total EXCEPT ![o.level][o.side] =
                          (@ + o.shares) % ShareSpan],
             slots |-> [b.slots EXCEPT ![s] = o],
             free  |-> Tail(b.free), index |-> b.index, best |-> b.best]
    BY LinkedFields
  <2> HIDE DEF k, o
  <2> QED BY <2>1
<1>2. ~IndexFull(b)
  BY IndexHasRoom
<1>3. ~IndexFull(k)
  <2> HIDE DEF k
  <2> QED BY <1>1, <1>2 DEF IndexFull, order_count, Live
<1>4. k = Link(Acquire(b, s, o), s, o)
  BY DEF Linked
<1>5. add_order(b, ref, price, shares, d, trader)
        = Accepted(update_best_on_add([k EXCEPT !.index[ref] = s], price, d))
  BY <1>3, <1>4 DEF add_order, NewOrder
<1> QED BY <1>5 DEF Accepted

(* Removing an order frees its slot and its reference, and no other        *)
(* reference.                                                              *)
LEMMA RemoveFrees ==
  ASSUME NEW b, NEW s \in Slots, SoundBut(b, s), b.slots[s] # NoOrder,
         NEW ref \in Refs, ref = b.slots[s].order_ref \/ ~Live(b, ref),
         NEW c, c = remove_order_fully(b, s)
  PROVE  c.free # <<>> /\ ~Live(c, ref)
<1> DEFINE o == b.slots[s]
           m == Cleared(b, s)
<1>1. /\ o \in DrainedOrder
      /\ m = [queue |-> [b.queue EXCEPT ![o.level][o.side] = Unlink(@, s)],
              total |-> [b.total EXCEPT ![o.level][o.side] =
                           (@ - o.shares) % ShareSpan],
              slots |-> [b.slots EXCEPT ![s] = NoOrder],
              free  |-> <<s>> \o b.free,
              index |-> [b.index EXCEPT ![o.order_ref] = NoSlot],
              best  |-> b.best]
  BY ClearedFields
<1>2. /\ m.free = <<s>> \o b.free
      /\ m.index = [b.index EXCEPT ![o.order_ref] = NoSlot]
  <2> HIDE DEF m, o
  <2> QED BY <1>1
<1>3. \/ c = m
      \/ c = [m EXCEPT !.best[o.side] = ScanLevels(m, o.side, 0 .. PriceSpan - 1)]
  BY DEF remove_order_fully, Cleared, recompute_best_after_level_emptied
<1>4. m \in Book
  BY ClearedSound DEF Sound
<1>5. b.free \in Seq(Slots) /\ b.index \in [Refs -> Slots \cup {NoSlot}]
  BY DEF SoundBut
<1> HIDE DEF m
<1>6. c.free = m.free /\ c.index = m.index
  BY <1>3, <1>4 DEF Book
<1>7. m.free # <<>>
  <2>1. Len(<<s>> \o b.free) = Len(b.free) + 1 /\ Len(b.free) \in Nat
    BY <1>5, PushFacts
  <2> QED BY <1>2, <2>1
<1>8. m.index[ref] = NoSlot
  BY <1>2, <1>5 DEF Live
<1> QED BY <1>6, <1>7, <1>8 DEF Live

-----------------------------------------------------------------------------
(* The resting orders, by reference. *)
Orders(b) == [r \in {r \in Refs : Live(b, r)} |-> OrderOf(b, r)]

(* The orders more are the orders os and one more, o under reference r. *)
Extends(more, os, r, o) ==
  /\ r \notin DOMAIN os
  /\ DOMAIN more = DOMAIN os \cup {r}
  /\ more[r] = o
  /\ \A x \in DOMAIN os : more[x] = os[x]

AtLevel(os, l, d) == {r \in DOMAIN os : os[r].level = l /\ os[r].side = d}

(* The shares that rest at a level on a side, counted without wrapping. *)
TotalOf(os, l, d) == SumFunction([r \in AtLevel(os, l, d) |-> os[r].shares])

(* Finitely many orders with integer shares. *)
Countable(os) ==
  IsFiniteSet(DOMAIN os) /\ \A r \in DOMAIN os : os[r].shares \in Int

(* The total of a level counts one order more when there is one more. *)
LEMMA TotalExtends ==
  ASSUME NEW os, NEW more, NEW r, NEW o, Countable(os),
         Extends(more, os, r, o), o.shares \in Int, NEW l, NEW d
  PROVE  /\ Countable(more)
         /\ TotalOf(os, l, d) \in Int
         /\ TotalOf(more, l, d)
              = TotalOf(os, l, d)
                  + (IF o.level = l /\ o.side = d THEN o.shares ELSE 0)
<1> DEFINE S == AtLevel(os, l, d)
           U == AtLevel(more, l, d)
           f == [x \in S |-> os[x].shares]
           g == [x \in U |-> more[x].shares]
<1>1. Countable(more)
  <2>1. IsFiniteSet(DOMAIN os \cup {r})
    BY FS_AddElement DEF Countable
  <2> QED BY <2>1 DEF Extends, Countable
<1>2. IsFiniteSet(S) /\ IsFiniteSet(U)
  BY <1>1, FS_Subset DEF Countable, AtLevel
<1>3. \A x \in S : f[x] \in Int /\ x \in U /\ g[x] = f[x]
  BY DEF Countable, AtLevel, Extends
<1>4. TotalOf(os, l, d) = SumFunctionOnSet(f, S)
      /\ TotalOf(more, l, d) = SumFunctionOnSet(g, U)
  BY DEF TotalOf, SumFunction
<1>5. SumFunctionOnSet(f, S) = SumFunctionOnSet(g, S)
      /\ SumFunctionOnSet(f, S) \in Int
  <2> HIDE DEF f, g, S, U
  <2> QED BY <1>2, <1>3, SumSame, SumType
<1>6. CASE o.level = l /\ o.side = d
  <2>1. U = S \cup {r} /\ r \notin S
    BY <1>6 DEF Extends, AtLevel
  <2>2. g[r] = o.shares
    BY <2>1 DEF Extends
  <2>3. \A x \in S \cup {r} : g[x] \in Int
    BY <1>3, <2>2
  <2> HIDE DEF f, g, S, U
  <2>4. SumFunctionOnSet(g, U) = g[r] + SumFunctionOnSet(g, S)
    BY <1>2, <2>1, <2>3, SumAdd
  <2> QED BY <1>1, <1>4, <1>5, <1>6, <2>2, <2>4
<1>7. CASE ~(o.level = l /\ o.side = d)
  <2>1. U = S
    BY <1>7 DEF Extends, AtLevel
  <2> HIDE DEF f, g, S, U
  <2> QED BY <1>1, <1>4, <1>5, <1>7, <2>1
<1> QED BY <1>6, <1>7

(* A counter that is kept modulo its width follows one that is not. *)
LEMMA ModShift ==
  ASSUME NEW x \in Int, NEW n \in Int
  PROVE  ((x % ShareSpan) + n) % ShareSpan = (x + n) % ShareSpan
<1>1. ShareSpan \in Nat /\ ShareSpan > 0
  BY ShareAssumption
<1> DEFINE q == x \div ShareSpan
           r == x % ShareSpan
           k == (r + n) \div ShareSpan
           m == (r + n) % ShareSpan
<1>2. q \in Int /\ r \in 0 .. ShareSpan - 1 /\ x = ShareSpan * q + r
  BY <1>1, DivMod
<1>3. r \in Int
  BY <1>2, <1>1
<1> HIDE DEF q, r
<1>4. k \in Int /\ m \in 0 .. ShareSpan - 1 /\ r + n = ShareSpan * k + m
  BY <1>1, <1>3, DivMod
<1> HIDE DEF k, m
<1>5. x + n = ShareSpan * (q + k) + m
  BY <1>1, <1>2, <1>3, <1>4
<1>6. x + n \in Int /\ q + k \in Int
  BY <1>2, <1>4
<1>7. (x + n) % ShareSpan = m
  BY ONLY <1>1, <1>4, <1>5, <1>6, ModUnique
<1> QED BY <1>7 DEF m, r

-----------------------------------------------------------------------------
(* The effect of each half-operation on the resting orders. *)

(* Every resting order is one, under its own reference, and there are      *)
(* finitely many.                                                          *)
LEMMA OrdersType ==
  ASSUME NEW b, Sound(b)
  PROVE  /\ Countable(Orders(b))
         /\ DOMAIN Orders(b) = {r \in Refs : Live(b, r)}
         /\ \A r \in DOMAIN Orders(b) : /\ Orders(b)[r] = OrderOf(b, r)
                                        /\ Orders(b)[r] \in Order
                                        /\ Orders(b)[r].order_ref = r
<1> DEFINE R == {r \in Refs : Live(b, r)}
           f == [r \in R |-> b.index[r]]
<1>1. \A r \in R : /\ b.index[r] \in Slots /\ OrderOf(b, r) \in Order
                   /\ OrderOf(b, r).order_ref = r
  BY LiveOrder DEF OrderOf
<1>2. f \in Injection(R, Slots)
  <2>1. \A r, u \in R : f[r] = f[u] => r = u
    BY <1>1 DEF OrderOf
  <2>2. f \in [R -> Slots]
    BY <1>1
  <2> HIDE DEF R, f
  <2> QED BY <2>1, <2>2, Fun_IsInj
<1>3. IsFiniteSet(Slots)
  BY CapacityAssumption, FS_Interval DEF Slots
<1>4. IsFiniteSet(R)
  <2> HIDE DEF R, f
  <2> QED BY <1>2, <1>3, FS_Injection
<1>5. \A o \in Order : o.shares \in Int
  BY ShareAssumption DEF Order
<1> QED BY <1>1, <1>4, <1>5 DEF Orders, Countable

(* Linking and indexing an order adds it. *)
LEMMA JoinedOrders ==
  ASSUME NEW b, Sound(b), b.free # <<>>, NEW o \in Order,
         ~Live(b, o.order_ref), NEW c, c = Joined(b, o)
  PROVE  Extends(Orders(c), Orders(b), o.order_ref, o)
<1> DEFINE s == Head(b.free)
           ref == o.order_ref
<1>1. /\ b.slots \in [Slots -> Order \cup {NoOrder}]
      /\ b.free \in Seq(Slots)
      /\ b.index \in [Refs -> Slots \cup {NoSlot}]
  BY DEF Sound, Book
<1>2. s \in Slots /\ s = b.free[1] /\ 1 \in 1 .. Len(b.free)
  BY <1>1, PopFacts
<1>3. b.slots[s] = NoOrder
  BY <1>2 DEF Sound, BookCoherent, FreeListSound
<1>4. /\ c.slots = [b.slots EXCEPT ![s] = o]
      /\ c.index = [b.index EXCEPT ![ref] = s]
  BY DEF Sound, Book, Joined, Linked, Acquire, Link
<1>5. ref \in Refs /\ s # NoSlot
  BY <1>2 DEF Order, Slots, NoSlot
<1> HIDE DEF s
<1>6. ASSUME NEW r \in Refs
      PROVE  /\ Live(c, r) <=> r = ref \/ Live(b, r)
             /\ r = ref => OrderOf(c, r) = o
             /\ r # ref /\ Live(b, r) => OrderOf(c, r) = OrderOf(b, r)
  <2>1. CASE r = ref
    BY <1>1, <1>2, <1>4, <1>5, <2>1 DEF Live, OrderOf
  <2>2. CASE r # ref
    <3>1. c.index[r] = b.index[r]
      BY <1>1, <1>4, <2>2
    <3>2. Live(b, r) => b.index[r] \in Slots /\ b.index[r] # s
      BY <1>3, LiveOrder
    <3> QED BY <1>1, <1>2, <1>4, <2>2, <3>1, <3>2 DEF Live, OrderOf
  <2> QED BY <2>1, <2>2
<1> QED BY <1>5, <1>6 DEF Orders, Extends

(* Unlinking and unindexing an order takes it away. *)
LEMMA ClearedOrders ==
  ASSUME NEW b, NEW s \in Slots, SoundBut(b, s), b.slots[s] # NoOrder,
         NEW o, o = b.slots[s], NEW c, c = Cleared(b, s)
  PROVE  Extends(Orders(b), Orders(c), o.order_ref, o)
<1> DEFINE ref == o.order_ref
<1>1. /\ b.slots \in [Slots -> DrainedOrder \cup {NoOrder}]
      /\ b.index \in [Refs -> Slots \cup {NoSlot}]
      /\ BookCoherent(b)
  BY DEF SoundBut
<1>2. /\ o \in DrainedOrder
      /\ c.slots = [b.slots EXCEPT ![s] = NoOrder]
      /\ c.index = [b.index EXCEPT ![ref] = NoSlot]
  <2>1. o \in DrainedOrder
    BY ClearedFields
  <2> QED BY <2>1 DEF SoundBut, Cleared, Release, Delink
<1>3. ref \in Refs /\ b.index[ref] = s /\ s # NoSlot
  <2>1. ref \in Refs
    BY ONLY <1>2 DEF DrainedOrder
  <2>2. b.index[ref] = s
    BY <1>1 DEF BookCoherent, OrdersReachable
  <2>3. s # NoSlot
    BY ONLY s \in Slots DEF Slots, NoSlot
  <2> QED BY <2>1, <2>2, <2>3
<1>4. ASSUME NEW r \in Refs
      PROVE  /\ Live(b, r) <=> r = ref \/ Live(c, r)
             /\ ~Live(c, ref)
             /\ r = ref => OrderOf(b, r) = o
             /\ Live(c, r) => OrderOf(c, r) = OrderOf(b, r)
  <2>1. ~Live(c, ref)
    BY <1>1, <1>2, <1>3 DEF Live
  <2>2. CASE r = ref
    BY <1>3, <2>1, <2>2 DEF Live, OrderOf
  <2>3. CASE r # ref
    <3>1. c.index[r] = b.index[r]
      BY <1>1, <1>2, <2>3
    <3>2. Live(b, r) => b.index[r] \in Slots /\ b.index[r] # s
      BY <1>1, <2>3 DEF BookCoherent, IndexSound, Live, OrderOf
    <3> QED BY <1>1, <1>2, <2>1, <2>3, <3>1, <3>2 DEF Live, OrderOf
  <2> QED BY <2>2, <2>3
<1> QED BY <1>3, <1>4 DEF Orders, Extends

(* Taking shares from an order changes its share count and no other order. *)
LEMMA ReducedOrders ==
  ASSUME NEW b, Sound(b), NEW s \in Slots, NEW o, o = b.slots[s], o \in Order,
         NEW delta \in 1 .. o.shares, NEW c, c = Reduced(b, s, delta)
  PROVE  /\ DOMAIN Orders(c) = DOMAIN Orders(b)
         /\ o.order_ref \in DOMAIN Orders(b)
         /\ Orders(b)[o.order_ref] = o
         /\ Orders(c)[o.order_ref] = [o EXCEPT !.shares = o.shares - delta]
         /\ \A r \in DOMAIN Orders(b) \ {o.order_ref} : Orders(c)[r] = Orders(b)[r]
<1> DEFINE ref == o.order_ref
           n == [o EXCEPT !.shares = o.shares - delta]
<1>1. /\ b.slots \in [Slots -> Order \cup {NoOrder}]
      /\ b.index \in [Refs -> Slots \cup {NoSlot}]
      /\ BookCoherent(b)
  BY DEF Sound, Book
<1>2. c.index = b.index /\ c.slots = [b.slots EXCEPT ![s] = n]
  <2>1. o.level \in Levels /\ o.side \in Sides
    BY DEF Order
  <2> QED BY <1>1, <2>1 DEF Sound, Book, Reduced
<1>3. ref \in Refs /\ b.index[ref] = s /\ s # NoSlot
  BY <1>1, OrderIsNotEmpty
     DEF Order, BookCoherent, OrdersReachable, Slots, NoSlot
<1> HIDE DEF n
<1>4. ASSUME NEW r \in Refs
      PROVE  /\ Live(b, r) <=> Live(c, r)
             /\ r = ref => Live(b, r) /\ OrderOf(b, r) = o /\ OrderOf(c, r) = n
             /\ r # ref /\ Live(b, r) => OrderOf(c, r) = OrderOf(b, r)
  <2>1. CASE r = ref
    BY <1>1, <1>2, <1>3, <2>1 DEF Live, OrderOf
  <2>2. CASE r # ref
    <3>1. Live(b, r) => b.index[r] \in Slots /\ b.index[r] # s
      BY <1>1, <2>2 DEF BookCoherent, IndexSound, Live, OrderOf
    <3> QED BY <1>1, <1>2, <2>2, <3>1 DEF Live, OrderOf
  <2> QED BY <2>1, <2>2
<1> QED BY <1>3, <1>4 DEF Orders, n

(* The cached best prices are no part of the resting orders. *)
LEMMA BestOrders ==
  ASSUME NEW b, Sound(b), NEW d, NEW v
  PROVE  Orders([b EXCEPT !.best[d] = v]) = Orders(b)
<1> DEFINE c == [b EXCEPT !.best[d] = v]
<1>1. c.index = b.index /\ c.slots = b.slots
  BY DEF Sound, Book
<1> HIDE DEF c
<1>2. Orders(c) = Orders(b)
  BY <1>1 DEF Orders, Live, OrderOf
<1> QED BY <1>2 DEF c

-----------------------------------------------------------------------------
(* The counters of the levels. *)

(* Every counter is the sum of what rests at its level and side, kept in   *)
(* the width of the type Shares.                                           *)
TotalsSound(b) ==
  \A l \in Levels, d \in Sides :
    b.total[l][d] = TotalOf(Orders(b), l, d) % ShareSpan

(* From book b to book c, n shares join (or leave) level lv on side sd,    *)
(* and its counter is moved by as much.                                    *)
Moved(b, c, lv, sd, n) ==
  \A l \in Levels, d \in Sides :
    /\ TotalOf(Orders(b), l, d) \in Int
    /\ TotalOf(Orders(c), l, d)
         = TotalOf(Orders(b), l, d) + (IF l = lv /\ d = sd THEN n ELSE 0)
    /\ c.total[l][d] = IF l = lv /\ d = sd
                       THEN (b.total[l][d] + n) % ShareSpan
                       ELSE b.total[l][d]

(* A counter that is moved as the shares of its level move stays sound. *)
LEMMA TotalsFollow ==
  ASSUME NEW b, NEW c, NEW lv, NEW sd, NEW n \in Int, TotalsSound(b),
         Moved(b, c, lv, sd, n)
  PROVE  TotalsSound(c)
<1> SUFFICES ASSUME NEW l \in Levels, NEW d \in Sides
             PROVE  c.total[l][d] = TotalOf(Orders(c), l, d) % ShareSpan
  BY DEF TotalsSound
<1> DEFINE x == TotalOf(Orders(b), l, d)
           y == TotalOf(Orders(c), l, d)
<1>1. /\ x \in Int /\ y = x + (IF l = lv /\ d = sd THEN n ELSE 0)
      /\ c.total[l][d] = IF l = lv /\ d = sd
                         THEN ((x % ShareSpan) + n) % ShareSpan
                         ELSE x % ShareSpan
  BY DEF TotalsSound, Moved
<1> HIDE DEF x, y
<1>2. ((x % ShareSpan) + n) % ShareSpan = (x + n) % ShareSpan
  BY <1>1, ModShift
<1>3. c.total[l][d] = y % ShareSpan
  BY <1>1, <1>2
<1> QED BY <1>3 DEF y

(* Adding an order counts its shares. *)
LEMMA JoinedTotals ==
  ASSUME NEW b, Sound(b), TotalsSound(b), b.free # <<>>, NEW o \in Order,
         ~Live(b, o.order_ref), NEW c, c = Joined(b, o)
  PROVE  TotalsSound(c)
<1>1. Extends(Orders(c), Orders(b), o.order_ref, o)
  BY JoinedOrders
<1>2. Countable(Orders(b))
  BY OrdersType
<1>3. o.shares \in Int /\ o.level \in Levels /\ o.side \in Sides
  BY ShareAssumption DEF Order
<1>4. \A l \in Levels, d \in Sides :
        /\ TotalOf(Orders(b), l, d) \in Int
        /\ TotalOf(Orders(c), l, d)
             = TotalOf(Orders(b), l, d)
                 + (IF l = o.level /\ d = o.side THEN o.shares ELSE 0)
  BY <1>1, <1>2, <1>3, TotalExtends
<1>5. b.total \in [Levels -> [Sides -> 0 .. ShareSpan - 1]]
  BY DEF Sound, Book
<1>6. c.total = [b.total EXCEPT ![o.level][o.side] =
                   (b.total[o.level][o.side] + o.shares) % ShareSpan]
  BY DEF Sound, Book, Joined, Linked, Acquire, Link
<1>7. \A l \in Levels, d \in Sides :
        c.total[l][d] = IF l = o.level /\ d = o.side
                        THEN (b.total[l][d] + o.shares) % ShareSpan
                        ELSE b.total[l][d]
  BY <1>3, <1>5, <1>6
<1>8. Moved(b, c, o.level, o.side, o.shares)
  BY <1>4, <1>7 DEF Moved
<1> QED BY <1>3, <1>8, TotalsFollow

(* Removing an order discounts the shares it still has. *)
LEMMA ClearedTotals ==
  ASSUME NEW b, NEW s \in Slots, SoundBut(b, s), b.slots[s] # NoOrder,
         TotalsSound(b), NEW c, c = Cleared(b, s)
  PROVE  TotalsSound(c)
<1> DEFINE o == b.slots[s]
<1>1. Extends(Orders(b), Orders(c), o.order_ref, o)
  BY ClearedOrders
<1>2. Countable(Orders(c))
  BY ClearedSound, OrdersType
<1>3. /\ o \in DrainedOrder /\ o.shares \in Int
      /\ o.level \in Levels /\ o.side \in Sides
  <2>1. o \in DrainedOrder
    BY ClearedFields
  <2> QED BY <2>1, ShareAssumption DEF DrainedOrder
<1>5. b.total \in [Levels -> [Sides -> 0 .. ShareSpan - 1]]
  BY DEF SoundBut
<1>6. c.total = [b.total EXCEPT ![o.level][o.side] =
                   (b.total[o.level][o.side] - o.shares) % ShareSpan]
  BY <1>3 DEF SoundBut, Cleared, Release, Delink
<1> HIDE DEF o
<1>7. ASSUME NEW l \in Levels, NEW d \in Sides
      PROVE  /\ TotalOf(Orders(b), l, d) \in Int
             /\ TotalOf(Orders(c), l, d)
                  = TotalOf(Orders(b), l, d)
                      + (IF l = o.level /\ d = o.side THEN -o.shares ELSE 0)
  <2> DEFINE x == TotalOf(Orders(b), l, d)
             y == TotalOf(Orders(c), l, d)
  <2>1. /\ y \in Int
        /\ x = y + (IF o.level = l /\ o.side = d THEN o.shares ELSE 0)
    BY <1>1, <1>2, <1>3, TotalExtends
  <2> HIDE DEF x, y
  <2>2. x \in Int /\ y = x + (IF l = o.level /\ d = o.side THEN -o.shares ELSE 0)
    BY <1>3, <2>1
  <2> QED BY <2>2 DEF x, y
<1>8. ASSUME NEW l \in Levels, NEW d \in Sides
      PROVE  c.total[l][d] = IF l = o.level /\ d = o.side
                             THEN (b.total[l][d] + (-o.shares)) % ShareSpan
                             ELSE b.total[l][d]
  <2>1. c.total[l][d] = IF l = o.level /\ d = o.side
                        THEN (b.total[l][d] - o.shares) % ShareSpan
                        ELSE b.total[l][d]
    BY <1>3, <1>5, <1>6
  <2>2. b.total[l][d] \in Int
    BY <1>5
  <2>3. b.total[l][d] - o.shares = b.total[l][d] + (-o.shares)
    BY <1>3, <2>2
  <2> QED BY <2>1, <2>3
<1>9. -o.shares \in Int
  BY <1>3
<1>10. Moved(b, c, o.level, o.side, -o.shares)
  BY <1>7, <1>8 DEF Moved
<1> QED BY <1>9, <1>10, TotalsFollow

(* Taking shares from an order discounts them. *)
LEMMA ReducedTotals ==
  ASSUME NEW b, Sound(b), TotalsSound(b), NEW s \in Slots, NEW o,
         o = b.slots[s], o \in Order,
         NEW delta \in 1 .. o.shares, NEW c, c = Reduced(b, s, delta)
  PROVE  TotalsSound(c)
<1> DEFINE ref == o.order_ref
           n == [o EXCEPT !.shares = o.shares - delta]
           rest == [r \in DOMAIN Orders(b) \ {ref} |-> Orders(b)[r]]
<1>1. /\ DOMAIN Orders(c) = DOMAIN Orders(b)
      /\ ref \in DOMAIN Orders(b)
      /\ Orders(b)[ref] = o
      /\ Orders(c)[ref] = n
      /\ \A r \in DOMAIN Orders(b) \ {ref} : Orders(c)[r] = Orders(b)[r]
  BY ReducedOrders
<1>2. Countable(Orders(b))
  BY OrdersType
<1>3. /\ o.shares \in Int /\ delta \in Int
      /\ o.level \in Levels /\ o.side \in Sides
      /\ n.shares = o.shares - delta /\ n.level = o.level /\ n.side = o.side
  BY ShareAssumption DEF Order
<1> HIDE DEF n
<1>4. Extends(Orders(b), rest, ref, o) /\ Extends(Orders(c), rest, ref, n)
  BY <1>1 DEF Extends
<1>5. Countable(rest)
  <2>1. IsFiniteSet(DOMAIN Orders(b) \ {ref})
    BY <1>2, FS_RemoveElement DEF Countable
  <2> QED BY <1>2, <2>1 DEF Countable
<1> HIDE DEF rest
<1>6. ASSUME NEW l \in Levels, NEW d \in Sides
      PROVE  /\ TotalOf(Orders(b), l, d) \in Int
             /\ TotalOf(Orders(c), l, d)
                  = TotalOf(Orders(b), l, d)
                      + (IF l = o.level /\ d = o.side THEN -delta ELSE 0)
  <2> DEFINE x == TotalOf(Orders(b), l, d)
             y == TotalOf(Orders(c), l, d)
             z == TotalOf(rest, l, d)
  <2>1. /\ z \in Int
        /\ x = z + (IF o.level = l /\ o.side = d THEN o.shares ELSE 0)
    BY <1>3, <1>4, <1>5, TotalExtends
  <2>2. y = z + (IF n.level = l /\ n.side = d THEN n.shares ELSE 0)
    <3>1. n.shares \in Int
      BY <1>3
    <3> QED BY <3>1, <1>4, <1>5, TotalExtends
  <2> HIDE DEF x, y, z
  <2>3. y = z + (IF o.level = l /\ o.side = d THEN o.shares - delta ELSE 0)
    BY <1>3, <2>2
  <2>4. x \in Int /\ y = x + (IF l = o.level /\ d = o.side THEN -delta ELSE 0)
    <3>1. CASE l = o.level /\ d = o.side
      <4>1. x = z + o.shares /\ y = z + (o.shares - delta)
        BY <2>1, <2>3, <3>1
      <4>2. y = x + (-delta) /\ x \in Int
        BY ONLY <1>3, <2>1, <4>1
      <4> QED BY <3>1, <4>2
    <3>2. CASE ~(l = o.level /\ d = o.side)
      BY <2>1, <2>3, <3>2
    <3> QED BY <3>1, <3>2
  <2> QED BY <2>4 DEF x, y
<1>7. b.total \in [Levels -> [Sides -> 0 .. ShareSpan - 1]]
  BY DEF Sound, Book
<1>8. c.total = [b.total EXCEPT ![o.level][o.side] =
                   (b.total[o.level][o.side] - delta) % ShareSpan]
  BY <1>3 DEF Sound, Book, Reduced
<1>9. ASSUME NEW l \in Levels, NEW d \in Sides
      PROVE  c.total[l][d] = IF l = o.level /\ d = o.side
                             THEN (b.total[l][d] + (-delta)) % ShareSpan
                             ELSE b.total[l][d]
  <2>1. c.total[l][d] = IF l = o.level /\ d = o.side
                        THEN (b.total[l][d] - delta) % ShareSpan
                        ELSE b.total[l][d]
    BY ONLY <1>3, <1>7, <1>8, <1>9
  <2>2. b.total[l][d] \in Int
    BY <1>7
  <2>3. b.total[l][d] - delta = b.total[l][d] + (-delta)
    BY <1>3, <2>2
  <2> QED BY <2>1, <2>3
<1>10. -delta \in Int
  BY <1>3
<1>11. Moved(b, c, o.level, o.side, -delta)
  BY <1>6, <1>9 DEF Moved
<1> QED BY <1>10, <1>11, TotalsFollow

-----------------------------------------------------------------------------
(* Prices and levels. *)

(* The prices at which orders rest on side d. *)
Priced(b, d) ==
  {p \in Prices : \E r \in Refs : /\ Live(b, r)
                                  /\ OrderOf(b, r).price = p
                                  /\ OrderOf(b, r).side = d}

(* The shares at each level fit the width of its counter. *)
NoWrap(b) ==
  \A l \in Levels, d \in Sides : TotalOf(Orders(b), l, d) < ShareSpan

(* The level of a price determines the price, as the scans assume: a flat  *)
(* slot through the price stored in it, an outlier entry through its key.  *)
LEMMA LevelPrice ==
  ASSUME NEW p \in Prices
  PROVE  /\ \/ /\ p - ReferencePrice + HalfWidth \in FlatSlots
               /\ LevelFor(p) = <<"flat", p - ReferencePrice + HalfWidth>>
            \/ p \in Outliers /\ LevelFor(p) = <<"outlier", p>>
         /\ \A i \in FlatSlots : LevelFor(p) = <<"flat", i>> =>
              /\ FlatPrice(i) = p
              /\ p = ReferencePrice + i - HalfWidth
         /\ \A q \in Outliers : LevelFor(p) = <<"outlier", q>> => q = p
<1>1. /\ p \in Int /\ ReferencePrice \in Int /\ HalfWidth \in Nat
      /\ PriceSpan \in Nat /\ PriceSpan > 0 /\ p \in 0 .. PriceSpan - 1
  BY PriceAssumption
<1>2. CASE p - ReferencePrice \in -HalfWidth .. HalfWidth
  <2> DEFINE i == p - ReferencePrice + HalfWidth
  <2>1. i \in FlatSlots /\ LevelFor(p) = <<"flat", i>>
    BY <1>1, <1>2 DEF FlatSlots, LevelFor
  <2>2. ReferencePrice + i - HalfWidth = p
    BY <1>1
  <2>3. p % PriceSpan = p
    BY <1>1
  <2>4. FlatPrice(i) = p
    BY <2>2, <2>3 DEF FlatPrice
  <2> HIDE DEF i
  <2>5. \A j \in FlatSlots : LevelFor(p) = <<"flat", j>> => j = i
    BY <2>1
  <2>6. \A q \in Outliers : LevelFor(p) # <<"outlier", q>>
    BY <2>1
  <2>7. /\ i \in FlatSlots /\ LevelFor(p) = <<"flat", i>>
        /\ \A j \in FlatSlots : LevelFor(p) = <<"flat", j>> =>
             /\ FlatPrice(j) = p
             /\ p = ReferencePrice + j - HalfWidth
        /\ \A q \in Outliers : LevelFor(p) = <<"outlier", q>> => q = p
    BY <2>1, <2>2, <2>4, <2>5, <2>6
  <2> QED BY <2>7 DEF i
<1>3. CASE p - ReferencePrice \notin -HalfWidth .. HalfWidth
  <2>1. p \in Outliers /\ LevelFor(p) = <<"outlier", p>>
    BY <1>3 DEF Outliers, LevelFor
  <2> QED BY <2>1
<1> QED BY <1>2, <1>3

(* A level is named by one price only. *)
LEMMA LevelForInjective ==
  ASSUME NEW p \in Prices, NEW q \in Prices, LevelFor(p) = LevelFor(q)
  PROVE  p = q
<1>1. CASE p - ReferencePrice + HalfWidth \in FlatSlots
           /\ LevelFor(p) = <<"flat", p - ReferencePrice + HalfWidth>>
  <2> DEFINE i == p - ReferencePrice + HalfWidth
  <2>1. i \in FlatSlots /\ LevelFor(p) = <<"flat", i>>
    BY <1>1
  <2> HIDE DEF i
  <2>2. p = ReferencePrice + i - HalfWidth
    BY <2>1, LevelPrice
  <2>3. q = ReferencePrice + i - HalfWidth
    BY <2>1, LevelPrice
  <2> QED BY <2>2, <2>3
<1>2. CASE p \in Outliers /\ LevelFor(p) = <<"outlier", p>>
  BY <1>2, LevelPrice
<1> QED BY <1>1, <1>2, LevelPrice

(* A resting order is counted at the level of its price. *)
LEMMA OrderLevel ==
  ASSUME NEW b, Sound(b), NEW r \in Refs, Live(b, r)
  PROVE  /\ r \in DOMAIN Orders(b) /\ Orders(b)[r] = OrderOf(b, r)
         /\ OrderOf(b, r) \in Order
         /\ OrderOf(b, r).order_ref = r
         /\ OrderOf(b, r).price \in Prices /\ OrderOf(b, r).side \in Sides
         /\ OrderOf(b, r).level = LevelFor(OrderOf(b, r).price)
         /\ OrderOf(b, r).level \in Levels
         /\ OrderOf(b, r).shares \in 1 .. ShareSpan - 1
<1>1. /\ b.index[r] \in Slots /\ b.slots[b.index[r]] # NoOrder
      /\ OrderOf(b, r) \in Order /\ OrderOf(b, r).order_ref = r
  BY LiveOrder DEF OrderOf
<1>2. OrderOf(b, r).level = LevelFor(OrderOf(b, r).price)
  BY <1>1 DEF Sound, BookCoherent, OrdersReachable, OrderOf
<1>3. r \in DOMAIN Orders(b) /\ Orders(b)[r] = OrderOf(b, r)
  BY DEF Orders
<1> QED BY <1>1, <1>2, <1>3 DEF Order

(* A counter above zero means an order at its level; while the counters do *)
(* not wrap, an order means a counter above zero.                          *)
LEMMA TotalPositive ==
  ASSUME NEW b, Sound(b), TotalsSound(b), NEW l \in Levels, NEW d \in Sides
  PROVE  /\ b.total[l][d] > 0 => AtLevel(Orders(b), l, d) # {}
         /\ NoWrap(b) /\ AtLevel(Orders(b), l, d) # {} => b.total[l][d] > 0
<1> DEFINE S == AtLevel(Orders(b), l, d)
           f == [r \in S |-> Orders(b)[r].shares]
           t == TotalOf(Orders(b), l, d)
<1>1. t = SumFunctionOnSet(f, S)
  BY DEF TotalOf, SumFunction
<1>2. b.total[l][d] = t % ShareSpan
  BY DEF TotalsSound
<1>3. \A r \in S : f[r] \in Nat /\ f[r] > 0
  <2>1. \A r \in S : Orders(b)[r] \in Order
    BY OrdersType DEF AtLevel
  <2>2. \A o \in Order : o.shares \in Nat /\ o.shares > 0
    BY ShareAssumption DEF Order
  <2> HIDE DEF S
  <2> QED BY <2>1, <2>2
<1>4. IsFiniteSet(S)
  BY OrdersType, FS_Subset DEF Countable, AtLevel
<1>5. ShareSpan \in Nat /\ ShareSpan > 0
  BY ShareAssumption
<1> HIDE DEF f, S
<1>6. t \in Nat /\ \A r \in S : f[r] <= t
  BY <1>1, <1>3, <1>4, SumNat
<1>7. S = {} => t = 0
  BY <1>1, SumEmpty
<1>8. ASSUME NoWrap(b) PROVE t < ShareSpan
  BY <1>8 DEF NoWrap
<1> HIDE DEF t
<1>9. S = {} => b.total[l][d] = 0
  BY <1>2, <1>5, <1>7
<1>10. ASSUME NoWrap(b), S # {} PROVE b.total[l][d] > 0
  <2>1. PICK r \in S : TRUE
    BY <1>10
  <2>2. t > 0
    BY <1>3, <1>6, <2>1
  <2>3. t % ShareSpan = t
    BY <1>5, <1>6, <1>8, <1>10
  <2> QED BY <1>2, <2>2, <2>3
<1> QED BY <1>9, <1>10 DEF S

(* The better of two optional prices is one of them, none only where both  *)
(* are, and neither ranks before it.                                       *)
LEMMA BetterOfFacts ==
  ASSUME NEW d \in Sides, NEW p \in Nat \cup {NoPrice},
         NEW q \in Nat \cup {NoPrice}, NEW v, v = BetterOf(d, p, q)
  PROVE  /\ v \in {p, q}
         /\ p # NoPrice => v # NoPrice /\ ~Better(d, p, v)
         /\ q # NoPrice => v # NoPrice /\ ~Better(d, q, v)
<1>1. NoPrice \notin Nat
  BY DEF NoPrice
<1>2. CASE p = NoPrice
  BY <1>1, <1>2 DEF BetterOf, Better
<1>3. CASE p # NoPrice /\ q = NoPrice
  BY <1>1, <1>3 DEF BetterOf, Better
<1>4. CASE p # NoPrice /\ q # NoPrice
  <2>1. v = IF Better(d, q, p) THEN q ELSE p
    BY <1>4 DEF BetterOf
  <2>2. p \in Nat /\ q \in Nat
    BY <1>4
  <2> QED BY <1>1, <2>1, <2>2 DEF Better
<1> QED BY <1>2, <1>3, <1>4

(* A price at which orders rest is the price of an order of its level. *)
LEMMA PricedLevel ==
  ASSUME NEW b, Sound(b), NEW d \in Sides
  PROVE  /\ \A p \in Priced(b, d) : AtLevel(Orders(b), LevelFor(p), d) # {}
         /\ \A l \in Levels : \A r \in AtLevel(Orders(b), l, d) :
              \E p \in Priced(b, d) : p = OrderOf(b, r).price /\ l = LevelFor(p)
<1>1. ASSUME NEW p \in Priced(b, d)
      PROVE  AtLevel(Orders(b), LevelFor(p), d) # {}
  <2>1. PICK r \in Refs : /\ Live(b, r) /\ OrderOf(b, r).price = p
                          /\ OrderOf(b, r).side = d
    BY DEF Priced
  <2>2. /\ r \in DOMAIN Orders(b) /\ Orders(b)[r] = OrderOf(b, r)
        /\ OrderOf(b, r).level = LevelFor(p)
    BY <2>1, OrderLevel
  <2> QED BY <2>1, <2>2 DEF AtLevel
<1>2. ASSUME NEW l \in Levels, NEW r \in AtLevel(Orders(b), l, d)
      PROVE  \E p \in Priced(b, d) : p = OrderOf(b, r).price /\ l = LevelFor(p)
  <2>1. /\ r \in Refs /\ Live(b, r) /\ Orders(b)[r] = OrderOf(b, r)
        /\ Orders(b)[r].level = l /\ Orders(b)[r].side = d
    BY OrdersType DEF AtLevel
  <2>2. /\ OrderOf(b, r).price \in Prices
        /\ OrderOf(b, r).level = LevelFor(OrderOf(b, r).price)
    BY <2>1, OrderLevel
  <2> QED BY <2>1, <2>2 DEF Priced
<1> QED BY <1>1, <1>2

(* The scan of the levels answers a price at which orders rest; and while  *)
(* the counters do not wrap, the best of those in reach.                   *)
LEMMA ScanFacts ==
  ASSUME NEW b, Sound(b), TotalsSound(b), NEW d \in Sides,
         NEW within \in SUBSET (0 .. PriceSpan - 1),
         NEW v, v = ScanLevels(b, d, within)
  PROVE  /\ v # NoPrice => v \in within /\ v \in Priced(b, d)
         /\ NoWrap(b) =>
              \A p \in Priced(b, d) \cap within :
                v # NoPrice /\ ~Better(d, p, v)
<1> DEFINE flat == {i \in FlatSlots : /\ b.total[<<"flat", i>>][d] > 0
                                      /\ FlatPrice(i) \in within}
           inFlat == IF flat = {} THEN NoPrice ELSE FlatPrice(BestIn(d, flat))
           outs == {p \in Outliers \cap within :
                      b.total[<<"outlier", p>>][d] > 0}
           inOut == BestIn(d, outs)
           F(i) == ReferencePrice + i - HalfWidth
<1>0. /\ PriceSpan \in Nat /\ PriceSpan > 0 /\ PriceSpan - 1 \in Nat
      /\ ReferencePrice \in Int /\ HalfWidth \in Nat /\ 2 * HalfWidth \in Nat
      /\ Prices \subseteq 0 .. PriceSpan - 1 /\ Prices \subseteq Nat
      /\ NoPrice \notin Nat
  BY PriceAssumption DEF NoPrice
<1>1. ASSUME NEW i \in flat
      PROVE  FlatPrice(i) = F(i) /\ F(i) \in Priced(b, d) /\ F(i) \in within
  <2>1. <<"flat", i>> \in Levels
    BY DEF Levels
  <2>2. AtLevel(Orders(b), <<"flat", i>>, d) # {}
    BY <2>1, TotalPositive
  <2>3. PICK p \in Priced(b, d) : <<"flat", i>> = LevelFor(p)
    BY <2>1, <2>2, PricedLevel
  <2>4. p \in Prices
    BY DEF Priced
  <2>5. FlatPrice(i) = p /\ p = F(i)
    BY <2>3, <2>4, LevelPrice
  <2> QED BY <2>3, <2>5
<1>2. ASSUME NEW q \in outs
      PROVE  q \in Priced(b, d) /\ q \in within
  <2>1. q \in Outliers /\ <<"outlier", q>> \in Levels
    BY DEF Levels
  <2>2. AtLevel(Orders(b), <<"outlier", q>>, d) # {}
    BY <2>1, TotalPositive
  <2>3. PICK p \in Priced(b, d) : <<"outlier", q>> = LevelFor(p)
    BY <2>1, <2>2, PricedLevel
  <2>4. p \in Prices
    BY DEF Priced
  <2>5. p = q
    BY <2>1, <2>3, <2>4, LevelPrice
  <2> QED BY <2>3, <2>5
<1>3. flat \in SUBSET (0 .. 2 * HalfWidth)
  BY DEF FlatSlots
<1>4. outs \in SUBSET (0 .. PriceSpan - 1)
  OBVIOUS
<1>5. v = BetterOf(d, inFlat, inOut)
  BY DEF ScanLevels
<1>6. /\ inFlat # NoPrice => inFlat \in within /\ inFlat \in Priced(b, d)
      /\ inFlat \in Nat \cup {NoPrice}
      /\ \A i \in flat : inFlat # NoPrice /\ ~Better(d, F(i), inFlat)
  <2>1. CASE flat = {}
    BY <2>1
  <2>2. CASE flat # {}
    <3> DEFINE j == BestIn(d, flat)
    <3> HIDE DEF flat
    <3>1. j \in flat /\ \A i \in flat : ~Better(d, i, j)
      BY <1>0, <1>3, <2>2, BestInFacts
    <3> HIDE DEF j
    <3>2. inFlat = F(j) /\ F(j) \in Priced(b, d) /\ F(j) \in within
      BY <1>1, <2>2, <3>1 DEF j
    <3>3. F(j) \in Nat
      BY <1>0, <3>2 DEF Priced
    <3>4. ASSUME NEW i \in flat PROVE ~Better(d, F(i), F(j))
      <4>1. i \in Int /\ j \in Int
        BY <1>3, <3>1
      <4>2. ~Better(d, i, j)
        BY <3>1
      <4> QED BY <1>0, <4>1, <4>2 DEF Better
    <3> HIDE DEF F, inFlat
    <3> QED BY <1>0, <3>2, <3>3, <3>4
  <2> QED BY <2>1, <2>2
<1>7. /\ inOut # NoPrice => inOut \in within /\ inOut \in Priced(b, d)
      /\ inOut \in Nat \cup {NoPrice}
      /\ \A q \in outs : inOut # NoPrice /\ ~Better(d, q, inOut)
  <2>1. CASE outs = {}
    BY <2>1 DEF BestIn
  <2>2. CASE outs # {}
    <3> HIDE DEF outs
    <3>1. inOut \in outs /\ \A q \in outs : ~Better(d, q, inOut)
      BY <1>0, <1>4, <2>2, BestInFacts
    <3>2. inOut \in Priced(b, d) /\ inOut \in within
      BY <1>2, <3>1
    <3>3. inOut \in Nat
      BY <1>0, <3>2 DEF Priced
    <3> HIDE DEF inOut
    <3> QED BY <1>0, <3>1, <3>2, <3>3
  <2> QED BY <2>1, <2>2
<1>8. /\ v \in {inFlat, inOut}
      /\ inFlat # NoPrice => v # NoPrice /\ ~Better(d, inFlat, v)
      /\ inOut # NoPrice => v # NoPrice /\ ~Better(d, inOut, v)
  <2> HIDE DEF inFlat, inOut
  <2> QED BY <1>5, <1>6, <1>7, BetterOfFacts
<1>9. v # NoPrice => v \in within /\ v \in Priced(b, d)
  <2> HIDE DEF inFlat, inOut
  <2> QED BY <1>6, <1>7, <1>8
<1>10. ASSUME NoWrap(b), NEW p \in Priced(b, d), p \in within
       PROVE  v # NoPrice /\ ~Better(d, p, v)
  <2>1. p \in Prices /\ p \in Nat
    BY <1>0 DEF Priced
  <2>2. LevelFor(p) \in Levels /\ b.total[LevelFor(p)][d] > 0
    BY <1>10, <2>1, LevelForType, PricedLevel, TotalPositive
  <2>3. PICK w \in {inFlat, inOut} : w # NoPrice /\ ~Better(d, p, w)
    <3>1. CASE /\ p - ReferencePrice + HalfWidth \in FlatSlots
               /\ LevelFor(p) = <<"flat", p - ReferencePrice + HalfWidth>>
      <4> DEFINE i == p - ReferencePrice + HalfWidth
      <4>1. i \in FlatSlots /\ LevelFor(p) = <<"flat", i>>
        BY <3>1
      <4> HIDE DEF i
      <4>2. FlatPrice(i) = p /\ p = F(i)
        BY <2>1, <4>1, LevelPrice
      <4>3. i \in flat
        BY <1>10, <2>2, <4>1, <4>2
      <4> HIDE DEF inFlat, inOut, flat, F
      <4> QED BY <1>6, <4>2, <4>3
    <3>2. CASE p \in Outliers /\ LevelFor(p) = <<"outlier", p>>
      <4>1. p \in outs
        BY <1>10, <2>2, <3>2
      <4> HIDE DEF inFlat, inOut, outs
      <4> QED BY <1>7, <4>1
    <3> QED BY <2>1, <3>1, <3>2, LevelPrice
  <2> HIDE DEF inFlat, inOut
  <2>4. v # NoPrice /\ ~Better(d, w, v)
    BY <1>8, <2>3
  <2>5. w \in Nat /\ v \in Nat
    BY <1>6, <1>7, <1>8, <2>3, <2>4
  <2> QED BY <2>1, <2>3, <2>4, <2>5 DEF Better
<1> QED BY <1>9, <1>10

-----------------------------------------------------------------------------
(* The cached best prices. *)

(* A cached best price is one at which orders rest on its side ... *)
BestBacked(b) ==
  \A d \in Sides : b.best[d] # NoPrice => b.best[d] \in Priced(b, d)

(* ... and no order of that side rests at a better one. *)
BestLeads(b) ==
  \A d \in Sides : \A p \in Priced(b, d) :
    b.best[d] # NoPrice /\ ~Better(d, p, b.best[d])

(* Book c is book b with another best price of side d. *)
BestSet(c, b, d, v) ==
  /\ Orders(c) = Orders(b) /\ c.total = b.total /\ c.queue = b.queue
  /\ \A e \in Sides : Priced(c, e) = Priced(b, e)
  /\ \A e \in Sides : c.best[e] = IF e = d THEN v ELSE b.best[e]
  /\ TotalsSound(b) => TotalsSound(c)

(* Writing a cached best price changes nothing else. *)
LEMMA BestKeeps ==
  ASSUME NEW b, Sound(b), NEW d \in Sides, NEW v
  PROVE  BestSet([b EXCEPT !.best[d] = v], b, d, v)
<1> DEFINE c == [b EXCEPT !.best[d] = v]
<1>1. /\ c.total = b.total /\ c.queue = b.queue /\ c.index = b.index
      /\ c.slots = b.slots
      /\ \A e \in Sides : c.best[e] = IF e = d THEN v ELSE b.best[e]
  BY DEF Sound, Book
<1>2. Orders(c) = Orders(b)
  BY BestOrders
<1> HIDE DEF c
<1>3. \A e \in Sides : Priced(c, e) = Priced(b, e)
  BY <1>1 DEF Priced, Live, OrderOf
<1>4. TotalsSound(b) => TotalsSound(c)
  BY <1>1, <1>2 DEF TotalsSound
<1>5. BestSet(c, b, d, v)
  BY <1>1, <1>2, <1>3, <1>4 DEF BestSet
<1> QED BY <1>5 DEF c

(* Orders more, orders os and the one that makes the difference: the       *)
(* prices at which they rest.                                              *)
LEMMA PricedExtends ==
  ASSUME NEW a, NEW b, NEW r \in Refs, NEW o, o.price \in Prices,
         Extends(Orders(a), Orders(b), r, o), NEW d, NEW p
  PROVE  p \in Priced(a, d) <=>
           p \in Priced(b, d) \/ (p = o.price /\ d = o.side)
<1>1. /\ ~Live(b, r) /\ Live(a, r) /\ OrderOf(a, r) = o
      /\ \A x \in Refs \ {r} : /\ Live(a, x) <=> Live(b, x)
                               /\ Live(b, x) => OrderOf(a, x) = OrderOf(b, x)
  <2>1. /\ DOMAIN Orders(a) = {x \in Refs : Live(a, x)}
        /\ DOMAIN Orders(b) = {x \in Refs : Live(b, x)}
        /\ \A x \in DOMAIN Orders(a) : Orders(a)[x] = OrderOf(a, x)
        /\ \A x \in DOMAIN Orders(b) : Orders(b)[x] = OrderOf(b, x)
    BY DEF Orders
  <2> QED BY <2>1 DEF Extends
<1> QED BY <1>1 DEF Priced

(* Linking a new order and updating the cached best prices. *)
LEMMA JoinedBest ==
  ASSUME NEW b, Sound(b), TotalsSound(b), BestBacked(b), b.free # <<>>,
         NEW o \in Order, o.level = LevelFor(o.price), ~Live(b, o.order_ref),
         NEW c, c = update_best_on_add(Joined(b, o), o.price, o.side)
  PROVE  /\ Sound(c) /\ TotalsSound(c) /\ BestBacked(c)
         /\ Extends(Orders(c), Orders(b), o.order_ref, o)
         /\ BestLeads(b) => BestLeads(c)
<1> DEFINE j == Joined(b, o)
           d == o.side
           v == IF b.best[d] = NoPrice \/ Better(d, o.price, b.best[d])
                THEN o.price ELSE b.best[d]
<1>1. Sound(j) /\ TotalsSound(j) /\ Extends(Orders(j), Orders(b), o.order_ref, o)
  BY JoinedSound, JoinedTotals, JoinedOrders
<1>2. j.best = b.best /\ b.best \in [Sides -> (0 .. PriceSpan - 1) \cup {NoPrice}]
  BY DEF Sound, Book, Joined, Linked, Acquire, Link
<1>3. /\ o.price \in Prices /\ d \in Sides /\ o.order_ref \in Refs
      /\ o.price \in 0 .. PriceSpan - 1
  BY PriceAssumption DEF Order
<1>4. \A e, p : p \in Priced(j, e) <=>
                  p \in Priced(b, e) \/ (p = o.price /\ e = d)
  BY <1>1, <1>3, PricedExtends
<1>5. c = IF b.best[d] = NoPrice \/ Better(d, o.price, b.best[d])
          THEN [j EXCEPT !.best[d] = o.price] ELSE j
  BY <1>2 DEF update_best_on_add
<1> HIDE DEF j
<1>6. /\ Sound(c) /\ TotalsSound(c) /\ Orders(c) = Orders(j)
      /\ \A e \in Sides : Priced(c, e) = Priced(j, e)
      /\ \A e \in Sides : c.best[e] = IF e = d THEN v ELSE b.best[e]
  <2>1. CASE b.best[d] = NoPrice \/ Better(d, o.price, b.best[d])
    <3>1. c = [j EXCEPT !.best[d] = o.price]
      BY <1>5, <2>1
    <3>2. Sound(c)
      BY <1>1, <1>3, <3>1, BestIsFree
    <3>3. BestSet(c, j, d, o.price)
      BY <1>1, <1>3, <3>1, BestKeeps
    <3> QED BY <1>1, <1>2, <2>1, <3>2, <3>3 DEF BestSet
  <2>2. CASE ~(b.best[d] = NoPrice \/ Better(d, o.price, b.best[d]))
    BY <1>1, <1>2, <1>5, <2>2
  <2> QED BY <2>1, <2>2
<1>7. BestBacked(c)
  BY <1>3, <1>4, <1>6 DEF BestBacked
<1>8. ASSUME BestLeads(b), NEW e \in Sides, NEW p \in Priced(c, e)
      PROVE  c.best[e] # NoPrice /\ ~Better(e, p, c.best[e])
  <2>1. p \in Priced(b, e) \/ (p = o.price /\ e = d)
    BY <1>4, <1>6
  <2>2. p \in Priced(b, e) => b.best[e] # NoPrice /\ ~Better(e, p, b.best[e])
    BY <1>8 DEF BestLeads
  <2>3. /\ NoPrice \notin Nat /\ o.price \in Nat /\ p \in Nat
        /\ b.best[e] \in Nat \cup {NoPrice}
    BY <1>2, <1>3, <2>1, PriceAssumption DEF NoPrice, Priced
  <2>4. CASE e # d
    BY <1>6, <2>1, <2>2, <2>4
  <2>5. CASE e = d
    <3>1. c.best[e] = v
      BY <1>6, <2>5
    <3>2. CASE b.best[d] = NoPrice \/ Better(d, o.price, b.best[d])
      <4>1. c.best[e] = o.price
        BY <3>1, <3>2
      <4>2. CASE p = o.price
        BY <2>3, <4>1, <4>2 DEF Better
      <4>3. CASE p \in Priced(b, e)
        BY <2>2, <2>3, <2>5, <3>2, <4>1, <4>3 DEF Better
      <4> QED BY <2>1, <4>2, <4>3
    <3>3. CASE ~(b.best[d] = NoPrice \/ Better(d, o.price, b.best[d]))
      <4>1. c.best[e] = b.best[e]
        BY <2>5, <3>1, <3>3
      <4> QED BY <2>1, <2>2, <2>5, <3>3, <4>1
    <3> QED BY <3>2, <3>3
  <2> QED BY <2>4, <2>5
<1>9. BestLeads(b) => BestLeads(c)
  BY <1>8 DEF BestLeads
<1> QED BY <1>1, <1>6, <1>7, <1>9

(* A queue has nodes exactly where orders rest at its price. *)
LEMMA QueuePriced ==
  ASSUME NEW b, Sound(b), NEW p \in Prices, NEW d \in Sides
  PROVE  b.queue[LevelFor(p)][d] # <<>> <=> p \in Priced(b, d)
<1> DEFINE l == LevelFor(p)
           q == b.queue[l][d]
<1>1. l \in Levels
  BY LevelForType
<1>2. /\ q \in Seq(Slots) /\ b.slots \in [Slots -> Order \cup {NoOrder}]
      /\ b.index \in [Refs -> Slots \cup {NoSlot}]
  BY <1>1 DEF Sound, Book
<1>3. ASSUME q # <<>>
      PROVE  p \in Priced(b, d)
  <2>1. 1 \in 1 .. Len(q) /\ q[1] \in Slots
    BY <1>2, <1>3
  <2> DEFINE o == b.slots[q[1]]
  <2>2. o # NoOrder /\ o.level = l /\ o.side = d
    BY <1>1, <2>1 DEF Sound, BookCoherent, QueuesSound
  <2>3. o \in Order /\ b.index[o.order_ref] = q[1] /\ o.level = LevelFor(o.price)
    BY <1>2, <2>1, <2>2 DEF Sound, BookCoherent, OrdersReachable
  <2>4. o.order_ref \in Refs /\ o.price \in Prices
    BY <2>3 DEF Order
  <2>5. Live(b, o.order_ref) /\ OrderOf(b, o.order_ref) = o
    <3>1. q[1] # NoSlot
      BY <2>1 DEF Slots, NoSlot
    <3> QED BY ONLY <2>3, <3>1 DEF Live, OrderOf
  <2>6. o.price = p
    BY <2>2, <2>3, <2>4, LevelForInjective
  <2> QED BY <2>2, <2>4, <2>5, <2>6 DEF Priced
<1>4. ASSUME p \in Priced(b, d)
      PROVE  q # <<>>
  <2>1. PICK r \in Refs : /\ Live(b, r) /\ OrderOf(b, r).price = p
                          /\ OrderOf(b, r).side = d
    BY <1>4 DEF Priced
  <2>2. b.index[r] \in Slots /\ b.slots[b.index[r]] # NoOrder
    BY <2>1, LiveOrder
  <2>3. OrderOf(b, r).level = l
    BY <2>1, OrderLevel
  <2>4. \E i \in 1 .. Len(q) : q[i] = b.index[r]
    BY <2>1, <2>2, <2>3 DEF Sound, BookCoherent, OrdersReachable, OrderOf
  <2> QED BY <2>4
<1> QED BY <1>3, <1>4

(* Removing an order and, where its level was the best one and is empty    *)
(* now, looking for the next.                                              *)
LEMMA RemoveBest ==
  ASSUME NEW b, NEW s \in Slots, SoundBut(b, s), b.slots[s] # NoOrder,
         TotalsSound(b), BestBacked(b), NEW o, o = b.slots[s],
         NEW c, c = remove_order_fully(b, s)
  PROVE  /\ Sound(c) /\ TotalsSound(c) /\ BestBacked(c)
         /\ Extends(Orders(b), Orders(c), o.order_ref, o)
         /\ NoWrap(b) /\ BestLeads(b) => BestLeads(c)
<1> DEFINE m == Cleared(b, s)
           d == o.side
           p == o.price
           v == ScanLevels(m, d, 0 .. PriceSpan - 1)
<1>1. Sound(m) /\ TotalsSound(m) /\ Extends(Orders(b), Orders(m), o.order_ref, o)
  BY ClearedSound, ClearedTotals, ClearedOrders
<1>2. o \in DrainedOrder /\ m.best = b.best
  <2>1. o \in DrainedOrder
    BY ClearedFields
  <2> QED BY <2>1 DEF SoundBut, Cleared, Release, Delink
<1>3. /\ p \in Prices /\ d \in Sides /\ o.order_ref \in Refs
      /\ o.shares \in Nat /\ o.level \in Levels
  BY <1>2, ShareAssumption DEF DrainedOrder
<1>4. o.level = LevelFor(p)
  BY DEF SoundBut, BookCoherent, OrdersReachable
<1>5. \A e, x : x \in Priced(b, e) <=>
                  x \in Priced(m, e) \/ (x = p /\ e = d)
  BY <1>1, <1>3, PricedExtends
<1>6. c = IF m.queue[o.level][d] = <<>> /\ b.best[d] = p
          THEN [m EXCEPT !.best[d] = v] ELSE m
  BY DEF remove_order_fully, Cleared, recompute_best_after_level_emptied
<1>7. ASSUME NoWrap(b) PROVE NoWrap(m)
  <2> SUFFICES ASSUME NEW l \in Levels, NEW e \in Sides
               PROVE  TotalOf(Orders(m), l, e) < ShareSpan
    BY DEF NoWrap
  <2> DEFINE x == TotalOf(Orders(b), l, e)
             y == TotalOf(Orders(m), l, e)
  <2>1. Countable(Orders(m))
    BY <1>1, OrdersType
  <2>2. y \in Int /\ x = y + (IF o.level = l /\ o.side = e THEN o.shares ELSE 0)
    BY <1>1, <1>3, <2>1, TotalExtends
  <2>3. x < ShareSpan
    BY <1>7 DEF NoWrap
  <2> HIDE DEF x, y
  <2>4. y < ShareSpan
    BY <1>3, <2>2, <2>3, ShareAssumption
  <2> QED BY <2>4 DEF y
<1> HIDE DEF m
<1>8. CASE m.queue[o.level][d] = <<>> /\ b.best[d] = p
  <2>1. c = [m EXCEPT !.best[d] = v]
    BY <1>6, <1>8
  <2>2. v \in (0 .. PriceSpan - 1) \cup {NoPrice}
    BY <1>3, ScanType
  <2>3. /\ v # NoPrice => v \in Priced(m, d)
        /\ NoWrap(m) => \A x \in Priced(m, d) \cap (0 .. PriceSpan - 1) :
                          v # NoPrice /\ ~Better(d, x, v)
    <3> DEFINE all == 0 .. PriceSpan - 1
    <3>1. all \in SUBSET (0 .. PriceSpan - 1) /\ v = ScanLevels(m, d, all)
      OBVIOUS
    <3> HIDE DEF all, v, d
    <3>2. /\ v # NoPrice => v \in all /\ v \in Priced(m, d)
          /\ NoWrap(m) => \A x \in Priced(m, d) \cap all :
                            v # NoPrice /\ ~Better(d, x, v)
      BY <1>1, <1>3, <3>1, ScanFacts
    <3> QED BY <3>2 DEF all
  <2> HIDE DEF v
  <2>4. Sound(c)
    BY <1>1, <1>3, <2>1, <2>2, BestIsFree
  <2>5. BestSet(c, m, d, v)
    BY <1>1, <1>3, <2>1, BestKeeps
  <2>6. BestBacked(c)
    <3> SUFFICES ASSUME NEW e \in Sides, c.best[e] # NoPrice
                 PROVE  c.best[e] \in Priced(m, e)
      BY <2>5 DEF BestBacked, BestSet
    <3>1. CASE e = d
      BY <2>3, <2>5, <3>1 DEF BestSet
    <3>2. CASE e # d
      <4>1. c.best[e] = b.best[e]
        BY <1>2, <2>5, <3>2 DEF BestSet
      <4> QED BY <1>5, <3>2, <4>1 DEF BestBacked
    <3> QED BY <3>1, <3>2
  <2>7. ASSUME NoWrap(b), BestLeads(b) PROVE BestLeads(c)
    <3> SUFFICES ASSUME NEW e \in Sides, NEW x \in Priced(m, e)
                 PROVE  c.best[e] # NoPrice /\ ~Better(e, x, c.best[e])
      BY <2>5 DEF BestLeads, BestSet
    <3>1. CASE e = d
      <4>1. x \in 0 .. PriceSpan - 1
        BY PriceAssumption DEF Priced
      <4> QED BY <1>7, <2>3, <2>5, <2>7, <3>1, <4>1 DEF BestSet
    <3>2. CASE e # d
      <4>1. c.best[e] = b.best[e]
        BY <1>2, <2>5, <3>2 DEF BestSet
      <4> QED BY <1>5, <2>7, <4>1 DEF BestLeads
    <3> QED BY <3>1, <3>2
  <2> QED BY <1>1, <2>4, <2>5, <2>6, <2>7 DEF BestSet
<1>9. CASE ~(m.queue[o.level][d] = <<>> /\ b.best[d] = p)
  <2>1. c = m
    BY <1>6, <1>9
  <2>2. BestBacked(m)
    <3> SUFFICES ASSUME NEW e \in Sides, b.best[e] # NoPrice
                 PROVE  b.best[e] \in Priced(m, e)
      BY <1>2 DEF BestBacked
    <3>1. \/ b.best[e] \in Priced(m, e)
          \/ b.best[e] = p /\ e = d
      BY <1>5 DEF BestBacked
    <3>2. CASE b.best[e] = p /\ e = d
      <4>1. m.queue[LevelFor(p)][d] # <<>>
        BY <1>4, <1>9, <3>2
      <4> QED BY <1>1, <1>3, <3>2, <4>1, QueuePriced
    <3> QED BY <3>1, <3>2
  <2>3. BestLeads(b) => BestLeads(m)
    BY <1>2, <1>5 DEF BestLeads
  <2> QED BY <1>1, <2>1, <2>2, <2>3
<1> QED BY <1>8, <1>9

-----------------------------------------------------------------------------
(* The public operations: when they are accepted, and what they do. *)

BookInv(b) == Sound(b) /\ TotalsSound(b) /\ BestBacked(b)

(* The orders os with o in the place of the order under reference r. *)
Changes(more, os, r, o) ==
  /\ r \in DOMAIN os
  /\ DOMAIN more = DOMAIN os
  /\ more[r] = o
  /\ \A x \in DOMAIN os \ {r} : more[x] = os[x]

(* The book as the constructor leaves it. *)
LEMMA InitInv ==
  /\ BookInv(EmptyBook) /\ BestLeads(EmptyBook)
  /\ DOMAIN Orders(EmptyBook) = {}
<1> DEFINE b == EmptyBook
<1>1. Sound(b)
  BY InitSound
<1>2. /\ \A r \in Refs : ~Live(b, r)
      /\ b.total = [l \in Levels |-> [d \in Sides |-> 0]]
      /\ b.best = [d \in Sides |-> NoPrice]
  BY DEF EmptyBook, Live
<1> HIDE DEF b
<1>3. DOMAIN Orders(b) = {} /\ \A d \in Sides : Priced(b, d) = {}
  BY <1>2 DEF Orders, Priced
<1>4. TotalsSound(b)
  <2> SUFFICES ASSUME NEW l \in Levels, NEW d \in Sides
               PROVE  TotalOf(Orders(b), l, d) % ShareSpan = 0
    BY <1>2 DEF TotalsSound
  <2>1. AtLevel(Orders(b), l, d) = {}
    BY <1>3 DEF AtLevel
  <2>2. TotalOf(Orders(b), l, d) = 0
    BY <2>1, SumEmpty DEF TotalOf, SumFunction
  <2> QED BY <2>2, ShareAssumption
<1>5. BestBacked(b) /\ BestLeads(b)
  BY <1>2, <1>3 DEF BestBacked, BestLeads
<1> QED BY <1>1, <1>3, <1>4, <1>5 DEF BookInv, b

(* What add_order does once its checks have passed. *)
LEMMA AddIsJoin ==
  ASSUME NEW b, Sound(b), NEW ref \in Refs, NEW price \in Prices,
         NEW shares \in 1 .. ShareSpan - 1, NEW d \in Sides,
         NEW trader \in Traders, ~Live(b, ref), b.free # <<>>,
         NEW r, r = add_order(b, ref, price, shares, d, trader),
         NEW o, o = NewOrder(ref, price, shares, d, trader)
  PROVE  /\ o \in Order /\ o.order_ref = ref /\ o.side = d /\ o.price = price
         /\ o.level = LevelFor(o.price)
         /\ r.ok
         /\ r.book = update_best_on_add(Joined(b, o), o.price, o.side)
<1> DEFINE s == Head(b.free)
           j == Joined(b, o)
<1>1. /\ o \in Order /\ o.order_ref = ref /\ o.side = d
      /\ o.level = LevelFor(o.price)
  BY NewOrderType
<1>2. o.price = price
  BY DEF NewOrder
<1>3. shares # 0
  OBVIOUS
<1>4. r.ok
  BY <1>3, AddAccepts
<1>5. Linked(b, o) = Link(Acquire(b, s, o), s, o)
  BY DEF Linked
<1>6. \/ r = Refused(Release(Delink(Linked(b, o), s, o), s))
      \/ r = Accepted(update_best_on_add(
               [Linked(b, o) EXCEPT !.index[ref] = s], price, d))
  BY <1>3, <1>5 DEF add_order, NewOrder
<1>7. j = [Linked(b, o) EXCEPT !.index[ref] = s]
  BY <1>1 DEF Joined
<1> HIDE DEF s, j
<1>8. r.book = update_best_on_add(j, price, d)
  BY <1>4, <1>6, <1>7 DEF Refused, Accepted
<1> QED BY <1>1, <1>2, <1>4, <1>8 DEF j

(* add_order. *)
LEMMA AddEffect ==
  ASSUME NEW b, BookInv(b), NEW ref \in Refs, NEW price \in Prices,
         NEW shares \in 0 .. ShareSpan - 1, NEW d \in Sides,
         NEW trader \in Traders,
         NEW r, r = add_order(b, ref, price, shares, d, trader)
  PROVE  /\ BookInv(r.book)
         /\ r.ok <=> shares # 0 /\ ~Live(b, ref) /\ b.free # <<>>
         /\ ~r.ok => r.book = b
         /\ r.ok => Extends(Orders(r.book), Orders(b), ref,
                            NewOrder(ref, price, shares, d, trader))
         /\ BestLeads(b) => BestLeads(r.book)
<1>1. Sound(b) /\ TotalsSound(b) /\ BestBacked(b)
  BY DEF BookInv
<1>2. CASE shares = 0 \/ Live(b, ref) \/ b.free = <<>>
  BY <1>2 DEF add_order, Refused
<1>3. CASE ~(shares = 0 \/ Live(b, ref) \/ b.free = <<>>)
  <2> DEFINE o == NewOrder(ref, price, shares, d, trader)
  <2>1. shares \in 1 .. ShareSpan - 1
    BY <1>3, ShareAssumption
  <2>2. /\ o \in Order /\ o.order_ref = ref /\ o.level = LevelFor(o.price)
        /\ r.ok
        /\ r.book = update_best_on_add(Joined(b, o), o.price, o.side)
    BY <1>1, <1>3, <2>1, AddIsJoin
  <2> HIDE DEF o
  <2>3. ~Live(b, o.order_ref)
    BY <1>3, <2>2
  <2>4. /\ Sound(r.book) /\ TotalsSound(r.book) /\ BestBacked(r.book)
        /\ Extends(Orders(r.book), Orders(b), o.order_ref, o)
        /\ BestLeads(b) => BestLeads(r.book)
    BY <1>1, <1>3, <2>2, <2>3, JoinedBest
  <2> QED BY <1>3, <2>2, <2>4 DEF BookInv, o
<1> QED BY <1>2, <1>3

(* reduce_shares before it looks whether the order is drained. *)
LEMMA ReducedBest ==
  ASSUME NEW b, BookInv(b), NEW s \in Slots, NEW o, o = b.slots[s], o \in Order,
         NEW delta \in 1 .. o.shares, NEW c, c = Reduced(b, s, delta)
  PROVE  /\ SoundBut(c, s) /\ c.slots[s] # NoOrder
         /\ delta # o.shares => Sound(c)
         /\ TotalsSound(c) /\ BestBacked(c)
         /\ Changes(Orders(c), Orders(b), o.order_ref,
                    [o EXCEPT !.shares = o.shares - delta])
         /\ NoWrap(b) => NoWrap(c)
         /\ BestLeads(b) => BestLeads(c)
<1> DEFINE n == [o EXCEPT !.shares = o.shares - delta]
           ref == o.order_ref
<1>1. Sound(b) /\ TotalsSound(b) /\ BestBacked(b)
  BY DEF BookInv
<1>2. /\ SoundBut(c, s) /\ c.slots[s] # NoOrder
      /\ delta # o.shares => Sound(c)
      /\ TotalsSound(c)
  BY <1>1, ReducedSound, ReducedTotals
<1>3. /\ DOMAIN Orders(c) = DOMAIN Orders(b)
      /\ ref \in DOMAIN Orders(b)
      /\ Orders(b)[ref] = o
      /\ Orders(c)[ref] = n
      /\ \A r \in DOMAIN Orders(b) \ {ref} : Orders(c)[r] = Orders(b)[r]
  BY <1>1, ReducedOrders
<1>4. /\ n.price = o.price /\ n.side = o.side /\ n.level = o.level
      /\ n.shares = o.shares - delta /\ o.shares \in Nat /\ delta \in Nat
      /\ delta <= o.shares
  BY ShareAssumption DEF Order
<1>5. c.best = b.best
  <2>1. o.level \in Levels /\ o.side \in Sides
    BY DEF Order
  <2> QED BY <1>1, <2>1 DEF Sound, Book, Reduced
<1> HIDE DEF n
<1>6. \A d : Priced(c, d) = Priced(b, d)
  <2>1. /\ DOMAIN Orders(c) = {x \in Refs : Live(c, x)}
        /\ DOMAIN Orders(b) = {x \in Refs : Live(b, x)}
        /\ \A x \in DOMAIN Orders(c) : Orders(c)[x] = OrderOf(c, x)
        /\ \A x \in DOMAIN Orders(b) : Orders(b)[x] = OrderOf(b, x)
    BY DEF Orders
  <2>2. \A x \in Refs : /\ Live(c, x) <=> Live(b, x)
                        /\ Live(b, x) => /\ OrderOf(c, x).price = OrderOf(b, x).price
                                         /\ OrderOf(c, x).side = OrderOf(b, x).side
    BY <1>3, <1>4, <2>1
  <2> QED BY <2>2 DEF Priced
<1>7. BestBacked(c) /\ (BestLeads(b) => BestLeads(c))
  BY <1>1, <1>5, <1>6 DEF BestBacked, BestLeads
<1>8. ASSUME NoWrap(b) PROVE NoWrap(c)
  <2> SUFFICES ASSUME NEW l \in Levels, NEW e \in Sides
               PROVE  TotalOf(Orders(c), l, e) < ShareSpan
    BY DEF NoWrap
  <2> DEFINE x == TotalOf(Orders(b), l, e)
             y == TotalOf(Orders(c), l, e)
             rest == [r \in DOMAIN Orders(b) \ {ref} |-> Orders(b)[r]]
             z == TotalOf(rest, l, e)
  <2>1. Extends(Orders(b), rest, ref, o) /\ Extends(Orders(c), rest, ref, n)
    BY <1>3 DEF Extends
  <2>2. Countable(rest)
    <3>1. Countable(Orders(b))
      BY <1>1, OrdersType
    <3>2. IsFiniteSet(DOMAIN Orders(b) \ {ref})
      BY <3>1, FS_RemoveElement DEF Countable
    <3> QED BY <3>1, <3>2 DEF Countable
  <2> HIDE DEF rest
  <2>3. o.shares \in Int /\ n.shares \in Int
    BY <1>4
  <2>4. /\ z \in Int
        /\ x = z + (IF o.level = l /\ o.side = e THEN o.shares ELSE 0)
    BY <2>1, <2>2, <2>3, TotalExtends
  <2>5. y = z + (IF n.level = l /\ n.side = e THEN n.shares ELSE 0)
    BY <2>1, <2>2, <2>3, TotalExtends
  <2>6. x < ShareSpan
    BY <1>8 DEF NoWrap
  <2> HIDE DEF x, y, z
  <2>7. y \in Int /\ x \in Int /\ y <= x
    <3>1. CASE o.level = l /\ o.side = e
      BY <1>4, <2>4, <2>5, <3>1
    <3>2. CASE ~(o.level = l /\ o.side = e)
      BY <1>4, <2>4, <2>5, <3>2
    <3> QED BY <3>1, <3>2
  <2>8. y < ShareSpan
    BY <2>6, <2>7, ShareAssumption
  <2> QED BY <2>8 DEF y
<1> QED BY <1>2, <1>3, <1>7, <1>8 DEF Changes, n

(* What reduce_shares does once its checks have passed. *)
LEMMA ReduceIsTake ==
  ASSUME NEW b, NEW ref \in Refs, Live(b, ref), NEW delta \in Nat,
         NEW s, s = b.index[ref], NEW o, o = b.slots[s], o.shares \in Nat,
         delta \in 1 .. o.shares, NEW c, c = Reduced(b, s, delta),
         NEW r, r = reduce_shares(b, ref, delta)
  PROVE  /\ r.ok
         /\ r.book = IF delta = o.shares THEN remove_order_fully(c, s) ELSE c
<1> DEFINE t == b.index[ref]
           w == b.slots[t]
           k == Reduced(b, t, delta)
<1>1. ~(delta = 0 \/ delta > w.shares)
  OBVIOUS
<1>2. reduce_shares(b, ref, delta)
        = Accepted(IF delta = w.shares THEN remove_order_fully(k, t) ELSE k)
  BY ONLY Live(b, ref), <1>1 DEF reduce_shares, Reduced
<1>3. t = s /\ w = o /\ k = c
  OBVIOUS
<1> HIDE DEF t, w, k
<1>4. r = Accepted(IF delta = o.shares THEN remove_order_fully(c, s) ELSE c)
  BY <1>2, <1>3
<1> QED BY <1>4 DEF Accepted

(* reduce_shares: execute_order and cancel_order. *)
LEMMA ReduceEffect ==
  ASSUME NEW b, BookInv(b), NEW ref \in Refs, NEW delta \in Nat,
         NEW r, r = reduce_shares(b, ref, delta), NEW o, o = OrderOf(b, ref)
  PROVE  /\ BookInv(r.book)
         /\ r.ok <=> Live(b, ref) /\ delta \in 1 .. o.shares
         /\ ~r.ok => r.book = b
         /\ r.ok /\ delta = o.shares => Extends(Orders(b), Orders(r.book), ref, o)
         /\ r.ok /\ delta # o.shares =>
              Changes(Orders(r.book), Orders(b), ref,
                      [o EXCEPT !.shares = o.shares - delta])
         /\ NoWrap(b) /\ BestLeads(b) => BestLeads(r.book)
<1> DEFINE s == b.index[ref]
           c == Reduced(b, s, delta)
<1>0. Sound(b)
  BY DEF BookInv
<1>1. CASE ~Live(b, ref)
  BY <1>1 DEF reduce_shares, Refused
<1>2. CASE Live(b, ref)
  <2>1. s \in Slots /\ o # NoOrder /\ o \in Order /\ o.order_ref = ref
    BY <1>0, <1>2, LiveOrder DEF OrderOf
  <2>2. o = b.slots[s]
    BY DEF OrderOf
  <2>3. o.shares \in Nat
    BY <2>1, ShareAssumption DEF Order
  <2>4. CASE delta = 0 \/ delta > o.shares
    <3>1. r = Refused(b)
      BY <1>2, <2>2, <2>4 DEF reduce_shares
    <3>2. ~(delta \in 1 .. o.shares)
      BY <2>3, <2>4
    <3> QED BY <3>1, <3>2 DEF Refused
  <2>5. CASE ~(delta = 0 \/ delta > o.shares)
    <3>1. delta \in 1 .. o.shares
      BY <2>3, <2>5
    <3>2. r.ok /\ r.book = IF delta = o.shares THEN remove_order_fully(c, s) ELSE c
      BY <1>2, <2>2, <2>3, <3>1, ReduceIsTake
    <3>3. /\ SoundBut(c, s) /\ c.slots[s] # NoOrder
          /\ delta # o.shares => Sound(c)
          /\ TotalsSound(c) /\ BestBacked(c)
          /\ Changes(Orders(c), Orders(b), ref,
                     [o EXCEPT !.shares = o.shares - delta])
          /\ NoWrap(b) => NoWrap(c)
          /\ BestLeads(b) => BestLeads(c)
      BY <2>1, <2>2, <3>1, ReducedBest
    <3> HIDE DEF c, s
    <3>4. CASE delta = o.shares
      <4> DEFINE a == remove_order_fully(c, s)
                 n == c.slots[s]
      <4>1. r.book = a
        BY <3>2, <3>4
      <4> HIDE DEF a
      <4>2. /\ Sound(a) /\ TotalsSound(a) /\ BestBacked(a)
            /\ Extends(Orders(c), Orders(a), n.order_ref, n)
            /\ NoWrap(c) /\ BestLeads(c) => BestLeads(a)
        BY <2>1, <3>3, RemoveBest DEF a
      <4>3. n.order_ref = ref
        <5>1. c.slots[s].order_ref = b.slots[s].order_ref
          <6>1. o.level \in Levels /\ o.side \in Sides
            BY <2>1 DEF Order
          <6> QED BY <1>0, <2>1, <2>2, <6>1 DEF Sound, Book, Reduced, c
        <5> QED BY <2>1, <2>2, <5>1
      <4> HIDE DEF n
      <4>4. Orders(b)[ref] = o
        BY <1>2 DEF Orders
      <4>5. Extends(Orders(b), Orders(a), ref, o)
        BY <3>3, <4>2, <4>3, <4>4 DEF Changes, Extends
      <4> QED BY <1>2, <3>1, <3>2, <3>3, <3>4, <4>1, <4>2, <4>5 DEF BookInv
    <3>5. CASE delta # o.shares
      <4>1. r.book = c
        BY <3>2, <3>5
      <4> QED BY <1>2, <3>1, <3>2, <3>3, <3>5, <4>1 DEF BookInv
    <3> QED BY <3>4, <3>5
  <2> QED BY <2>4, <2>5
<1> QED BY <1>1, <1>2

(* delete_order, and the first half of replace_order. *)
LEMMA RemoveEffect ==
  ASSUME NEW b, BookInv(b), NEW ref \in Refs, Live(b, ref),
         NEW o, o = OrderOf(b, ref),
         NEW c, c = remove_order_fully(b, b.index[ref])
  PROVE  /\ BookInv(c) /\ c.free # <<>>
         /\ Extends(Orders(b), Orders(c), ref, o)
         /\ NoWrap(b) /\ BestLeads(b) => BestLeads(c)
<1> DEFINE s == b.index[ref]
<1>0. Sound(b) /\ TotalsSound(b) /\ BestBacked(b)
  BY DEF BookInv
<1>1. s \in Slots /\ b.slots[s] # NoOrder /\ b.slots[s].order_ref = ref
      /\ o = b.slots[s]
  BY <1>0, LiveOrder DEF OrderOf
<1>2. SoundBut(b, s)
  BY <1>0, <1>1, SoundIsSoundBut
<1>3. c.free # <<>>
  BY <1>1, <1>2, RemoveFrees
<1>4. /\ Sound(c) /\ TotalsSound(c) /\ BestBacked(c)
      /\ Extends(Orders(b), Orders(c), o.order_ref, o)
      /\ NoWrap(b) /\ BestLeads(b) => BestLeads(c)
  BY <1>0, <1>1, <1>2, RemoveBest
<1> QED BY <1>1, <1>3, <1>4 DEF BookInv

(* delete_order. *)
LEMMA DeleteEffect ==
  ASSUME NEW b, BookInv(b), NEW ref \in Refs, NEW r, r = delete_order(b, ref)
  PROVE  /\ BookInv(r.book)
         /\ r.ok <=> Live(b, ref)
         /\ ~r.ok => r.book = b
         /\ r.ok => Extends(Orders(b), Orders(r.book), ref, OrderOf(b, ref))
         /\ NoWrap(b) /\ BestLeads(b) => BestLeads(r.book)
<1>1. CASE ~Live(b, ref)
  BY <1>1 DEF delete_order, Refused
<1>2. CASE Live(b, ref)
  BY <1>2, RemoveEffect DEF delete_order, Accepted
<1> QED BY <1>1, <1>2

(* replace_order: the old order goes and the new one comes, or neither. *)
LEMMA ReplaceEffect ==
  ASSUME NEW b, BookInv(b), NEW old \in Refs, NEW new \in Refs,
         NEW shares \in 0 .. ShareSpan - 1, NEW price \in Prices,
         NEW r, r = replace_order(b, old, new, shares, price),
         NEW o, o = OrderOf(b, old)
  PROVE  /\ BookInv(r.book)
         /\ r.ok <=> /\ Live(b, old) /\ shares # 0
                     /\ old = new \/ ~Live(b, new)
         /\ ~r.ok => r.book = b
         /\ r.ok => \E os : /\ Extends(Orders(b), os, old, o)
                            /\ Extends(Orders(r.book), os, new,
                                       NewOrder(new, price, shares, o.side, 0))
         /\ NoWrap(b) /\ BestLeads(b) => BestLeads(r.book)
<1>1. CASE ~Live(b, old) \/ shares = 0 \/ (old # new /\ Live(b, new))
  BY <1>1 DEF replace_order, Refused
<1>2. CASE ~(~Live(b, old) \/ shares = 0 \/ (old # new /\ Live(b, new)))
  <2> DEFINE m == remove_order_fully(b, b.index[old])
  <2>1. /\ BookInv(m) /\ m.free # <<>>
        /\ Extends(Orders(b), Orders(m), old, o)
        /\ NoWrap(b) /\ BestLeads(b) => BestLeads(m)
    BY <1>2, RemoveEffect
  <2>2. r = add_order(m, new, price, shares, o.side, 0)
    BY <1>2 DEF replace_order
  <2>3. o.side \in Sides /\ 0 \in Traders
    BY <1>2, LiveOrder, TraderAssumption DEF Order, OrderOf, BookInv
  <2> HIDE DEF m
  <2>4. ~Live(m, new)
    <3>1. /\ DOMAIN Orders(m) = {x \in Refs : Live(m, x)}
          /\ DOMAIN Orders(b) = {x \in Refs : Live(b, x)}
      BY DEF Orders
    <3> QED BY <1>2, <2>1, <3>1 DEF Extends
  <2>5. /\ BookInv(r.book)
        /\ r.ok <=> shares # 0 /\ ~Live(m, new) /\ m.free # <<>>
        /\ r.ok => Extends(Orders(r.book), Orders(m), new,
                           NewOrder(new, price, shares, o.side, 0))
        /\ BestLeads(m) => BestLeads(r.book)
    BY <2>1, <2>2, <2>3, AddEffect
  <2> QED BY <1>2, <2>1, <2>4, <2>5
<1> QED BY <1>1, <1>2

(* The pool is used up exactly when as many orders rest as it has slots. *)
LEMMA PoolCount ==
  ASSUME NEW b, Sound(b), NEW R, R = {r \in Refs : Live(b, r)}
  PROVE  /\ IsFiniteSet(R)
         /\ b.free = <<>> <=> Cardinality(R) >= OrderCapacity
<1>1. IsFiniteSet(R)
  BY OrdersType DEF Countable
<1>2. Cardinality(R) \in Nat /\ OrderCapacity \in Nat
  BY <1>1, FS_CardinalityType, CapacityAssumption
<1>3. ASSUME b.free # <<>> PROVE Cardinality(R) < OrderCapacity
  <2> DEFINE s == Head(b.free)
             f == [r \in R |-> b.index[r]]
  <2>1. s \in Slots /\ b.slots[s] = NoOrder
    <3>1. b.free \in Seq(Slots)
      BY DEF Sound, Book
    <3>2. s \in Slots /\ s = b.free[1] /\ 1 \in 1 .. Len(b.free)
      BY <1>3, <3>1, PopFacts
    <3> QED BY <3>2 DEF Sound, BookCoherent, FreeListSound
  <2>2. \A r \in R : /\ b.index[r] \in Slots \ {s}
                     /\ b.slots[b.index[r]].order_ref = r
    BY <2>1, LiveOrder
  <2>3. f \in Injection(R, Slots \ {s})
    <3> HIDE DEF s
    <3> QED BY <2>2, Fun_IsInj
  <2>4. IsFiniteSet(Slots) /\ Cardinality(Slots) = OrderCapacity
    <3>1. /\ IsFiniteSet(1 .. OrderCapacity)
          /\ Cardinality(1 .. OrderCapacity)
               = IF 1 > OrderCapacity THEN 0 ELSE OrderCapacity - 1 + 1
      BY <1>2, FS_Interval
    <3> QED BY <1>2, <3>1 DEF Slots
  <2>5. /\ IsFiniteSet(Slots \ {s})
        /\ Cardinality(Slots \ {s}) = OrderCapacity - 1
    BY <2>1, <2>4, FS_RemoveElement
  <2> HIDE DEF s, f
  <2>6. Cardinality(R) <= OrderCapacity - 1
    BY <2>3, <2>5, FS_Injection
  <2> QED BY <1>2, <2>6
<1>4. ASSUME b.free = <<>> PROVE Cardinality(R) >= OrderCapacity
  <2> DEFINE f == [s \in Slots |-> b.slots[s].order_ref]
  <2>1. b.slots \in [Slots -> Order \cup {NoOrder}]
    BY DEF Sound, Book
  <2>2. \A s \in Slots : b.slots[s] # NoOrder
    BY <1>4 DEF Sound, BookCoherent, NoSlotLeaks
  <2>3. \A s \in Slots : b.slots[s].order_ref \in R
                         /\ b.index[b.slots[s].order_ref] = s
    <3> SUFFICES ASSUME NEW s \in Slots
                 PROVE  b.slots[s].order_ref \in R
                        /\ b.index[b.slots[s].order_ref] = s
      OBVIOUS
    <3>1. b.slots[s] \in Order
      BY <2>1, <2>2
    <3>2. b.slots[s].order_ref \in Refs
      BY <3>1 DEF Order
    <3>3. b.index[b.slots[s].order_ref] = s /\ s # NoSlot
      BY <2>2 DEF Sound, BookCoherent, OrdersReachable, Slots, NoSlot
    <3> QED BY <3>2, <3>3 DEF Live
  <2>4. f \in Injection(Slots, R)
    BY <2>3, Fun_IsInj
  <2>5. Cardinality(Slots) = OrderCapacity
    <3>1. Cardinality(1 .. OrderCapacity)
            = IF 1 > OrderCapacity THEN 0 ELSE OrderCapacity - 1 + 1
      BY <1>2, FS_Interval
    <3> QED BY <1>2, <3>1 DEF Slots
  <2> HIDE DEF f
  <2>6. Cardinality(Slots) <= Cardinality(R)
    BY <1>1, <2>4, FS_Injection
  <2> QED BY <1>2, <2>5, <2>6
<1> QED BY <1>1, <1>2, <1>3, <1>4

(* No more orders rest than the pool has slots. *)
LEMMA PoolBound ==
  ASSUME NEW b, Sound(b), NEW R, R = {r \in Refs : Live(b, r)}
  PROVE  Cardinality(R) <= OrderCapacity
<1> DEFINE f == [r \in R |-> b.index[r]]
<1>1. \A r \in R : b.index[r] \in Slots /\ b.slots[b.index[r]].order_ref = r
  BY LiveOrder
<1>2. f \in Injection(R, Slots)
  BY <1>1, Fun_IsInj
<1>3. IsFiniteSet(Slots) /\ Cardinality(Slots) = OrderCapacity
  <2>1. /\ IsFiniteSet(1 .. OrderCapacity)
        /\ Cardinality(1 .. OrderCapacity)
             = IF 1 > OrderCapacity THEN 0 ELSE OrderCapacity - 1 + 1
    BY CapacityAssumption, FS_Interval
  <2> QED BY CapacityAssumption, <2>1 DEF Slots
<1> HIDE DEF f
<1> QED BY <1>2, <1>3, FS_Injection
=============================================================================
