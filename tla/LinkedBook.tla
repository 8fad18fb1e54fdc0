----------------------------- MODULE LinkedBook -----------------------------
(***************************************************************************)
(* book::OrderBook on its three containers: orders live in the slots of an *)
(* ObjectPool, are linked by IntrusiveLists through their own members, and *)
(* are found through an OpenAddressingHashMap with probing and tombstones. *)
(* OrderBook.tla sees the same containers by their contracts; here every   *)
(* operation is the code's sequence of container calls, and the book is    *)
(* shown to implement the one of OrderBook.tla.                            *)
(*                                                                         *)
(* A linked book b is a record: b.pool, b.index (values of ObjectPool and  *)
(* HashMap), b.lists[l][d] (the bids and asks of level l), b.total and     *)
(* b.best (as in OrderBookOps, whose level and best-price operators work   *)
(* on it unchanged).  An Order* is the number of its pool slot.            *)
(***************************************************************************)
EXTENDS Integers, Sequences, FiniteSets

CONSTANTS Refs, Prices, Traders, ReferencePrice, HalfWidth, OrderCapacity,
          PriceSpan, ShareSpan, ShareInputs,
          Hashes    \* the hash functions of order_index_ considered

VARIABLE linked

Nullptr == 0

Pool == INSTANCE ObjectPool WITH PoolCapacity <- OrderCapacity

List == INSTANCE IntrusiveList WITH Nodes <- 1 .. OrderCapacity, Null <- Nullptr

(* The map is built for order_capacity keys; what it does not hold it      *)
(* answers with a null pointer.                                            *)
Index == INSTANCE HashMap
           WITH Keys <- Refs, Values <- 1 .. OrderCapacity, NoValue <- Nullptr,
                CapacityHint <- OrderCapacity, MaxLive <- OrderCapacity,
                map <- linked.index

(* The members of an order that the abstract book shows. *)
Visible(order) ==
  [order_ref |-> order.order_ref, price |-> order.price,
   shares |-> order.shares, side |-> order.side,
   trader_id |-> order.trader_id, level |-> order.level]

(* The linked book as OrderBook.tla sees it: queues by walking the links,  *)
(* the free list by walking the free slots, the index by asking it.        *)
Abstraction(b) ==
  [queue |-> [l \in DOMAIN b.lists |->
                [d \in DOMAIN b.lists[l] |->
                   List!Forward(b.pool.slots, b.lists[l][d])]],
   total |-> b.total,
   slots |-> [s \in 1 .. OrderCapacity |->
                IF Pool!InUse(b.pool.slots[s])
                THEN Visible(b.pool.slots[s])
                ELSE [order_ref |-> 0, price |-> 0, shares |-> 0,
                      side |-> "sell", trader_id |-> 0, level |-> <<"null", 0>>]],
   free  |-> Pool!FreeChain(b.pool),
   index |-> [r \in Refs |-> Index!find(b.index, r)],
   best  |-> b.best]

Book == INSTANCE OrderBook
          WITH IndexCapacity <- Index!Capacity, book <- Abstraction(linked)

(* The types of the arguments; 0 is the trader of an order without one,    *)
(* and a hash gives each reference a home in the table.                    *)
ASSUME LinkedAssumption ==
  /\ OrderCapacity \in Nat /\ Refs \subseteq Nat
  /\ PriceSpan \in Nat \ {0} /\ Prices \subseteq 0 .. PriceSpan - 1
  /\ ReferencePrice \in 0 .. PriceSpan - 1 /\ HalfWidth \in Nat
  /\ ShareSpan \in Nat \ {0} /\ ShareInputs \subseteq 0 .. ShareSpan - 1
  /\ Traders \subseteq Nat /\ 0 \in Traders
  /\ Hashes \subseteq Index!Homes

-----------------------------------------------------------------------------
(* Order{}: what acquire() constructs. *)
NewOrder ==
  [order_ref |-> 0, price |-> 0, shares |-> 0, side |-> "sell",
   trader_id |-> 0, level |-> <<"null", 0>>, prev |-> Nullptr, next |-> Nullptr]

EmptyLinkedBook(hash) ==
  [pool  |-> Pool!NewPool,
   index |-> Index!EmptyMap(hash),
   lists |-> [l \in Book!Levels |-> [d \in Book!Sides |-> List!EmptyList]],
   total |-> [l \in Book!Levels |-> [d \in Book!Sides |-> 0]],
   best  |-> [d \in Book!Sides |-> Book!NoPrice]]

(* push_back and remove on the list of the level and side of order s, with *)
(* the level's total.                                                      *)
Enqueue(b, s) ==
  LET o == b.pool.slots[s]
      r == List!push_back(b.pool.slots, b.lists[o.level][o.side], s)
  IN  [b EXCEPT !.pool.slots = r.nodes,
                !.lists[o.level][o.side] = r.list,
                !.total[o.level][o.side] = (@ + o.shares) % ShareSpan]

Dequeue(b, s) ==
  LET o == b.pool.slots[s]
      r == List!remove(b.pool.slots, b.lists[o.level][o.side], s)
  IN  [b EXCEPT !.pool.slots = r.nodes,
                !.lists[o.level][o.side] = r.list,
                !.total[o.level][o.side] = (@ - o.shares) % ShareSpan]

(* Mutant: the order's key stays in the index. *)
remove_order_still_indexed(b, s) ==
  LET o        == b.pool.slots[s]
      dequeued == Dequeue(b, s)
      removed  == [dequeued EXCEPT !.pool = Pool!release(@, s)]
  IN  IF /\ removed.lists[o.level][o.side].head = Nullptr
         /\ b.best[o.side] = o.price
      THEN Book!recompute_best_after_level_emptied(removed, o.side)
      ELSE removed

(* Level, side and price are copied first; the key is read from the order  *)
(* before its slot goes back to the pool; emptiness is asked of the level  *)
(* afterwards.                                                             *)
remove_order_fully(b, s) ==
  LET o        == b.pool.slots[s]
      dequeued == Dequeue(b, s)
      erased   == [dequeued EXCEPT !.index =
                     Index!erase(@, dequeued.pool.slots[s].order_ref).map]
      removed  == [erased EXCEPT !.pool = Pool!release(@, s)]
  IN  IF /\ removed.lists[o.level][o.side].head = Nullptr
         /\ b.best[o.side] = o.price
      THEN Book!recompute_best_after_level_emptied(removed, o.side)
      ELSE removed

Refused(b)  == [ok |-> FALSE, book |-> b]
Accepted(b) == [ok |-> TRUE,  book |-> b]

(* The book with an order that has been acquired, filled in and enqueued,  *)
(* before it is inserted in the index.                                     *)
Enqueued(b, ref, price, shares, d, trader) ==
  LET acquired == Pool!acquire(b.pool, NewOrder)
      filled   == [acquired.pool.slots[acquired.ptr] EXCEPT
                     !.order_ref = ref, !.price = price, !.shares = shares,
                     !.side = d, !.trader_id = trader,
                     !.level = Book!LevelFor(price)]
  IN  Enqueue([b EXCEPT !.pool = [acquired.pool EXCEPT
                                    !.slots[acquired.ptr] = filled]],
              acquired.ptr)

add_order(b, ref, price, shares, d, trader) ==
  IF \/ shares = 0
     \/ Index!find(b.index, ref) # Nullptr
     \/ b.pool.free_head = Pool!None
  THEN Refused(b)
  ELSE LET s        == b.pool.free_head
           enqueued == Enqueued(b, ref, price, shares, d, trader)
           inserted == Index!insert(enqueued.index, ref, s)
       IN  IF inserted.ok
           THEN Accepted(Book!update_best_on_add(
                           [enqueued EXCEPT !.index = inserted.map], price, d))
           ELSE Refused([Dequeue(enqueued, s) EXCEPT
                           !.pool = Pool!release(@, s)])

reduce_shares(b, ref, delta) ==
  LET s == Index!find(b.index, ref)
      o == b.pool.slots[s]
      reduced == [b EXCEPT !.pool.slots[s].shares = @ - delta,
                           !.total[o.level][o.side] = (@ - delta) % ShareSpan]
  IN  IF s = Nullptr \/ delta = 0 \/ (s # Nullptr /\ delta > o.shares)
      THEN Refused(b)
      ELSE Accepted(IF reduced.pool.slots[s].shares = 0
                    THEN remove_order_fully(reduced, s)
                    ELSE reduced)

delete_order(b, ref) ==
  LET s == Index!find(b.index, ref)
  IN  IF s = Nullptr THEN Refused(b) ELSE Accepted(remove_order_fully(b, s))

replace_order(b, old, new, shares, price) ==
  LET s == Index!find(b.index, old)
  IN  IF \/ s = Nullptr
         \/ shares = 0
         \/ old # new /\ Index!find(b.index, new) # Nullptr
      THEN Refused(b)
      ELSE add_order(remove_order_fully(b, s), new, price, shares,
                     b.pool.slots[s].side, 0)

-----------------------------------------------------------------------------
Init == \E hash \in Hashes : linked = EmptyLinkedBook(hash)

AddOrder(ref, price, shares, d, trader) ==
  linked' = add_order(linked, ref, price, shares, d, trader).book

(* execute_order and cancel_order. *)
ReduceShares(ref, delta) == linked' = reduce_shares(linked, ref, delta).book

DeleteOrder(ref) == linked' = delete_order(linked, ref).book

ReplaceOrder(old, new, shares, price) ==
  linked' = replace_order(linked, old, new, shares, price).book

Next ==
  \/ \E r \in Refs, p \in Prices, n \in ShareInputs, d \in Book!Sides,
        t \in Traders : AddOrder(r, p, n, d, t)
  \/ \E r \in Refs, n \in ShareInputs : ReduceShares(r, n)
  \/ \E r \in Refs : DeleteOrder(r)
  \/ \E old, new \in Refs, n \in ShareInputs, p \in Prices :
       ReplaceOrder(old, new, n, p)

Spec == Init /\ [][Next]_linked

-----------------------------------------------------------------------------
(* The call c of the linked book and the call a of the abstract book give  *)
(* the same answer and the same book.                                      *)
Agree(c, a) == c.ok = a.ok /\ Abstraction(c.book) = a.book

(* The book on its real containers implements the book on their contracts: *)
(* from every state every call gives the abstract call's answer and leaves *)
(* the abstract call's queues, totals, orders, free list, index and best   *)
(* prices, whatever the hash, the tombstones and the state of the links.   *)
ImplementsBook ==
  LET book == Abstraction(linked) IN
  /\ \A r \in Refs, p \in Prices, n \in ShareInputs, d \in Book!Sides, t \in Traders :
       Agree(add_order(linked, r, p, n, d, t),
             Book!add_order(book, r, p, n, d, t))
  /\ \A r \in Refs, n \in ShareInputs :
       Agree(reduce_shares(linked, r, n), Book!reduce_shares(book, r, n))
  /\ \A r \in Refs : Agree(delete_order(linked, r), Book!delete_order(book, r))
  /\ \A old, new \in Refs, n \in ShareInputs, p \in Prices :
       Agree(replace_order(linked, old, new, n, p),
             Book!replace_order(book, old, new, n, p))

(* What the four structures say of one another through raw pointers: the   *)
(* index finds exactly the orders in the pool, each under its own          *)
(* reference; each is on the list of its level and side, forwards and      *)
(* backwards; every other slot is on the free list.                        *)
PointersSound ==
  LET live == {s \in 1 .. OrderCapacity : Pool!InUse(linked.pool.slots[s])} IN
  /\ Pool!Partitioned(linked.pool, live)
  /\ Index!FindExact
  /\ \A s \in live :
       LET o == linked.pool.slots[s]
           q == List!Forward(linked.pool.slots, linked.lists[o.level][o.side])
       IN  /\ Index!find(linked.index, o.order_ref) = s
           /\ \E i \in DOMAIN q : q[i] = s
  /\ \A l \in DOMAIN linked.lists : \A d \in DOMAIN linked.lists[l] :
       LET list == linked.lists[l][d]
           q    == List!Forward(linked.pool.slots, list)
       IN  /\ Len(q) <= Cardinality(live)
           /\ List!Mirrored(linked.pool.slots, list)
  /\ linked.index.size = Cardinality(live)
=============================================================================
