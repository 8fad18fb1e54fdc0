---------------------------- MODULE OrderBookOps ----------------------------
(***************************************************************************)
(* The operations of book::OrderBook (book/order_book.cpp) as functions    *)
(* from a book value to a book value.  OrderBook.tla runs them as actions, *)
(* MatchingEngine.tla calls them from its matching loop.                   *)
(*                                                                         *)
(* A book value b is a record with one field per member of the class:      *)
(*   b.queue[l][d]  the FIFO PriceLevel::bids / asks of level l, oldest    *)
(*                  first, as a sequence of pool slots (an Order* is the   *)
(*                  number of the pool slot it points into)                *)
(*   b.total[l][d]  PriceLevel::total_bid_shares / total_ask_shares        *)
(*   b.slots[s]     the Order in slot s of order_pool_                     *)
(*   b.free         the pool's free list, head first                       *)
(*   b.index[r]     order_index_: the slot of order reference r, or NoSlot *)
(*   b.best[d]      has_best_bid_/best_bid_price_ (and ask) as an optional *)
(* Side "buy" stands for is_buy = true and the bids, "sell" for the asks.  *)
(*                                                                         *)
(* The three containers appear here by their contracts: the pool as a LIFO *)
(* list of free slots, an intrusive list as a sequence, the hash map as a  *)
(* partial function that refuses an insert when it is full.                *)
(***************************************************************************)
EXTENDS Integers, Sequences, FiniteSets, FiniteSetsExt

CONSTANTS
  Refs,            \* order reference numbers (itch::OrderRef) in use
  Prices,          \* prices (itch::Price4) that orders arrive with
  Traders,         \* trader ids in use; 0 is "no trader"
  ReferencePrice,  \* reference_price_
  HalfWidth,       \* flat_array_half_width_
  OrderCapacity,   \* order_capacity: number of slots of order_pool_
  IndexCapacity,   \* capacity of order_index_
  PriceSpan,       \* number of values of Price4 (2^32 in the code)
  ShareSpan        \* number of values of Shares (2^32 in the code)

ASSUME PriceAssumption ==
  /\ PriceSpan \in Nat \ {0}
  /\ Prices \subseteq 0 .. PriceSpan - 1
  /\ ReferencePrice \in 0 .. PriceSpan - 1
  /\ HalfWidth \in Nat

ASSUME RefAssumption == Refs \subseteq Nat

ASSUME ShareAssumption == ShareSpan \in Nat \ {0}

ASSUME TraderAssumption == Traders \subseteq Nat /\ 0 \in Traders

(***************************************************************************)
(* The hash map is built with capacity_hint = order_capacity and rounds it *)
(* up to a power of two, at least 1; the pool has exactly order_capacity.  *)
(***************************************************************************)
ASSUME CapacityAssumption ==
  /\ OrderCapacity \in Nat
  /\ IndexCapacity \in Nat \ {0}
  /\ IndexCapacity >= OrderCapacity

NoPrice == -1      \* an empty std::optional<Price4>
NoSlot  == 0       \* nullptr

Sides    == {"buy", "sell"}
Opposite == [buy |-> "sell", sell |-> "buy"]

Slots == 1 .. OrderCapacity

(***************************************************************************)
(* Levels.  Slot i of flat_levels_ is <<"flat", i>>; the entry of          *)
(* outlier_levels_ for price p is <<"outlier", p>>.  An outlier entry that *)
(* try_emplace has not created yet is modelled as an empty level: no       *)
(* caller tells the two apart (shares_at answers 0, every scan skips it).  *)
(***************************************************************************)
FlatSlots == 0 .. 2 * HalfWidth

Outliers == {p \in Prices : p - ReferencePrice \notin -HalfWidth .. HalfWidth}

Levels == ({"flat"} \X FlatSlots) \cup ({"outlier"} \X Outliers)

(* Mutant: flat_index_for computes in the type of a price and wraps. *)
LevelFor_wrapped(price) ==
  LET index == (price - ReferencePrice + HalfWidth) % PriceSpan
  IN  IF index \in FlatSlots THEN <<"flat", index>> ELSE <<"outlier", price>>

(* flat_index_for, level_for_mutation and level_for_query. *)
LevelFor(price) ==
  LET offset == price - ReferencePrice
  IN  IF offset \in -HalfWidth .. HalfWidth
      THEN <<"flat", offset + HalfWidth>>
      ELSE <<"outlier", price>>

(* The price the constructor stores in a flat slot: a cast to 32 bits. *)
FlatPrice(i) == (ReferencePrice + i - HalfWidth) % PriceSpan

(***************************************************************************)
(* Orders.  A slot that holds no order has the contents of Order{}: its    *)
(* memory is the free list's then, and the model never reads it.           *)
(***************************************************************************)
NoLevel == <<"null", 0>>

NoOrder == [order_ref |-> 0, price |-> 0, shares |-> 0, side |-> "sell",
            trader_id |-> 0, level |-> NoLevel]

Order == [order_ref : Refs, price : Prices, shares : 1 .. ShareSpan - 1,
          side : Sides, trader_id : Traders, level : Levels]

(* A book as the constructor leaves it. *)
EmptyBook ==
  [queue |-> [l \in Levels |-> [d \in Sides |-> <<>>]],
   total |-> [l \in Levels |-> [d \in Sides |-> 0]],
   slots |-> [s \in Slots |-> NoOrder],
   free  |-> [i \in 1 .. OrderCapacity |-> i],
   index |-> [r \in Refs |-> NoSlot],
   best  |-> [d \in Sides |-> NoPrice]]

Live(b, ref) == b.index[ref] # NoSlot

OrderOf(b, ref) == b.slots[b.index[ref]]

order_count(b) == Cardinality({r \in Refs : Live(b, r)})

-----------------------------------------------------------------------------
(* Best prices. *)

(* Price p ranks strictly before price q on side d. *)
Better(d, p, q) == IF d = "buy" THEN p > q ELSE p < q

(* The better of two optional prices. *)
BetterOf(d, p, q) ==
  CASE p = NoPrice -> q
    [] q = NoPrice -> p
    [] OTHER       -> IF Better(d, q, p) THEN q ELSE p

BestIn(d, ps) ==
  IF ps = {} THEN NoPrice ELSE IF d = "buy" THEN Max(ps) ELSE Min(ps)

(***************************************************************************)
(* The scan shared by recompute_best_after_level_emptied and               *)
(* next_level_after: the first flat slot, from the better end of the       *)
(* array, with shares on side d and a price in within; the best such       *)
(* outlier; then the better of the two.                                    *)
(***************************************************************************)
ScanLevels(b, d, within) ==
  LET flat      == {i \in FlatSlots : /\ b.total[<<"flat", i>>][d] > 0
                                      /\ FlatPrice(i) \in within}
      inFlat    == IF flat = {} THEN NoPrice ELSE FlatPrice(BestIn(d, flat))
      inOutlier == BestIn(d, {p \in Outliers \cap within :
                                b.total[<<"outlier", p>>][d] > 0})
  IN  BetterOf(d, inFlat, inOutlier)

recompute_best_after_level_emptied(b, d) ==
  [b EXCEPT !.best[d] = ScanLevels(b, d, 0 .. PriceSpan - 1)]

(* Mutant: the walk may answer the level it starts from. *)
next_level_not_strict(b, price, d) ==
  ScanLevels(b, d, {p \in 0 .. PriceSpan - 1 : ~Better(d, p, price)})

(* The price of the next non-empty level strictly worse than price. *)
next_level_after(b, price, d) ==
  ScanLevels(b, d, {p \in 0 .. PriceSpan - 1 : Better(d, price, p)})

update_best_on_add(b, price, d) ==
  IF b.best[d] = NoPrice \/ Better(d, price, b.best[d])
  THEN [b EXCEPT !.best[d] = price]
  ELSE b

shares_at(b, price, d) == b.total[LevelFor(price)][d]

-----------------------------------------------------------------------------
(* Containers. *)

(* Mutant: the last node takes the place of the one removed. *)
UnlinkSwap(q, s) ==
  LET k == CHOOSE k \in 1 .. Len(q) : q[k] = s
  IN  [i \in 1 .. Len(q) - 1 |-> IF i = k THEN q[Len(q)] ELSE q[i]]

(* IntrusiveList::remove: the queue without node s, the others in order. *)
Unlink(q, s) ==
  LET k == CHOOSE k \in 1 .. Len(q) : q[k] = s
  IN  [i \in 1 .. Len(q) - 1 |-> IF i < k THEN q[i] ELSE q[i + 1]]

(* Queue and total of the level an order joins, then of one it leaves. *)
Link(b, s, o) ==
  [b EXCEPT !.queue[o.level][o.side] = Append(@, s),
            !.total[o.level][o.side] = (@ + o.shares) % ShareSpan]

Delink(b, s, o) ==
  [b EXCEPT !.queue[o.level][o.side] = Unlink(@, s),
            !.total[o.level][o.side] = (@ - o.shares) % ShareSpan]

(* ObjectPool::acquire and release: the free list is a stack. *)
Acquire(b, s, o) == [b EXCEPT !.free = Tail(@), !.slots[s] = o]

Release(b, s) == [b EXCEPT !.free = <<s>> \o @, !.slots[s] = NoOrder]

(* OpenAddressingHashMap::insert refuses a new key only when it is full. *)
IndexFull(b) == order_count(b) >= IndexCapacity

-----------------------------------------------------------------------------
(* The public operations: each answers [ok, book]. *)

Refused(b)  == [ok |-> FALSE, book |-> b]
Accepted(b) == [ok |-> TRUE,  book |-> b]

(* Mutant: the order is not taken out of its level's queue. *)
remove_order_still_linked(b, s) ==
  LET o       == b.slots[s]
      removed == [b EXCEPT !.total[o.level][o.side] = (@ - o.shares) % ShareSpan,
                           !.index[o.order_ref] = NoSlot]
  IN  Release(removed, s)

(* Mutant: a level counts as emptied only when both of its sides are. *)
remove_order_both_sides(b, s) ==
  LET o       == b.slots[s]
      erased  == [Delink(b, s, o) EXCEPT !.index[o.order_ref] = NoSlot]
      removed == Release(erased, s)
  IN  IF /\ \A d \in Sides : removed.queue[o.level][d] = <<>>
         /\ b.best[o.side] = o.price
      THEN recompute_best_after_level_emptied(removed, o.side)
      ELSE removed

remove_order_fully(b, s) ==
  LET o       == b.slots[s]
      erased  == [Delink(b, s, o) EXCEPT !.index[o.order_ref] = NoSlot]
      removed == Release(erased, s)
  IN  IF removed.queue[o.level][o.side] = <<>> /\ b.best[o.side] = o.price
      THEN recompute_best_after_level_emptied(removed, o.side)
      ELSE removed

(* Mutant: no check for a reference that is already live. *)
add_order_unchecked(b, ref, price, shares, d, trader) ==
  IF shares = 0 \/ b.free = <<>>
  THEN Refused(b)
  ELSE LET s == Head(b.free)
           o == [order_ref |-> ref, price |-> price, shares |-> shares,
                 side |-> d, trader_id |-> trader, level |-> LevelFor(price)]
       IN  Accepted(update_best_on_add(
                      [Link(Acquire(b, s, o), s, o) EXCEPT !.index[ref] = s],
                      price, d))

add_order(b, ref, price, shares, d, trader) ==
  IF shares = 0 \/ Live(b, ref) \/ b.free = <<>>
  THEN Refused(b)
  ELSE LET s      == Head(b.free)
           o      == [order_ref |-> ref, price |-> price, shares |-> shares,
                      side |-> d, trader_id |-> trader,
                      level |-> LevelFor(price)]
           linked == Link(Acquire(b, s, o), s, o)
       IN  IF IndexFull(linked)
           THEN Refused(Release(Delink(linked, s, o), s))
           ELSE Accepted(update_best_on_add(
                           [linked EXCEPT !.index[ref] = s], price, d))

(* Mutant: an order whose last share is gone stays in the book. *)
reduce_shares_keeps_empty(b, ref, delta) ==
  IF ~Live(b, ref)
  THEN Refused(b)
  ELSE LET s == b.index[ref]
           o == b.slots[s]
       IN  IF delta = 0 \/ delta > o.shares
           THEN Refused(b)
           ELSE Accepted([b EXCEPT !.slots[s].shares = @ - delta,
                                   !.total[o.level][o.side] =
                                      (@ - delta) % ShareSpan])

(* Mutant: a partial reduction leaves the level's total as it was. *)
reduce_shares_keeps_total(b, ref, delta) ==
  IF ~Live(b, ref)
  THEN Refused(b)
  ELSE LET s == b.index[ref]
           o == b.slots[s]
       IN  IF delta = 0 \/ delta > o.shares
           THEN Refused(b)
           ELSE Accepted(IF delta = o.shares
                         THEN remove_order_fully(b, s)
                         ELSE [b EXCEPT !.slots[s].shares = @ - delta])

reduce_shares(b, ref, delta) ==
  IF ~Live(b, ref)
  THEN Refused(b)
  ELSE LET s == b.index[ref]
           o == b.slots[s]
           reduced == [b EXCEPT !.slots[s].shares = @ - delta,
                                !.total[o.level][o.side] =
                                   (@ - delta) % ShareSpan]
       IN  IF delta = 0 \/ delta > o.shares
           THEN Refused(b)
           ELSE Accepted(IF delta = o.shares
                         THEN remove_order_fully(reduced, s)
                         ELSE reduced)

execute_order(b, ref, shares) == reduce_shares(b, ref, shares)

cancel_order(b, ref, shares) == reduce_shares(b, ref, shares)

delete_order(b, ref) ==
  IF Live(b, ref)
  THEN Accepted(remove_order_fully(b, b.index[ref]))
  ELSE Refused(b)

(* Mutant: the new reference is checked after the old order is gone. *)
replace_order_late_check(b, old, new, shares, price) ==
  IF ~Live(b, old) \/ shares = 0
  THEN Refused(b)
  ELSE add_order(remove_order_fully(b, b.index[old]),
                 new, price, shares, OrderOf(b, old).side, 0)

(* Mutant: the new order is always a buy. *)
replace_order_as_buy(b, old, new, shares, price) ==
  IF \/ ~Live(b, old)
     \/ shares = 0
     \/ old # new /\ Live(b, new)
  THEN Refused(b)
  ELSE add_order(remove_order_fully(b, b.index[old]),
                 new, price, shares, "buy", 0)

(* The new order takes the old one's side but not its trader id. *)
replace_order(b, old, new, shares, price) ==
  IF \/ ~Live(b, old)
     \/ shares = 0
     \/ old # new /\ Live(b, new)
  THEN Refused(b)
  ELSE add_order(remove_order_fully(b, b.index[old]),
                 new, price, shares, OrderOf(b, old).side, 0)

-----------------------------------------------------------------------------
(***************************************************************************)
(* apply: the ITCH messages.  A message is a record with a type and the    *)
(* fields of that type's payload the book reads.  Any buy/sell indicator   *)
(* other than 'B' makes a sell order.                                      *)
(***************************************************************************)
AddTypes     == {"AddOrder", "AddOrderMPID"}
ExecuteTypes == {"OrderExecuted", "OrderExecutedWithPrice"}
NoOpTypes    == {"SystemEvent", "StockDirectory", "Trade"}

apply(b, msg) ==
  CASE msg.type \in AddTypes ->
         add_order(b, msg.ref, msg.price, msg.shares,
                   IF msg.indicator = "B" THEN "buy" ELSE "sell", 0).book
    [] msg.type \in ExecuteTypes  -> execute_order(b, msg.ref, msg.shares).book
    [] msg.type = "OrderCancel"   -> cancel_order(b, msg.ref, msg.shares).book
    [] msg.type = "OrderDelete"   -> delete_order(b, msg.ref).book
    [] msg.type = "OrderReplace"  ->
         replace_order(b, msg.ref, msg.new_ref, msg.shares, msg.price).book
    [] msg.type \in NoOpTypes     -> b

-----------------------------------------------------------------------------
(***************************************************************************)
(* Well-formed books.                                                      *)
(***************************************************************************)

(* Every member of the book has the type its declaration gives it, and a   *)
(* slot in use holds a complete Order with at least one share left.        *)
Book ==
  [queue : [Levels -> [Sides -> Seq(Slots)]],
   total : [Levels -> [Sides -> 0 .. ShareSpan - 1]],
   slots : [Slots -> Order \cup {NoOrder}],
   free  : Seq(Slots),
   index : [Refs -> Slots \cup {NoSlot}],
   best  : [Sides -> (0 .. PriceSpan - 1) \cup {NoPrice}]]

(* The free list holds each slot at most once, and only unused slots: a    *)
(* slot released twice, or released while still indexed, would be handed   *)
(* to two orders (ObjectPool::acquire / release).                          *)
FreeListSound(b) ==
  /\ \A i, j \in 1 .. Len(b.free) : b.free[i] = b.free[j] => i = j
  /\ \A i \in 1 .. Len(b.free) : b.slots[b.free[i]] = NoOrder

(* No slot is lost: one that holds no order can be acquired again.         *)
NoSlotLeaks(b) ==
  \A s \in Slots : b.slots[s] = NoOrder =>
    \E i \in 1 .. Len(b.free) : b.free[i] = s

(* The hash map points each live reference at the order that carries it,   *)
(* so two references never share a slot and no pointer dangles.            *)
IndexSound(b) ==
  \A r \in Refs : Live(b, r) => /\ OrderOf(b, r) # NoOrder
                               /\ OrderOf(b, r).order_ref = r

(* Every order in the pool is reachable: it is indexed under its own       *)
(* reference and linked in the queue of its own price and side.            *)
OrdersReachable(b) ==
  \A s \in Slots : LET o == b.slots[s] IN
    o # NoOrder =>
      /\ b.index[o.order_ref] = s
      /\ o.level = LevelFor(o.price)
      /\ \E i \in 1 .. Len(b.queue[o.level][o.side]) :
           b.queue[o.level][o.side][i] = s

(* Every queue node is an order of that level and side, linked once.       *)
QueuesSound(b) ==
  \A l \in Levels, d \in Sides : LET q == b.queue[l][d] IN
    \A i \in 1 .. Len(q) :
      /\ b.slots[q[i]] # NoOrder
      /\ b.slots[q[i]].level = l
      /\ b.slots[q[i]].side = d
      /\ \A j \in 1 .. Len(q) : q[i] = q[j] => i = j

BookCoherent(b) ==
  /\ FreeListSound(b)
  /\ NoSlotLeaks(b)
  /\ IndexSound(b)
  /\ OrdersReachable(b)
  /\ QueuesSound(b)
=============================================================================
