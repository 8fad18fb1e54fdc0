----------------------------- MODULE OrderBook ------------------------------
(***************************************************************************)
(* book::OrderBook as a state machine: one action per public mutating      *)
(* method, with every argument drawn from the constants, and apply() for   *)
(* the ITCH messages.                                                      *)
(***************************************************************************)
EXTENDS OrderBookOps, SequencesExt

CONSTANT ShareInputs    \* share counts that calls and messages carry

ASSUME ShareInputsAssumption == ShareInputs \subseteq 0 .. ShareSpan - 1

VARIABLE book

Messages ==
  [type : AddTypes, ref : Refs, indicator : {"B", "S"}, shares : ShareInputs,
   price : Prices]
  \cup [type : ExecuteTypes \cup {"OrderCancel"}, ref : Refs,
        shares : ShareInputs]
  \cup [type : {"OrderDelete"}, ref : Refs]
  \cup [type : {"OrderReplace"}, ref : Refs, new_ref : Refs,
        shares : ShareInputs, price : Prices]
  \cup [type : NoOpTypes]

Init == book = EmptyBook

AddOrder(ref, price, shares, d, trader) ==
  book' = add_order(book, ref, price, shares, d, trader).book

ExecuteOrder(ref, shares) == book' = execute_order(book, ref, shares).book

CancelOrder(ref, shares) == book' = cancel_order(book, ref, shares).book

DeleteOrder(ref) == book' = delete_order(book, ref).book

ReplaceOrder(old, new, shares, price) ==
  book' = replace_order(book, old, new, shares, price).book

Apply(msg) == book' = apply(book, msg)

Next ==
  \/ \E r \in Refs, p \in Prices, n \in ShareInputs, d \in Sides, t \in Traders :
       AddOrder(r, p, n, d, t)
  \/ \E r \in Refs, n \in ShareInputs : ExecuteOrder(r, n)
  \/ \E r \in Refs, n \in ShareInputs : CancelOrder(r, n)
  \/ \E r \in Refs : DeleteOrder(r)
  \/ \E old, new \in Refs, n \in ShareInputs, p \in Prices :
       ReplaceOrder(old, new, n, p)
  \/ \E msg \in Messages : Apply(msg)

Spec == Init /\ [][Next]_book

-----------------------------------------------------------------------------
(* Every member of the book keeps the type its declaration gives it; in    *)
(* particular no 32-bit counter goes below zero or past its width, and an  *)
(* order whose shares reach zero is never left in the pool                 *)
(* (reduce_shares).                                                        *)
TypeOK == book \in Book

(* The pool, the hash map and the level queues always describe the same    *)
(* set of orders, whatever sequence of adds, executions, cancels, deletes, *)
(* replaces and slot reuses led there (remove_order_fully, add_order).     *)
Coherent == BookCoherent(book)

-----------------------------------------------------------------------------
(* The resting orders, as the reference book sees them. *)
Resting(b) ==
  [r \in {r \in Refs : Live(b, r)} |->
     [price |-> OrderOf(b, r).price, shares |-> OrderOf(b, r).shares,
      side |-> OrderOf(b, r).side]]

Reference == INSTANCE ReferenceBook
               WITH orders <- Resting(book), Capacity <- OrderCapacity

(* The book implements the reference book: every call and every ITCH       *)
(* message changes the resting orders as a call of the reference would.    *)
ImplementsReference == Reference!Spec

(* Whatever is asked of it next, the book answers true or false as the     *)
(* reference book would.                                                   *)
AnswersAgree ==
  LET os == Resting(book) IN
  /\ \A r \in Refs, p \in Prices, n \in ShareInputs, d \in Sides :
       add_order(book, r, p, n, d, 0).ok = Reference!add_order(os, r, p, n, d).ok
  /\ \A r \in Refs, n \in ShareInputs :
       reduce_shares(book, r, n).ok = Reference!reduce_shares(os, r, n).ok
  /\ \A r \in Refs :
       delete_order(book, r).ok = Reference!delete_order(os, r).ok
  /\ \A old, new \in Refs, n \in ShareInputs, p \in Prices :
       replace_order(book, old, new, n, p).ok
         = Reference!replace_order(os, old, new, n, p).ok

(* A call that answers false leaves every member of the book as it was, in *)
(* particular replace_order, which removes the old order before it adds    *)
(* the new one.                                                            *)
RefusalsChangeNothing ==
  /\ \A r \in Refs, p \in Prices, n \in ShareInputs, d \in Sides :
       LET c == add_order(book, r, p, n, d, 0) IN c.ok \/ c.book = book
  /\ \A r \in Refs, n \in ShareInputs :
       LET c == reduce_shares(book, r, n) IN c.ok \/ c.book = book
  /\ \A r \in Refs :
       LET c == delete_order(book, r) IN c.ok \/ c.book = book
  /\ \A old, new \in Refs, n \in ShareInputs, p \in Prices :
       LET c == replace_order(book, old, new, n, p) IN c.ok \/ c.book = book

(* The counters kept with each level are the sums of what rests there, on  *)
(* both sides, for flat and outlier prices (shares_at).                    *)
TotalsExact ==
  \A p \in Prices, d \in Sides :
    shares_at(book, p, d) = Reference!shares_at(Resting(book), p, d)

(* The cached best bid and ask, maintained incrementally by                *)
(* update_best_on_add and recompute_best_after_level_emptied, are what a   *)
(* scan of all resting orders would find.                                  *)
BestExact ==
  \A d \in Sides : book.best[d] = Reference!best_price(Resting(book), d)

(* Walking from any price with next_level_after meets the non-empty levels *)
(* of a side one by one in priority order, across the flat window and the  *)
(* outlier map: it never skips, repeats or invents a level.                *)
WalkExact ==
  \A p \in Prices, d \in Sides :
    next_level_after(book, p, d)
      = BestIn(d, {q \in Prices : /\ Better(d, p, q)
                                  /\ \E r \in Refs : /\ Live(book, r)
                                                     /\ OrderOf(book, r).price = q
                                                     /\ OrderOf(book, r).side = d})

QueueRefs(b, l, d) ==
  [i \in 1 .. Len(b.queue[l][d]) |-> b.slots[b.queue[l][d][i]].order_ref]

(* What may happen to the queue of one level and side from book b to book  *)
(* c: at most one order leaves and at most one joins at the back; moves    *)
(* tells whether it may be the one that left.                              *)
KeepsPlaces(b, c, l, d, moves) ==
  LET old == QueueRefs(b, l, d)
      new == QueueRefs(c, l, d)
  IN  \/ new = old
      \/ \E r \in Refs : new = Append(old, r)
      \/ \E k \in 1 .. Len(old) :
           \/ new = RemoveAt(old, k)
           \/ \E r \in Refs : /\ new = Append(RemoveAt(old, k), r)
                              /\ r = old[k] => moves

Reduces == \E r \in Refs, n \in ShareInputs : ExecuteOrder(r, n) \/ CancelOrder(r, n)

(* Time priority: at every level a step removes at most one order and at   *)
(* most appends one at the back; the orders that stay keep their places,   *)
(* and a partial execution or cancel moves nothing (PriceLevel's queues,   *)
(* IntrusiveList::remove).                                                 *)
TimePriority ==
  [][\A l \in Levels, d \in Sides :
       KeepsPlaces(book, book', l, d, ~Reduces)]_book
=============================================================================
