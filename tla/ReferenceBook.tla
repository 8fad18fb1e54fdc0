--------------------------- MODULE ReferenceBook ----------------------------
(***************************************************************************)
(* What an order book promises, without pools, levels or caches: the       *)
(* ReferenceOrderBook of book/tests/reference_order_book.hpp, the plain    *)
(* map that the differential test compares OrderBook with.                 *)
(*                                                                         *)
(* The test's reference never refuses an order for lack of room (the test  *)
(* sizes the book so that it never fills); Capacity adds the one refusal   *)
(* the real book makes on top: no more than Capacity resting orders.       *)
(***************************************************************************)
EXTENDS Integers, FiniteSets, FiniteSetsExt

CONSTANTS Refs, Prices, ShareInputs, ShareSpan, Capacity

VARIABLE orders    \* orders_: resting order of each live reference

Sides == {"buy", "sell"}

RefOrder(price, shares, d) == [price |-> price, shares |-> shares, side |-> d]

Without(os, ref) == [r \in DOMAIN os \ {ref} |-> os[r]]

With(os, ref, o) ==
  [r \in DOMAIN os \cup {ref} |-> IF r = ref THEN o ELSE os[r]]

(* Each operation answers [ok, orders]. *)
Refused(os)  == [ok |-> FALSE, orders |-> os]
Accepted(os) == [ok |-> TRUE,  orders |-> os]

add_order(os, ref, price, shares, d) ==
  IF shares = 0 \/ ref \in DOMAIN os \/ Cardinality(DOMAIN os) >= Capacity
  THEN Refused(os)
  ELSE Accepted(With(os, ref, RefOrder(price, shares, d)))

reduce_shares(os, ref, delta) ==
  IF ref \notin DOMAIN os
  THEN Refused(os)
  ELSE CASE delta \notin 1 .. os[ref].shares -> Refused(os)
         [] delta = os[ref].shares -> Accepted(Without(os, ref))
         [] delta \in 1 .. os[ref].shares - 1 ->
              Accepted([os EXCEPT ![ref].shares = @ - delta])

delete_order(os, ref) ==
  IF ref \in DOMAIN os THEN Accepted(Without(os, ref)) ELSE Refused(os)

replace_order(os, old, new, shares, price) ==
  IF \/ old \notin DOMAIN os
     \/ shares = 0
     \/ old # new /\ new \in DOMAIN os
  THEN Refused(os)
  ELSE Accepted(With(Without(os, old), new,
                     RefOrder(price, shares, os[old].side)))

best_price(os, d) ==
  LET ps == {os[r].price : r \in {r \in DOMAIN os : os[r].side = d}}
  IN  IF ps = {} THEN -1 ELSE IF d = "buy" THEN Max(ps) ELSE Min(ps)

(* The total is of type Shares, and wraps like it. *)
shares_at(os, price, d) ==
  LET here == {r \in DOMAIN os : os[r].price = price /\ os[r].side = d}
  IN  SumFunction([r \in here |-> os[r].shares]) % ShareSpan

-----------------------------------------------------------------------------
Init == orders = [r \in {} |-> RefOrder(0, 0, "buy")]

Add(ref, price, shares, d) ==
  orders' = add_order(orders, ref, price, shares, d).orders

Reduce(ref, delta) == orders' = reduce_shares(orders, ref, delta).orders

Delete(ref) == orders' = delete_order(orders, ref).orders

Replace(old, new, shares, price) ==
  orders' = replace_order(orders, old, new, shares, price).orders

Next ==
  \/ \E r \in Refs, p \in Prices, n \in ShareInputs, d \in Sides : Add(r, p, n, d)
  \/ \E r \in Refs, n \in ShareInputs : Reduce(r, n)
  \/ \E r \in Refs : Delete(r)
  \/ \E old, new \in Refs, n \in ShareInputs, p \in Prices :
       Replace(old, new, n, p)

Spec == Init /\ [][Next]_orders
=============================================================================
