--------------------------- MODULE MatchingEngine ---------------------------
(***************************************************************************)
(* engine::MatchingEngine (engine/matching_engine.hpp) on top of the book: *)
(* one call of submit() is a sequence of steps, one per iteration of the   *)
(* matching loop, because the event handler sees the book between them.    *)
(* Book and engine run in one thread, so other users of the same book      *)
(* (cancels, deletes, and direct adds and replaces where MixedFeed allows  *)
(* them) call it only between two submits.                                 *)
(***************************************************************************)
EXTENDS OrderBookOps

CONSTANTS
  PreventSelfTrade,  \* prevent_self_trade_
  Incoming,          \* the IncomingOrders that callers submit
  UniqueRefs,        \* callers never submit a reference that is resting
  MixedFeed,         \* the book is also fed by add_order and replace_order
  Quantities         \* share counts of the direct book calls

OrderTypes == {"Limit", "Market", "IOC", "FOK"}

ASSUME EngineAssumption ==
  /\ PreventSelfTrade \in BOOLEAN /\ UniqueRefs \in BOOLEAN
  /\ MixedFeed \in BOOLEAN
  /\ Quantities \subseteq 0 .. ShareSpan - 1
  /\ Incoming \subseteq [order_ref : Refs, price : Prices,
                         quantity : 0 .. ShareSpan - 1, side : Sides,
                         type : OrderTypes, trader_id : Traders]

VARIABLES
  book,       \* book_
  pc,         \* where submit() is: "idle", "matching" or "done"
  order,      \* the argument of submit(), or NoIncoming
  remaining,  \* the loop variable of execute_match
  events      \* what the handler has received during this submit()

vars == <<book, pc, order, remaining, events>>

NoIncoming == [type |-> "none"]
NoEvents   == [fills |-> <<>>, rested |-> 0, killed |-> 0]

Fill(o, n) == [resting_ref |-> o.order_ref, price |-> o.price, quantity |-> n]

-----------------------------------------------------------------------------
(* Mutant: self-trade prevention compares references, not traders. *)
eligible_by_ref(o, candidate) ==
  \/ ~PreventSelfTrade
  \/ o.trader_id = 0
  \/ candidate.order_ref # o.order_ref

eligible(o, candidate) ==
  \/ ~PreventSelfTrade
  \/ o.trader_id = 0
  \/ candidate.trader_id # o.trader_id

(* Mutant: a price equal to the limit does not cross. *)
crosses_strict(o, price) ==
  o.type = "Market" \/ Better(o.side, o.price, price)

crosses(o, price) ==
  o.type = "Market" \/ ~Better(o.side, price, o.price)

(* The queue the incoming order o meets at a price. *)
QueueAgainst(b, o, price) == b.queue[LevelFor(price)][Opposite[o.side]]

EligibleAt(b, o, price) ==
  LET q == QueueAgainst(b, o, price)
  IN  {i \in 1 .. Len(q) : eligible(o, b.slots[q[i]])}

(* What available_liquidity adds for one level. *)
LiquidityAt(b, o, price) ==
  IF ~PreventSelfTrade \/ o.trader_id = 0
  THEN shares_at(b, price, Opposite[o.side])
  ELSE SumFunction([i \in EligibleAt(b, o, price) |->
                      b.slots[QueueAgainst(b, o, price)[i]].shares])

(* Mutant: the dry run does not look at the limit price. *)
available_at_any_price(b, o) ==
  LET walk[p \in Prices \cup {NoPrice}] ==
        [total \in 0 .. ShareSpan - 1 |->
           IF p = NoPrice \/ total >= o.quantity
           THEN total
           ELSE walk[next_level_after(b, p, Opposite[o.side])]
                    [(total + LiquidityAt(b, o, p)) % ShareSpan]]
  IN  walk[b.best[Opposite[o.side]]][0]

available_liquidity(b, o) ==
  LET walk[p \in Prices \cup {NoPrice}] ==
        [total \in 0 .. ShareSpan - 1 |->
           IF p = NoPrice \/ total >= o.quantity \/ ~crosses(o, p)
           THEN total
           ELSE walk[next_level_after(b, p, Opposite[o.side])]
                    [(total + LiquidityAt(b, o, p)) % ShareSpan]]
  IN  walk[b.best[Opposite[o.side]]][0]

(* Mutant: the most recent eligible order of the best level. *)
candidate_newest(b, o) ==
  LET p == b.best[Opposite[o.side]]
  IN  IF p = NoPrice \/ ~crosses(o, p) \/ EligibleAt(b, o, p) = {}
      THEN NoSlot
      ELSE QueueAgainst(b, o, p)[Max(EligibleAt(b, o, p))]

(* Mutant: only the head of the best level's queue is considered. *)
candidate_head_only(b, o) ==
  LET p == b.best[Opposite[o.side]]
  IN  IF p = NoPrice \/ ~crosses(o, p) \/ 1 \notin EligibleAt(b, o, p)
      THEN NoSlot
      ELSE QueueAgainst(b, o, p)[1]

(* The resting order an iteration of execute_match trades with: the oldest *)
(* eligible one of the best level, if that level crosses.                  *)
Candidate(b, o) ==
  LET p == b.best[Opposite[o.side]]
  IN  IF p = NoPrice \/ ~crosses(o, p) \/ EligibleAt(b, o, p) = {}
      THEN NoSlot
      ELSE QueueAgainst(b, o, p)[Min(EligibleAt(b, o, p))]

-----------------------------------------------------------------------------
Init ==
  /\ book = EmptyBook
  /\ pc = "idle"
  /\ order = NoIncoming
  /\ remaining = 0
  /\ events = NoEvents

(* submit() up to execute_match: an empty order returns at once, and a FOK *)
(* order that the dry run cannot fill is killed without touching the book. *)
Submit(o) ==
  /\ pc = "idle"
  /\ UniqueRefs => ~Live(book, o.order_ref)
  /\ order' = o
  /\ remaining' = o.quantity
  /\ \/ /\ o.quantity = 0
        /\ pc' = "done"
        /\ UNCHANGED events
     \/ /\ o.quantity > 0
        /\ o.type = "FOK" /\ available_liquidity(book, o) < o.quantity
        /\ pc' = "done"
        /\ events' = [events EXCEPT !.killed = o.quantity]
     \/ /\ o.quantity > 0
        /\ o.type = "FOK" => available_liquidity(book, o) >= o.quantity
        /\ pc' = "matching"
        /\ UNCHANGED events
  /\ UNCHANGED book

(* Mutant: a fill takes all of the resting order. *)
match_all(s) ==
  LET o == book.slots[s]
  IN  /\ book' = execute_order(book, o.order_ref, o.shares).book
      /\ remaining' = remaining - o.shares
      /\ events' = [events EXCEPT !.fills = Append(@, Fill(o, o.shares))]
      /\ UNCHANGED <<pc, order>>

(* An iteration of execute_match that trades with the order in slot s. *)
MatchAgainst(s) ==
  LET o        == book.slots[s]
      fill_qty == IF remaining < o.shares THEN remaining ELSE o.shares
  IN  /\ book' = execute_order(book, o.order_ref, fill_qty).book
      /\ remaining' = remaining - fill_qty
      /\ events' = [events EXCEPT !.fills = Append(@, Fill(o, fill_qty))]
      /\ UNCHANGED <<pc, order>>

(* Mutant: on_kill reports the whole order, not what is left of it. *)
Remainder_kill_all ==
  \/ remaining = 0 /\ UNCHANGED <<book, events>>
  \/ /\ remaining > 0 /\ order.type = "Limit"
     /\ book' = add_order(book, order.order_ref, order.price, remaining,
                          order.side, order.trader_id).book
     /\ events' = [events EXCEPT !.rested = remaining]
  \/ /\ remaining > 0 /\ order.type # "Limit"
     /\ events' = [events EXCEPT !.killed = order.quantity]
     /\ UNCHANGED book

(* Mutant: the whole order rests, not what is left of it. *)
Remainder_rest_all ==
  \/ remaining = 0 /\ UNCHANGED <<book, events>>
  \/ /\ remaining > 0 /\ order.type = "Limit"
     /\ book' = add_order(book, order.order_ref, order.price, order.quantity,
                          order.side, order.trader_id).book
     /\ events' = [events EXCEPT !.rested = remaining]
  \/ /\ remaining > 0 /\ order.type # "Limit"
     /\ events' = [events EXCEPT !.killed = remaining]
     /\ UNCHANGED book

(* submit() after execute_match.  on_rest is called whatever add_order     *)
(* answers.                                                                *)
Remainder ==
  \/ remaining = 0 /\ UNCHANGED <<book, events>>
  \/ /\ remaining > 0 /\ order.type = "Limit"
     /\ book' = add_order(book, order.order_ref, order.price, remaining,
                          order.side, order.trader_id).book
     /\ events' = [events EXCEPT !.rested = remaining]
  \/ /\ remaining > 0 /\ order.type # "Limit"
     /\ events' = [events EXCEPT !.killed = remaining]
     /\ UNCHANGED book

Finish ==
  /\ Remainder
  /\ pc' = "done"
  /\ UNCHANGED <<order, remaining>>

(* Mutant: a level whose orders are all blocked is looked at again. *)
Iterate_blocked_again ==
  /\ pc = "matching"
  /\ CASE remaining > 0 /\ Candidate(book, order) # NoSlot ->
            MatchAgainst(Candidate(book, order))
       [] remaining > 0 /\ book.best[Opposite[order.side]] # NoPrice ->
            UNCHANGED vars
       [] OTHER -> Finish

(* The loop of execute_match: an iteration that trades, or the end of the  *)
(* loop (nothing left, nothing that crosses, or a level that is blocked)   *)
(* and with it the rest of submit().                                       *)
Iterate ==
  /\ pc = "matching"
  /\ \/ /\ remaining > 0
        /\ Candidate(book, order) # NoSlot
        /\ MatchAgainst(Candidate(book, order))
     \/ /\ remaining = 0 \/ Candidate(book, order) = NoSlot
        /\ Finish

Return ==
  /\ pc = "done"
  /\ pc' = "idle" /\ order' = NoIncoming /\ remaining' = 0
  /\ events' = NoEvents
  /\ UNCHANGED book

(* The other users of the book. *)
BookCall(b) ==
  /\ pc = "idle"
  /\ book' = b
  /\ UNCHANGED <<pc, order, remaining, events>>

Next ==
  \/ \E o \in Incoming : Submit(o)
  \/ Iterate
  \/ Return
  \/ \E r \in Refs, n \in Quantities : BookCall(cancel_order(book, r, n).book)
  \/ \E r \in Refs : BookCall(delete_order(book, r).book)
  \/ \E r \in Refs, p \in Prices, n \in Quantities, d \in Sides, t \in Traders :
       MixedFeed /\ BookCall(add_order(book, r, p, n, d, t).book)
  \/ \E old, new \in Refs, n \in Quantities, p \in Prices :
       MixedFeed /\ BookCall(replace_order(book, old, new, n, p).book)

(* submit() runs to its end: it is a loop of one thread that never waits.  *)
Fairness == WF_vars(Iterate)

Spec == Init /\ [][Next]_vars /\ Fairness

-----------------------------------------------------------------------------
Filled ==
  SumFunction([i \in 1 .. Len(events.fills) |-> events.fills[i].quantity])

(* The engine's variables have the values submit() can give them, and the  *)
(* book it works on stays a well-formed book.                              *)
TypeOK ==
  /\ book \in Book /\ BookCoherent(book)
  /\ pc \in {"idle", "matching", "done"}
  /\ order \in Incoming \cup {NoIncoming}
  /\ (order = NoIncoming) <=> (pc = "idle")
  /\ remaining \in 0 .. ShareSpan - 1
  /\ events.rested \in 0 .. ShareSpan - 1
  /\ events.killed \in 0 .. ShareSpan - 1

(* Conservation: when submit() returns, every share of the incoming order  *)
(* has been reported exactly once, as filled, rested or killed; only a     *)
(* Limit order rests, and no order both rests and is killed.               *)
Conservation ==
  pc = "done" =>
    /\ Filled + events.rested + events.killed = order.quantity
    /\ events.rested > 0 => order.type = "Limit"
    /\ events.rested = 0 \/ events.killed = 0

(* The orders a submit may trade with, seen without levels and caches.     *)
Opposing(b, o) ==
  {r \in Refs : Live(b, r) /\ OrderOf(b, r).side = Opposite[o.side]}

(* A FOK order is filled completely or not at all (OrderType::FOK).        *)
FOKAllOrNothing ==
  pc = "done" /\ order.type = "FOK" => Filled \in {0, order.quantity}

(* The dry run of available_liquidity and the matching loop agree: a FOK   *)
(* order is filled completely or not at all, and it is killed only when    *)
(* the resting orders that cross its limit cannot fill it.                 *)
FOKAtomic ==
  /\ FOKAllOrNothing
  /\ pc = "done" /\ order.type = "FOK" /\ events.killed > 0 =>
       LET reach == {r \in Opposing(book, order) :
                       /\ crosses(order, OrderOf(book, r).price)
                       /\ eligible(order, OrderOf(book, r))}
       IN  SumFunction([r \in reach |-> OrderOf(book, r).shares])
             < order.quantity

(* Between submits the book is not crossed or locked: the best bid is      *)
(* below the best ask, because a Limit order rests only when nothing that  *)
(* crosses it is left.                                                     *)
NotCrossed ==
  pc \in {"idle", "done"} =>
    \A r, u \in Refs :
      Live(book, r) /\ Live(book, u)
      /\ OrderOf(book, r).side = "buy" /\ OrderOf(book, u).side = "sell"
        => OrderOf(book, r).price < OrderOf(book, u).price

(* What the matching loop may leave to a Limit order: one that rests while *)
(* an opposite order still crosses it was stopped by self-trade            *)
(* prevention, which blocks every order at the best opposite price.  The   *)
(* book is then crossed, on purpose, at that price.                        *)
RestsOnlyWhenBlocked ==
  pc = "done" /\ order.type = "Limit" /\ events.rested > 0 =>
    \A r \in Opposing(book, order) :
      /\ crosses(order, OrderOf(book, r).price)
      /\ \A u \in Opposing(book, order) :
           ~Better(Opposite[order.side], OrderOf(book, u).price,
                   OrderOf(book, r).price)
      => /\ PreventSelfTrade /\ order.trader_id # 0
         /\ OrderOf(book, r).trader_id = order.trader_id

(* A Market or IOC remainder is discarded only "after the available        *)
(* liquidity ran out" (KillEvent): every opposite order that still rests   *)
(* is beyond the limit of the IOC order or of the same trader.             *)
KillsOnlyWhenExhausted ==
  pc = "done" /\ order.type \in {"Market", "IOC"} /\ events.killed > 0 =>
    \A r \in Opposing(book, order) :
      LET o == OrderOf(book, r)
      IN  \/ order.type = "IOC" /\ Better(order.side, o.price, order.price)
          \/ /\ PreventSelfTrade /\ order.trader_id # 0
             /\ o.trader_id = order.trader_id

(* The fill that a step reports. *)
NewFill == events'.fills[Len(events'.fills)]

NewFillReported == Len(events'.fills) > Len(events.fills)

(* Price-time priority: a fill is at the resting order's price, which is   *)
(* the best of its side and within the incoming order's limit; every order *)
(* ahead of it in its queue was refused by self-trade prevention; and the  *)
(* fill takes as much as both orders have.                                 *)
PriceTimePriority ==
  [][NewFillReported =>
       LET r == NewFill.resting_ref
           o == OrderOf(book, r)
           q == QueueAgainst(book, order, o.price)
           k == CHOOSE k \in 1 .. Len(q) : q[k] = book.index[r]
       IN  /\ r \in Opposing(book, order)
           /\ NewFill.price = o.price
           /\ order.type = "Market" \/ ~Better(order.side, o.price, order.price)
           /\ \A u \in Opposing(book, order) :
                ~Better(o.side, OrderOf(book, u).price, o.price)
           /\ \A i \in 1 .. k - 1 :
                /\ PreventSelfTrade
                /\ book.slots[q[i]].trader_id = order.trader_id
           /\ NewFill.quantity = Min({remaining, o.shares})]_vars

(* With self-trade prevention on, no fill joins two orders of one trader.  *)
NoSelfTrade ==
  [][NewFillReported =>
       \/ order.trader_id = 0
       \/ OrderOf(book, NewFill.resting_ref).trader_id # order.trader_id]_vars

RestingShares(b, d) ==
  LET resting == {r \in Refs : Live(b, r) /\ OrderOf(b, r).side = d}
  IN  SumFunction([r \in resting |-> OrderOf(b, r).shares])

(* The events tell what happened to the book: during a submit the opposite *)
(* side loses exactly the shares reported filled and the order's own side  *)
(* gains exactly the shares reported rested.                               *)
EventsMatchBook ==
  [][pc = "matching" =>
       /\ RestingShares(book, Opposite[order.side])
            - RestingShares(book', Opposite[order.side]) = Filled' - Filled
       /\ RestingShares(book', order.side) - RestingShares(book, order.side)
            = events'.rested - events.rested]_vars

(* Every submit() comes to its end: the matching loop makes progress or    *)
(* stops, also when every order of the best level is blocked.              *)
SubmitTerminates == pc = "matching" ~> pc = "done"
=============================================================================
