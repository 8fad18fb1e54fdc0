-------------------------- MODULE OrderBookProofs ---------------------------
(***************************************************************************)
(* Theorems about the order book's specification, from the lemmas about    *)
(* its operations.                                                         *)
(***************************************************************************)
EXTENDS OrderBook, OrderBookOpsProofs, SequenceTheorems

-----------------------------------------------------------------------------
(* Steps as calls. *)

(* Book c is what one of the four operations makes of book b. *)
Call(b, c) ==
  \/ c = b
  \/ \E r \in Refs, p \in Prices, n \in ShareInputs, d \in Sides, t \in Traders :
       c = add_order(b, r, p, n, d, t).book
  \/ \E r \in Refs, n \in ShareInputs : c = reduce_shares(b, r, n).book
  \/ \E r \in Refs : c = delete_order(b, r).book
  \/ \E old, new \in Refs, n \in ShareInputs, p \in Prices :
       c = replace_order(b, old, new, n, p).book

(* Every ITCH message is a call, or changes nothing. *)
LEMMA ApplyIsCall ==
  ASSUME NEW b, NEW msg \in Messages
  PROVE  Call(b, apply(b, msg))
<1>1. CASE msg \in [type : AddTypes, ref : Refs, indicator : {"B", "S"},
                    shares : ShareInputs, price : Prices]
  <2> DEFINE d == IF msg.indicator = "B" THEN "buy" ELSE "sell"
  <2>1. d \in Sides /\ 0 \in Traders
    BY TraderAssumption DEF Sides
  <2>2. /\ msg.type \in AddTypes /\ msg.ref \in Refs /\ msg.price \in Prices
        /\ msg.shares \in ShareInputs
    BY <1>1
  <2>3. apply(b, msg)
          = add_order(b, msg.ref, msg.price, msg.shares, d, 0).book
    BY ONLY <2>2 DEF apply, AddTypes, ExecuteTypes, NoOpTypes
  <2> HIDE DEF d
  <2> QED BY <2>1, <2>2, <2>3 DEF Call
<1>2. CASE msg \in [type : ExecuteTypes \cup {"OrderCancel"}, ref : Refs,
                    shares : ShareInputs]
  <2>1. /\ msg.type \in ExecuteTypes \cup {"OrderCancel"} /\ msg.ref \in Refs
        /\ msg.shares \in ShareInputs
    BY <1>2
  <2>2. apply(b, msg) = reduce_shares(b, msg.ref, msg.shares).book
    BY ONLY <2>1 DEF apply, AddTypes, ExecuteTypes, NoOpTypes,
                     execute_order, cancel_order
  <2> QED BY <2>1, <2>2 DEF Call
<1>3. CASE msg \in [type : {"OrderDelete"}, ref : Refs]
  <2>1. msg.type = "OrderDelete" /\ msg.ref \in Refs
    BY <1>3
  <2>2. apply(b, msg) = delete_order(b, msg.ref).book
    BY ONLY <2>1 DEF apply, AddTypes, ExecuteTypes, NoOpTypes
  <2> QED BY <2>1, <2>2 DEF Call
<1>4. CASE msg \in [type : {"OrderReplace"}, ref : Refs, new_ref : Refs,
                    shares : ShareInputs, price : Prices]
  <2>1. /\ msg.type = "OrderReplace" /\ msg.ref \in Refs /\ msg.new_ref \in Refs
        /\ msg.shares \in ShareInputs /\ msg.price \in Prices
    BY <1>4
  <2>2. apply(b, msg)
          = replace_order(b, msg.ref, msg.new_ref, msg.shares, msg.price).book
    BY ONLY <2>1 DEF apply, AddTypes, ExecuteTypes, NoOpTypes
  <2> QED BY <2>1, <2>2 DEF Call
<1>5. CASE msg \in [type : NoOpTypes]
  <2>1. msg.type \in NoOpTypes
    BY <1>5
  <2>2. apply(b, msg) = b
    BY ONLY <2>1 DEF apply, AddTypes, ExecuteTypes, NoOpTypes
  <2> QED BY <2>2 DEF Call
<1> QED BY <1>1, <1>2, <1>3, <1>4, <1>5 DEF Messages

(* Every step is a call, or changes nothing. *)
LEMMA StepIsCall ==
  ASSUME [Next]_book
  PROVE  Call(book, book')
<1>1. ASSUME NEW r \in Refs, NEW p \in Prices, NEW n \in ShareInputs,
             NEW d \in Sides, NEW t \in Traders, AddOrder(r, p, n, d, t)
      PROVE  Call(book, book')
  BY <1>1 DEF AddOrder, Call
<1>2. ASSUME NEW r \in Refs, NEW n \in ShareInputs,
             ExecuteOrder(r, n) \/ CancelOrder(r, n)
      PROVE  Call(book, book')
  BY <1>2 DEF ExecuteOrder, CancelOrder, execute_order, cancel_order, Call
<1>3. ASSUME NEW r \in Refs, DeleteOrder(r)
      PROVE  Call(book, book')
  BY <1>3 DEF DeleteOrder, Call
<1>4. ASSUME NEW old \in Refs, NEW new \in Refs, NEW n \in ShareInputs,
             NEW p \in Prices, ReplaceOrder(old, new, n, p)
      PROVE  Call(book, book')
  BY <1>4 DEF ReplaceOrder, Call
<1>5. ASSUME NEW msg \in Messages, Apply(msg)
      PROVE  Call(book, book')
  BY <1>5, ApplyIsCall DEF Apply
<1>6. CASE UNCHANGED book
  BY <1>6 DEF Call
<1> QED BY <1>1, <1>2, <1>3, <1>4, <1>5, <1>6 DEF Next

(* A call preserves the invariant of the book, and the rank of the cached  *)
(* best prices while no counter wraps.                                     *)
LEMMA CallInv ==
  ASSUME NEW b, NEW c, BookInv(b), Call(b, c)
  PROVE  /\ BookInv(c)
         /\ NoWrap(b) /\ BestLeads(b) => BestLeads(c)
<1>i. ShareInputs \subseteq 0 .. ShareSpan - 1 /\ ShareInputs \subseteq Nat
  BY ShareInputsAssumption, ShareAssumption
<1>1. ASSUME NEW r \in Refs, NEW p \in Prices, NEW n \in ShareInputs,
             NEW d \in Sides, NEW t \in Traders,
             c = add_order(b, r, p, n, d, t).book
      PROVE  BookInv(c) /\ (BestLeads(b) => BestLeads(c))
  BY <1>i, <1>1, AddEffect
<1>2. ASSUME NEW r \in Refs, NEW n \in ShareInputs,
             c = reduce_shares(b, r, n).book
      PROVE  BookInv(c) /\ (NoWrap(b) /\ BestLeads(b) => BestLeads(c))
  BY <1>i, <1>2, ReduceEffect
<1>3. ASSUME NEW r \in Refs, c = delete_order(b, r).book
      PROVE  BookInv(c) /\ (NoWrap(b) /\ BestLeads(b) => BestLeads(c))
  BY <1>3, DeleteEffect
<1>4. ASSUME NEW old \in Refs, NEW new \in Refs, NEW n \in ShareInputs,
             NEW p \in Prices, c = replace_order(b, old, new, n, p).book
      PROVE  BookInv(c) /\ (NoWrap(b) /\ BestLeads(b) => BestLeads(c))
  BY <1>i, <1>4, ReplaceEffect
<1> QED BY <1>1, <1>2, <1>3, <1>4 DEF Call

(* The invariant that the theorems rest on. *)
LEMMA Invariant == Spec => []BookInv(book)
<1>1. Init => BookInv(book)
  BY InitInv DEF Init
<1>2. BookInv(book) /\ [Next]_book => BookInv(book)'
  BY StepIsCall, CallInv
<1> QED BY <1>1, <1>2, PTL DEF Spec

(* The members of the book keep their types, for every pool, window and    *)
(* price range: no counter leaves its width and no drained order stays in  *)
(* the pool (reduce_shares, remove_order_fully).                           *)
THEOREM TypeCorrect == Spec => []TypeOK
<1>1. BookInv(book) => TypeOK
  BY DEF BookInv, Sound, TypeOK
<1> QED BY <1>1, Invariant, PTL

(* Pool, hash map and level queues describe the same orders after any      *)
(* sequence of calls and messages: no slot leaks, is freed twice or is     *)
(* shared, no pointer dangles (add_order, remove_order_fully).             *)
THEOREM Coherence == Spec => []Coherent
<1>1. BookInv(book) => Coherent
  BY DEF BookInv, Sound, Coherent
<1> QED BY <1>1, Invariant, PTL

(* For every pool, index, window and price range, a call that answers      *)
(* false has changed nothing: add_order's checks and rollback, and         *)
(* replace_order, which never loses the old order to a refused add.        *)
THEOREM RefusalsAreSafe == Spec => []RefusalsChangeNothing
<1>1. BookInv(book) => RefusalsChangeNothing
  <2> SUFFICES ASSUME BookInv(book) PROVE RefusalsChangeNothing
    OBVIOUS
  <2>i. /\ ShareInputs \subseteq 0 .. ShareSpan - 1 /\ ShareInputs \subseteq Nat
        /\ 0 \in Traders
    BY ShareInputsAssumption, ShareAssumption, TraderAssumption
  <2>1. ASSUME NEW r \in Refs, NEW p \in Prices, NEW n \in ShareInputs,
               NEW d \in Sides, NEW c, c = add_order(book, r, p, n, d, 0)
        PROVE  c.ok \/ c.book = book
    BY <2>i, <2>1, AddEffect
  <2>2. ASSUME NEW r \in Refs, NEW n \in ShareInputs,
               NEW c, c = reduce_shares(book, r, n)
        PROVE  c.ok \/ c.book = book
    BY <2>i, <2>2, ReduceEffect
  <2>3. ASSUME NEW r \in Refs, NEW c, c = delete_order(book, r)
        PROVE  c.ok \/ c.book = book
    BY <2>3, DeleteEffect
  <2>4. ASSUME NEW old \in Refs, NEW new \in Refs, NEW n \in ShareInputs,
               NEW p \in Prices, NEW c, c = replace_order(book, old, new, n, p)
        PROVE  c.ok \/ c.book = book
    BY <2>i, <2>4, ReplaceEffect
  <2> QED BY <2>1, <2>2, <2>3, <2>4 DEF RefusalsChangeNothing
<1> QED BY <1>1, Invariant, PTL

-----------------------------------------------------------------------------
(* The resting orders, as the reference book sees them. *)

(* They are the resting orders, without what the reference does not keep. *)
LEMMA RestingFacts ==
  ASSUME NEW b, Sound(b)
  PROVE  /\ DOMAIN Resting(b) = DOMAIN Orders(b)
         /\ DOMAIN Resting(b) = {r \in Refs : Live(b, r)}
         /\ \A r \in DOMAIN Resting(b) :
              Resting(b)[r] = [price  |-> Orders(b)[r].price,
                               shares |-> Orders(b)[r].shares,
                               side   |-> Orders(b)[r].side]
         /\ \A r \in DOMAIN Resting(b) :
              /\ Resting(b)[r].price = Orders(b)[r].price
              /\ Resting(b)[r].shares = Orders(b)[r].shares
              /\ Resting(b)[r].side = Orders(b)[r].side
BY DEF Resting, Orders

(* The reference counts at a price the orders of its level. *)
LEMMA SameOrdersHere ==
  ASSUME NEW b, Sound(b), NEW p \in Prices, NEW d \in Sides
  PROVE  {r \in DOMAIN Resting(b) : Resting(b)[r].price = p
                                    /\ Resting(b)[r].side = d}
           = AtLevel(Orders(b), LevelFor(p), d)
<1>1. ASSUME NEW r \in DOMAIN Orders(b)
      PROVE  Orders(b)[r].price = p <=> Orders(b)[r].level = LevelFor(p)
  <2>1. r \in Refs /\ Live(b, r) /\ Orders(b)[r] = OrderOf(b, r)
    BY OrdersType
  <2>2. /\ OrderOf(b, r).price \in Prices
        /\ OrderOf(b, r).level = LevelFor(OrderOf(b, r).price)
    BY <2>1, OrderLevel
  <2> QED BY <2>1, <2>2, LevelForInjective
<1>2. /\ DOMAIN Resting(b) = DOMAIN Orders(b)
      /\ \A r \in DOMAIN Resting(b) : /\ Resting(b)[r].price = Orders(b)[r].price
                                      /\ Resting(b)[r].side = Orders(b)[r].side
  BY RestingFacts
<1> QED BY ONLY <1>1, <1>2 DEF AtLevel

(* The reference's sum is the one that the counters are compared with. *)
LEMMA SameTotals ==
  ASSUME NEW b, BookInv(b), NEW p \in Prices, NEW d \in Sides
  PROVE  shares_at(b, p, d) = Reference!shares_at(Resting(b), p, d)
<1> DEFINE l    == LevelFor(p)
           here == {r \in DOMAIN Resting(b) : Resting(b)[r].price = p
                                              /\ Resting(b)[r].side = d}
           f    == [r \in here |-> Resting(b)[r].shares]
           g    == [r \in AtLevel(Orders(b), l, d) |-> Orders(b)[r].shares]
<1>1. l \in Levels
  BY LevelForType
<1>2. shares_at(b, p, d) = SumFunction(g) % ShareSpan
  BY <1>1 DEF BookInv, TotalsSound, TotalOf, shares_at
<1>3. here = AtLevel(Orders(b), l, d)
  BY SameOrdersHere DEF BookInv
<1>4. f = g
  <2>1. \A r \in here : Resting(b)[r].shares = Orders(b)[r].shares
    BY RestingFacts DEF BookInv
  <2> HIDE DEF here
  <2> QED BY <1>3, <2>1
<1>5. Reference!shares_at(Resting(b), p, d) = Reference!SumFunction(f) % ShareSpan
  BY DEF Reference!shares_at
<1> HIDE DEF f, g
<1>6. Reference!SumFunction(f) = SumFunction(f)
  BY DEF Reference!SumFunction, Reference!SumFunctionOnSet,
         Reference!FoldFunctionOnSet, Reference!MapThenFoldSet,
         SumFunction, SumFunctionOnSet, FoldFunctionOnSet, MapThenFoldSet
<1> QED BY <1>2, <1>4, <1>5, <1>6

(* The counter of a level is the sum of what rests there, modulo the width *)
(* of its type, for every pool, window and price range and whatever was    *)
(* added, reduced, removed and replaced before (add_order, reduce_shares,  *)
(* remove_order_fully).                                                    *)
THEOREM TotalsAreExact == Spec => []TotalsExact
<1>1. BookInv(book) => TotalsExact
  BY SameTotals DEF TotalsExact
<1> QED BY <1>1, Invariant, PTL

-----------------------------------------------------------------------------
(* The answers of the book and of the reference book. *)

(* Every answer is true or false. *)
LEMMA AnswerType ==
  ASSUME NEW b, NEW r, NEW p, NEW n, NEW d, NEW t, NEW u
  PROVE  /\ add_order(b, r, p, n, d, t).ok \in BOOLEAN
         /\ reduce_shares(b, r, n).ok \in BOOLEAN
         /\ delete_order(b, r).ok \in BOOLEAN
         /\ replace_order(b, r, u, n, p).ok \in BOOLEAN
<1>1. \A c : Refused(c).ok = FALSE /\ Accepted(c).ok = TRUE
  BY DEF Refused, Accepted
<1>2. add_order(b, r, p, n, d, t).ok \in BOOLEAN
  BY <1>1 DEF add_order
<1>3. reduce_shares(b, r, n).ok \in BOOLEAN
  BY <1>1 DEF reduce_shares
<1>4. delete_order(b, r).ok \in BOOLEAN
  BY <1>1 DEF delete_order
<1>5. replace_order(b, r, u, n, p).ok \in BOOLEAN
  <2>1. CASE ~Live(b, r) \/ n = 0 \/ (r # u /\ Live(b, u))
    BY <1>1, <2>1 DEF replace_order
  <2>2. CASE ~(~Live(b, r) \/ n = 0 \/ (r # u /\ Live(b, u)))
    <3> DEFINE c == remove_order_fully(b, b.index[r])
               s == OrderOf(b, r).side
    <3>1. replace_order(b, r, u, n, p) = add_order(c, u, p, n, s, 0)
      BY <2>2 DEF replace_order
    <3> HIDE DEF c, s
    <3>2. add_order(c, u, p, n, s, 0).ok \in BOOLEAN
      BY <1>1 DEF add_order
    <3> QED BY <3>1, <3>2
  <2> QED BY <2>1, <2>2
<1> QED BY <1>2, <1>3, <1>4, <1>5

(* When the reference book accepts a call, and what it makes of the orders. *)
LEMMA ReferenceAnswer ==
  ASSUME NEW os
  PROVE  /\ Reference!Refused(os).ok = FALSE /\ Reference!Refused(os).orders = os
         /\ Reference!Accepted(os).ok = TRUE /\ Reference!Accepted(os).orders = os
BY DEF Reference!Refused, Reference!Accepted

ReferenceAdd(c, os, r, p, n, d) ==
  LET yes == /\ n # 0 /\ r \notin DOMAIN os
             /\ ~(Cardinality(DOMAIN os) >= OrderCapacity)
  IN  /\ yes => /\ c.ok = TRUE
                /\ c.orders = Reference!With(os, r, Reference!RefOrder(p, n, d))
      /\ ~yes => c.ok = FALSE /\ c.orders = os

LEMMA ReferenceAdds ==
  ASSUME NEW os, NEW r, NEW p, NEW n, NEW d
  PROVE  ReferenceAdd(Reference!add_order(os, r, p, n, d), os, r, p, n, d)
<1>1. Reference!Cardinality(DOMAIN os) = Cardinality(DOMAIN os)
  BY DEF Reference!Cardinality, Cardinality
<1> QED BY <1>1, ReferenceAnswer DEF Reference!add_order, ReferenceAdd

LEMMA ReferenceDeletes ==
  ASSUME NEW os, NEW r, NEW c, c = Reference!delete_order(os, r)
  PROVE  IF r \in DOMAIN os
         THEN c.ok = TRUE /\ c.orders = Reference!Without(os, r)
         ELSE c.ok = FALSE /\ c.orders = os
BY ReferenceAnswer DEF Reference!delete_order

ReferenceReplace(c, os, r, u, n, p) ==
  LET yes == r \in DOMAIN os /\ n # 0 /\ (r = u \/ u \notin DOMAIN os)
  IN  /\ yes => /\ c.ok = TRUE
                /\ c.orders = Reference!With(Reference!Without(os, r), u,
                                Reference!RefOrder(p, n, os[r].side))
      /\ ~yes => c.ok = FALSE /\ c.orders = os

LEMMA ReferenceReplaces ==
  ASSUME NEW os, NEW r, NEW u, NEW n, NEW p
  PROVE  ReferenceReplace(Reference!replace_order(os, r, u, n, p),
                          os, r, u, n, p)
BY ReferenceAnswer DEF Reference!replace_order, ReferenceReplace

ReferenceReduce(c, os, r, n) ==
  LET yes == r \in DOMAIN os /\ n \in 1 .. os[r].shares
  IN  /\ yes => c.ok = TRUE
      /\ yes /\ n = os[r].shares => c.orders = Reference!Without(os, r)
      /\ yes /\ n # os[r].shares =>
           c.orders = [os EXCEPT ![r].shares = os[r].shares - n]
      /\ ~yes => c.ok = FALSE /\ c.orders = os

LEMMA ReferenceReduces ==
  ASSUME NEW os, NEW r, NEW n \in Nat,
         r \in DOMAIN os => os[r].shares \in Nat \ {0}
  PROVE  ReferenceReduce(Reference!reduce_shares(os, r, n), os, r, n)
<1> DEFINE c == Reference!reduce_shares(os, r, n)
<1>1. CASE r \notin DOMAIN os
  BY <1>1, ReferenceAnswer DEF Reference!reduce_shares, ReferenceReduce
<1>2. CASE r \in DOMAIN os
  <2> DEFINE m == os[r].shares
             gone == Reference!Without(os, r)
             less == [os EXCEPT ![r].shares = @ - n]
  <2>1. c = CASE n \notin 1 .. m -> Reference!Refused(os)
              [] n = m -> Reference!Accepted(gone)
              [] n \in 1 .. m - 1 -> Reference!Accepted(less)
    BY <1>2 DEF Reference!reduce_shares
  <2>2. m \in Nat \ {0}
    BY <1>2
  <2>3. less = [os EXCEPT ![r].shares = os[r].shares - n]
    BY <1>2
  <2> HIDE DEF m, gone, less
  <2>4. CASE n \notin 1 .. m
    <3>1. n # m /\ n \notin 1 .. m - 1
      BY <2>2, <2>4
    <3> QED BY <1>2, <2>1, <2>4, <3>1, ReferenceAnswer DEF m, ReferenceReduce
  <2>5. CASE n \in 1 .. m /\ n = m
    <3>1. n \notin 1 .. m - 1
      BY <2>2, <2>5
    <3> QED BY <1>2, <2>1, <2>5, <3>1, ReferenceAnswer DEF m, ReferenceReduce, gone
  <2>6. CASE n \in 1 .. m /\ n # m
    <3>1. n \in 1 .. m - 1
      BY <2>2, <2>6
    <3> QED BY <1>2, <2>1, <2>3, <2>6, <3>1, ReferenceAnswer DEF m, ReferenceReduce
  <2> QED BY <2>4, <2>5, <2>6
<1> QED BY <1>1, <1>2

(* What the reference book keeps of the orders os. *)
Kept(os) ==
  [r \in DOMAIN os |-> [price |-> os[r].price, shares |-> os[r].shares,
                        side |-> os[r].side]]

LEMMA RestingIsKept ==
  ASSUME NEW b
  PROVE  Resting(b) = Kept(Orders(b))
BY DEF Resting, Kept, Orders

(* One order more or less, and one order changed. *)
LEMMA KeptExtends ==
  ASSUME NEW os, NEW more, NEW r, NEW o, Extends(more, os, r, o)
  PROVE  /\ Kept(more) = Reference!With(Kept(os), r,
                           Reference!RefOrder(o.price, o.shares, o.side))
         /\ Kept(os) = Reference!Without(Kept(more), r)
<1> DEFINE K(x) == [price |-> x.price, shares |-> x.shares, side |-> x.side]
<1>1. /\ DOMAIN Kept(os) = DOMAIN os /\ DOMAIN Kept(more) = DOMAIN more
      /\ \A x \in DOMAIN os : Kept(os)[x] = K(os[x])
      /\ \A x \in DOMAIN more : Kept(more)[x] = K(more[x])
      /\ Reference!RefOrder(o.price, o.shares, o.side) = K(o)
  BY DEF Kept, Reference!RefOrder
<1>2. /\ r \notin DOMAIN os /\ DOMAIN more = DOMAIN os \cup {r}
      /\ more[r] = o /\ \A x \in DOMAIN os : more[x] = os[x]
  BY DEF Extends
<1>3. /\ Kept(os) = [x \in DOMAIN os |-> K(os[x])]
      /\ Kept(more) = [x \in DOMAIN more |-> K(more[x])]
  BY DEF Kept
<1> HIDE DEF K
<1>4. \A x \in DOMAIN more :
        Kept(more)[x] = IF x = r THEN K(o) ELSE Kept(os)[x]
  BY <1>1, <1>2
<1>5. Kept(more) = Reference!With(Kept(os), r, K(o))
  BY <1>1, <1>2, <1>3, <1>4 DEF Reference!With
<1>6. \A x \in DOMAIN os : Kept(more)[x] = Kept(os)[x]
  BY <1>1, <1>2
<1>7. Kept(os) = Reference!Without(Kept(more), r)
  <2>1. DOMAIN Kept(more) \ {r} = DOMAIN os
    BY <1>1, <1>2
  <2> QED BY <1>1, <1>3, <1>6, <2>1 DEF Reference!Without
<1> QED BY <1>1, <1>5, <1>7

(* The kept orders are os with n shares left of order r. *)
Lessened(less, os, r, n) == less = [os EXCEPT ![r].shares = n]

LEMMA KeptChanges ==
  ASSUME NEW os, NEW more, NEW r, NEW o, Changes(more, os, r, o),
         o.price = os[r].price, o.side = os[r].side
  PROVE  Lessened(Kept(more), Kept(os), r, o.shares)
<1> DEFINE K(x) == [price |-> x.price, shares |-> x.shares, side |-> x.side]
           n == o.shares
<1>1. /\ r \in DOMAIN os /\ DOMAIN more = DOMAIN os /\ more[r] = o
      /\ \A x \in DOMAIN os \ {r} : more[x] = os[x]
  BY DEF Changes
<1>2. /\ Kept(os) = [x \in DOMAIN os |-> K(os[x])]
      /\ Kept(more) = [x \in DOMAIN os |-> K(more[x])]
  BY <1>1 DEF Kept
<1>3. K(o) = [K(os[r]) EXCEPT !.shares = n]
  OBVIOUS
<1> HIDE DEF K, n
<1>4. Kept(more)[r] = [Kept(os)[r] EXCEPT !.shares = n]
  BY <1>1, <1>2, <1>3
<1>5. [Kept(os) EXCEPT ![r].shares = n]
        = [Kept(os) EXCEPT ![r] = [Kept(os)[r] EXCEPT !.shares = n]]
  BY <1>1, <1>2
<1>6. \A x \in DOMAIN os \ {r} : Kept(more)[x] = Kept(os)[x]
  BY <1>1, <1>2
<1>7. Kept(more) = [Kept(os) EXCEPT ![r] = [Kept(os)[r] EXCEPT !.shares = n]]
  BY <1>1, <1>2, <1>4, <1>6
<1> QED BY <1>5, <1>7 DEF Lessened, n

-----------------------------------------------------------------------------
(* Each call answers as the reference book's does, and does the same to    *)
(* the resting orders.                                                     *)

LEMMA SameDomain ==
  ASSUME NEW b, Sound(b)
  PROVE  /\ \A r \in Refs : r \in DOMAIN Resting(b) <=> Live(b, r)
         /\ b.free = <<>> <=> Cardinality(DOMAIN Resting(b)) >= OrderCapacity
         /\ \A r \in DOMAIN Resting(b) :
              /\ Resting(b)[r].shares = OrderOf(b, r).shares
              /\ Resting(b)[r].shares \in Nat \ {0}
              /\ Resting(b)[r].side = OrderOf(b, r).side
<1>1. DOMAIN Resting(b) = {x \in Refs : Live(b, x)}
  BY RestingFacts
<1>2. b.free = <<>> <=> Cardinality(DOMAIN Resting(b)) >= OrderCapacity
  BY <1>1, PoolCount
<1>3. ASSUME NEW r \in DOMAIN Resting(b)
      PROVE  /\ Resting(b)[r].shares = OrderOf(b, r).shares
             /\ Resting(b)[r].shares \in Nat \ {0}
             /\ Resting(b)[r].side = OrderOf(b, r).side
  <2>1. /\ Resting(b)[r].shares = OrderOf(b, r).shares
        /\ Resting(b)[r].side = OrderOf(b, r).side
    BY <1>1 DEF Resting
  <2>2. OrderOf(b, r).shares \in 1 .. ShareSpan - 1
    BY <1>1, OrderLevel
  <2> QED BY <2>1, <2>2, ShareAssumption
<1> QED BY <1>1, <1>2, <1>3

LEMMA SameAdd ==
  ASSUME NEW b, BookInv(b), NEW r \in Refs, NEW p \in Prices,
         NEW n \in ShareInputs, NEW d \in Sides, NEW t \in Traders,
         NEW c, c = add_order(b, r, p, n, d, t),
         NEW a, a = Reference!add_order(Resting(b), r, p, n, d)
  PROVE  c.ok = a.ok /\ Resting(c.book) = a.orders
<1> DEFINE o == NewOrder(r, p, n, d, t)
           yes == n # 0 /\ ~Live(b, r) /\ b.free # <<>>
<1>0. Sound(b) /\ n \in 0 .. ShareSpan - 1
  BY ShareInputsAssumption DEF BookInv
<1>1. /\ c.ok <=> yes
      /\ ~c.ok => c.book = b
      /\ c.ok => Extends(Orders(c.book), Orders(b), r, o)
  BY <1>0, AddEffect
<1>2. c.ok \in BOOLEAN
  BY AnswerType
<1>3. /\ yes => /\ a.ok = TRUE
                /\ a.orders = Reference!With(Resting(b), r,
                                Reference!RefOrder(p, n, d))
      /\ ~yes => a.ok = FALSE /\ a.orders = Resting(b)
  <2>1. /\ r \in DOMAIN Resting(b) <=> Live(b, r)
        /\ b.free = <<>> <=> Cardinality(DOMAIN Resting(b)) >= OrderCapacity
    BY <1>0, SameDomain
  <2>2. ReferenceAdd(a, Resting(b), r, p, n, d)
    BY ReferenceAdds
  <2> QED BY <2>1, <2>2 DEF ReferenceAdd
<1>4. o.price = p /\ o.shares = n /\ o.side = d
  BY DEF NewOrder
<1> HIDE DEF o, yes
<1>5. ASSUME yes PROVE Resting(c.book) = a.orders
  BY <1>1, <1>3, <1>4, <1>5, KeptExtends, RestingIsKept
<1> QED BY <1>1, <1>2, <1>3, <1>5

LEMMA SameReduce ==
  ASSUME NEW b, BookInv(b), NEW r \in Refs, NEW n \in ShareInputs,
         NEW c, c = reduce_shares(b, r, n),
         NEW a, a = Reference!reduce_shares(Resting(b), r, n)
  PROVE  c.ok = a.ok /\ Resting(c.book) = a.orders
<1> DEFINE o == OrderOf(b, r)
           os == Resting(b)
           yes == Live(b, r) /\ n \in 1 .. o.shares
<1>0. Sound(b) /\ n \in Nat
  BY ShareInputsAssumption, ShareAssumption DEF BookInv
<1>1. /\ c.ok <=> yes
      /\ ~c.ok => c.book = b
      /\ c.ok /\ n = o.shares => Extends(Orders(b), Orders(c.book), r, o)
      /\ c.ok /\ n # o.shares =>
           Changes(Orders(c.book), Orders(b), r,
                   [o EXCEPT !.shares = o.shares - n])
  BY <1>0, ReduceEffect
<1>2. c.ok \in BOOLEAN
  BY AnswerType
<1>3. /\ r \in DOMAIN os <=> Live(b, r)
      /\ r \in DOMAIN os => os[r].shares = o.shares
                              /\ os[r].shares \in Nat \ {0}
  BY <1>0, SameDomain
<1>4. /\ yes => a.ok = TRUE
      /\ yes /\ n = o.shares => a.orders = Reference!Without(os, r)
      /\ yes /\ n # o.shares =>
           a.orders = [os EXCEPT ![r].shares = o.shares - n]
      /\ ~yes => a.ok = FALSE /\ a.orders = os
  <2> HIDE DEF os
  <2>1. ReferenceReduce(a, os, r, n)
    BY <1>0, <1>3, ReferenceReduces DEF os
  <2> HIDE DEF o
  <2>2. yes <=> r \in DOMAIN os /\ n \in 1 .. os[r].shares
    BY <1>3
  <2> QED BY <1>3, <2>1, <2>2 DEF ReferenceReduce
<1>5. CASE ~yes
  BY <1>1, <1>2, <1>3, <1>4, <1>5
<1>6. CASE yes /\ n = o.shares
  <2>1. Extends(Orders(b), Orders(c.book), r, o)
    BY <1>1, <1>6
  <2>2. Resting(c.book) = Reference!Without(os, r)
    BY <2>1, KeptExtends, RestingIsKept
  <2> QED BY <1>1, <1>2, <1>3, <1>4, <1>6, <2>2
<1>7. CASE yes /\ n # o.shares
  <2>1. o = Orders(b)[r] /\ Orders(b)[r] \in Order
    BY <1>0, <1>7, OrderLevel
  <2>2. Changes(Orders(c.book), Orders(b), r, [o EXCEPT !.shares = o.shares - n])
    BY <1>1, <1>7
  <2>3. Resting(c.book) = [os EXCEPT ![r].shares = o.shares - n]
    <3> DEFINE m == [o EXCEPT !.shares = o.shares - n]
    <3>1. m.price = o.price /\ m.side = o.side /\ m.shares = o.shares - n
      BY <2>1 DEF Order
    <3> HIDE DEF o, m
    <3>2. Changes(Orders(c.book), Orders(b), r, m)
      BY <2>2 DEF m
    <3>3. Lessened(Kept(Orders(c.book)), Kept(Orders(b)), r, m.shares)
      BY <2>1, <3>1, <3>2, KeptChanges
    <3> QED BY <3>1, <3>3, RestingIsKept DEF Lessened
  <2>4. c.ok = a.ok /\ a.orders = [os EXCEPT ![r].shares = o.shares - n]
    BY <1>1, <1>2, <1>3, <1>4, <1>7
  <2> QED BY <2>3, <2>4
<1> QED BY <1>5, <1>6, <1>7

LEMMA SameDelete ==
  ASSUME NEW b, BookInv(b), NEW r \in Refs, NEW c, c = delete_order(b, r),
         NEW a, a = Reference!delete_order(Resting(b), r)
  PROVE  c.ok = a.ok /\ Resting(c.book) = a.orders
<1>0. Sound(b)
  BY DEF BookInv
<1>1. /\ c.ok <=> Live(b, r)
      /\ ~c.ok => c.book = b
      /\ c.ok => Extends(Orders(b), Orders(c.book), r, OrderOf(b, r))
  BY DeleteEffect
<1>2. c.ok \in BOOLEAN
  BY AnswerType
<1>3. r \in DOMAIN Resting(b) <=> Live(b, r)
  BY <1>0, SameDomain
<1>4. IF r \in DOMAIN Resting(b)
      THEN a.ok = TRUE /\ a.orders = Reference!Without(Resting(b), r)
      ELSE a.ok = FALSE /\ a.orders = Resting(b)
  BY ReferenceDeletes
<1>5. c.ok => Resting(c.book) = Reference!Without(Resting(b), r)
  BY <1>1, KeptExtends, RestingIsKept
<1> QED BY <1>1, <1>2, <1>3, <1>4, <1>5

LEMMA SameReplace ==
  ASSUME NEW b, BookInv(b), NEW r \in Refs, NEW u \in Refs,
         NEW n \in ShareInputs, NEW p \in Prices,
         NEW c, c = replace_order(b, r, u, n, p),
         NEW a, a = Reference!replace_order(Resting(b), r, u, n, p)
  PROVE  c.ok = a.ok /\ Resting(c.book) = a.orders
<1> DEFINE o == OrderOf(b, r)
           m == NewOrder(u, p, n, o.side, 0)
           yes == Live(b, r) /\ n # 0 /\ (r = u \/ ~Live(b, u))
<1>0. Sound(b) /\ n \in 0 .. ShareSpan - 1
  BY ShareInputsAssumption DEF BookInv
<1>1. /\ c.ok <=> yes
      /\ ~c.ok => c.book = b
      /\ c.ok => \E os : /\ Extends(Orders(b), os, r, o)
                         /\ Extends(Orders(c.book), os, u, m)
  BY <1>0, ReplaceEffect
<1>2. c.ok \in BOOLEAN
  BY AnswerType
<1>3. /\ r \in DOMAIN Resting(b) <=> Live(b, r)
      /\ u \in DOMAIN Resting(b) <=> Live(b, u)
      /\ r \in DOMAIN Resting(b) => Resting(b)[r].side = o.side
  BY <1>0, SameDomain
<1>4. /\ yes => /\ a.ok = TRUE
                /\ a.orders = Reference!With(Reference!Without(Resting(b), r), u,
                                Reference!RefOrder(p, n, Resting(b)[r].side))
      /\ ~yes => a.ok = FALSE /\ a.orders = Resting(b)
  <2>1. ReferenceReplace(a, Resting(b), r, u, n, p)
    BY ReferenceReplaces
  <2> QED BY <1>3, <2>1 DEF ReferenceReplace
<1>5. m.price = p /\ m.shares = n /\ m.side = o.side
  BY DEF NewOrder
<1> HIDE DEF m
<1>6. ASSUME yes
      PROVE  Resting(c.book) = a.orders
  <2>1. PICK os : /\ Extends(Orders(b), os, r, o)
                  /\ Extends(Orders(c.book), os, u, m)
    BY <1>1, <1>6
  <2>2. Kept(os) = Reference!Without(Resting(b), r)
    BY <2>1, KeptExtends, RestingIsKept
  <2>3. Resting(c.book)
          = Reference!With(Kept(os), u, Reference!RefOrder(p, n, o.side))
    BY <1>5, <2>1, KeptExtends, RestingIsKept
  <2> QED BY <1>3, <1>4, <1>6, <2>2, <2>3
<1> QED BY <1>1, <1>2, <1>4, <1>6

(* For every pool, window and price range the book accepts and refuses     *)
(* exactly the calls that the reference book does: the pool's free list is *)
(* empty exactly when as many orders rest as it has slots, and the index   *)
(* never refuses first (add_order, reduce_shares, replace_order).          *)
THEOREM AnswersAreExact == Spec => []AnswersAgree
<1>1. BookInv(book) => AnswersAgree
  <2> SUFFICES ASSUME BookInv(book) PROVE AnswersAgree
    OBVIOUS
  <2>1. 0 \in Traders
    BY TraderAssumption
  <2>2. ASSUME NEW r \in Refs, NEW p \in Prices, NEW n \in ShareInputs,
               NEW d \in Sides
        PROVE  add_order(book, r, p, n, d, 0).ok
                 = Reference!add_order(Resting(book), r, p, n, d).ok
    BY <2>1, SameAdd
  <2>3. ASSUME NEW r \in Refs, NEW n \in ShareInputs
        PROVE  reduce_shares(book, r, n).ok
                 = Reference!reduce_shares(Resting(book), r, n).ok
    BY SameReduce
  <2>4. ASSUME NEW r \in Refs
        PROVE  delete_order(book, r).ok
                 = Reference!delete_order(Resting(book), r).ok
    BY SameDelete
  <2>5. ASSUME NEW old \in Refs, NEW new \in Refs, NEW n \in ShareInputs,
               NEW p \in Prices
        PROVE  replace_order(book, old, new, n, p).ok
                 = Reference!replace_order(Resting(book), old, new, n, p).ok
    BY SameReplace
  <2> QED BY <2>2, <2>3, <2>4, <2>5 DEF AnswersAgree
<1> QED BY <1>1, Invariant, PTL

(* What a call of the book does to its resting orders, the same call of    *)
(* the reference book does.                                                *)
LEMMA StepRefines ==
  ASSUME BookInv(book), Call(book, book')
  PROVE  Reference!Next \/ Resting(book)' = Resting(book)
<1> USE DEF Reference!Next, Reference!Add, Reference!Reduce,
            Reference!Delete, Reference!Replace
<1>1. ASSUME NEW r \in Refs, NEW p \in Prices, NEW n \in ShareInputs,
             NEW d \in Sides, NEW t \in Traders,
             book' = add_order(book, r, p, n, d, t).book
      PROVE  Reference!Next
  <2>1. Resting(book') = Reference!add_order(Resting(book), r, p, n, d).orders
    BY <1>1, SameAdd
  <2> QED BY <2>1 DEF Sides, Reference!Sides
<1>2. ASSUME NEW r \in Refs, NEW n \in ShareInputs,
             book' = reduce_shares(book, r, n).book
      PROVE  Reference!Next
  <2>1. Resting(book') = Reference!reduce_shares(Resting(book), r, n).orders
    BY <1>2, SameReduce
  <2> QED BY <2>1
<1>3. ASSUME NEW r \in Refs, book' = delete_order(book, r).book
      PROVE  Reference!Next
  <2>1. Resting(book') = Reference!delete_order(Resting(book), r).orders
    BY <1>3, SameDelete
  <2> QED BY <2>1
<1>4. ASSUME NEW old \in Refs, NEW new \in Refs, NEW n \in ShareInputs,
             NEW p \in Prices, book' = replace_order(book, old, new, n, p).book
      PROVE  Reference!Next
  <2>1. Resting(book')
          = Reference!replace_order(Resting(book), old, new, n, p).orders
    BY <1>4, SameReplace
  <2> QED BY <2>1
<1>5. CASE book' = book
  BY <1>5
<1> QED BY <1>1, <1>2, <1>3, <1>4, <1>5 DEF Call

(* The book with its pool, index, levels and cached best prices implements *)
(* the reference book, the plain map of resting orders that the            *)
(* differential test compares it with: for every pool, window and price    *)
(* range, every call and every ITCH message is a step of the reference.    *)
THEOREM BookRefinesReference == Spec => ImplementsReference
<1>1. Init => Reference!Init
  <2> SUFFICES ASSUME Init PROVE Reference!Init
    OBVIOUS
  <2>1. DOMAIN Resting(book) = {}
    BY InitInv, RestingIsKept DEF Init, Kept
  <2>2. Resting(book) = [r \in {} |-> Reference!RefOrder(0, 0, "buy")]
    BY <2>1 DEF Resting
  <2> QED BY <2>2 DEF Reference!Init
<1>2. BookInv(book) /\ [Next]_book => [Reference!Next]_(Resting(book))
  BY StepIsCall, StepRefines
<1> QED BY <1>1, <1>2, Invariant, PTL DEF Spec, ImplementsReference, Reference!Spec

-----------------------------------------------------------------------------
(* The cached best prices and the walk over the levels. *)

(* A price of a set that no other of the set ranks before is its best. *)
LEMMA BestInIs ==
  ASSUME NEW d \in Sides, NEW ps \in SUBSET Nat, NEW v \in Nat \cup {NoPrice},
         v # NoPrice => v \in ps,
         \A p \in ps : v # NoPrice /\ ~Better(d, p, v)
  PROVE  v = BestIn(d, ps)
<1>1. CASE v = NoPrice
  <2>1. ps = {}
    BY <1>1
  <2> QED BY <1>1, <2>1 DEF BestIn
<1>2. CASE v # NoPrice
  <2>1. v \in ps /\ v \in Nat
    BY <1>2
  <2>2. CASE d = "buy"
    <3>1. \A p \in ps : v >= p
      BY <2>1, <2>2 DEF Better
    <3>2. \A w \in ps : (\A p \in ps : w >= p) => w = v
      BY <2>1, <3>1
    <3>3. Max(ps) = v
      BY <2>1, <3>1, <3>2 DEF Max
    <3> QED BY <2>1, <2>2, <3>3 DEF BestIn
  <2>3. CASE d = "sell"
    <3>1. \A p \in ps : v <= p
      BY <2>1, <2>3 DEF Better
    <3>2. \A w \in ps : (\A p \in ps : w <= p) => w = v
      BY <2>1, <3>1
    <3>3. Min(ps) = v
      BY <2>1, <3>1, <3>2 DEF Min
    <3> QED BY <2>1, <2>3, <3>3 DEF BestIn
  <2> QED BY <2>2, <2>3 DEF Sides
<1> QED BY <1>1, <1>2

(* The reference's scan of all orders answers the best price of a side. *)
LEMMA ReferenceBest ==
  ASSUME NEW b, Sound(b), NEW d \in Sides
  PROVE  Reference!best_price(Resting(b), d) = BestIn(d, Priced(b, d))
<1> DEFINE os == Resting(b)
           ps == {os[r].price : r \in {r \in DOMAIN os : os[r].side = d}}
<1>1. ps = Priced(b, d)
  <2>1. /\ DOMAIN os = {r \in Refs : Live(b, r)}
        /\ \A r \in DOMAIN os : /\ os[r].price = OrderOf(b, r).price
                                /\ os[r].side = OrderOf(b, r).side
    BY DEF Resting
  <2>2. \A r \in DOMAIN os : OrderOf(b, r).price \in Prices
    BY <2>1, OrderLevel
  <2> HIDE DEF os
  <2> QED BY <2>1, <2>2 DEF Priced
<1>2. Reference!best_price(os, d)
        = IF ps = {} THEN -1
          ELSE IF d = "buy" THEN Reference!Max(ps) ELSE Reference!Min(ps)
  BY DEF Reference!best_price
<1>3. Reference!Max(ps) = Max(ps) /\ Reference!Min(ps) = Min(ps)
  BY DEF Reference!Max, Reference!Min, Max, Min
<1> HIDE DEF os, ps
<1> QED BY <1>1, <1>2, <1>3 DEF BestIn, NoPrice, os

(* While no counter wraps, the cached best prices are the best ones.      *)
LEMMA BestIsBest ==
  ASSUME NEW b, BookInv(b), BestLeads(b), NEW d \in Sides
  PROVE  b.best[d] = Reference!best_price(Resting(b), d)
<1>1. Sound(b) /\ Priced(b, d) \subseteq Nat
  <2>1. Prices \subseteq Nat
    BY PriceAssumption
  <2>2. Priced(b, d) \subseteq Prices
    BY DEF Priced
  <2> QED BY <2>1, <2>2 DEF BookInv
<1>2. b.best[d] \in Nat \cup {NoPrice}
  BY <1>1, PriceAssumption DEF Sound, Book
<1>3. /\ b.best[d] # NoPrice => b.best[d] \in Priced(b, d)
      /\ \A p \in Priced(b, d) :
           b.best[d] # NoPrice /\ ~Better(d, p, b.best[d])
  BY DEF BookInv, BestBacked, BestLeads
<1>4. b.best[d] = BestIn(d, Priced(b, d))
  BY <1>1, <1>2, <1>3, BestInIs
<1> QED BY <1>1, <1>4, ReferenceBest

(* In every execution in which the shares that rest at a level never       *)
(* exceed the width of its counter, the best bid and ask that              *)
(* update_best_on_add and recompute_best_after_level_emptied maintain are  *)
(* what a scan of all resting orders would find.  (Without the hypothesis  *)
(* it fails: a counter that wraps to zero hides its level from the scan.)  *)
THEOREM BestIsExact == Spec /\ []NoWrap(book) => []BestExact
<1>1. Init => BestLeads(book)
  BY InitInv DEF Init
<1>2. BookInv(book) /\ NoWrap(book) /\ BestLeads(book) /\ [Next]_book
        => BestLeads(book)'
  BY StepIsCall, CallInv
<1>3. BookInv(book) /\ BestLeads(book) => BestExact
  BY BestIsBest DEF BestExact
<1> QED BY <1>1, <1>2, <1>3, Invariant, PTL DEF Spec

(* In the same executions next_level_after answers the next price, in      *)
(* priority order, at which an order of the side rests, so that a walk     *)
(* over flat window and outlier map meets every level once and none that   *)
(* is empty.                                                               *)
THEOREM WalkIsExact == Spec /\ []NoWrap(book) => []WalkExact
<1>1. BookInv(book) /\ NoWrap(book) => WalkExact
  <2> SUFFICES ASSUME BookInv(book), NoWrap(book),
                      NEW p \in Prices, NEW d \in Sides
               PROVE  next_level_after(book, p, d)
                        = BestIn(d, {q \in Prices :
                            /\ Better(d, p, q)
                            /\ \E r \in Refs : /\ Live(book, r)
                                               /\ OrderOf(book, r).price = q
                                               /\ OrderOf(book, r).side = d})
    BY DEF WalkExact
  <2> DEFINE within == {q \in 0 .. PriceSpan - 1 : Better(d, p, q)}
             v  == ScanLevels(book, d, within)
             ps == Priced(book, d) \cap within
  <2>1. /\ v # NoPrice => v \in within /\ v \in Priced(book, d)
        /\ \A q \in ps : v # NoPrice /\ ~Better(d, q, v)
    BY ScanFacts DEF BookInv
  <2>2. ps \subseteq Nat /\ within \subseteq Nat
    BY PriceAssumption
  <2>3. v = BestIn(d, ps)
    <3> HIDE DEF v, within
    <3> QED BY <2>1, <2>2, BestInIs
  <2>4. ps = {q \in Prices :
                /\ Better(d, p, q)
                /\ \E r \in Refs : /\ Live(book, r)
                                   /\ OrderOf(book, r).price = q
                                   /\ OrderOf(book, r).side = d}
    BY PriceAssumption DEF Priced
  <2> QED BY <2>3, <2>4 DEF next_level_after
<1> QED BY <1>1, Invariant, PTL

-----------------------------------------------------------------------------
(* Where no counter can wrap. *)

(* No resting order has more than M shares. *)
Small(b, M) == \A r \in DOMAIN Orders(b) : Orders(b)[r].shares <= M

(* Orders are never larger than what the calls bring. *)
LEMMA CallSmall ==
  ASSUME NEW b, NEW c, BookInv(b), Call(b, c), NEW M \in Nat,
         ShareInputs \subseteq 0 .. M, Small(b, M)
  PROVE  Small(c, M)
<1>0. Sound(b) /\ ShareInputs \subseteq 0 .. ShareSpan - 1 /\ ShareInputs \subseteq Nat
  BY ShareInputsAssumption, ShareAssumption DEF BookInv
<1>1. ASSUME NEW os, NEW more, NEW r, NEW o, Extends(more, os, r, o),
             o.shares <= M, \A x \in DOMAIN os : os[x].shares <= M
      PROVE  \A x \in DOMAIN more : more[x].shares <= M
  BY <1>1 DEF Extends
<1>2. ASSUME NEW os, NEW less, NEW r, NEW o, Extends(os, less, r, o),
             \A x \in DOMAIN os : os[x].shares <= M
      PROVE  \A x \in DOMAIN less : less[x].shares <= M
  BY <1>2 DEF Extends
<1>3. ASSUME NEW r \in Refs, NEW p \in Prices, NEW n \in ShareInputs,
             NEW d \in Sides, NEW t \in Traders,
             c = add_order(b, r, p, n, d, t).book
      PROVE  Small(c, M)
  <2> DEFINE o == NewOrder(r, p, n, d, t)
  <2>1. o.shares <= M
    BY DEF NewOrder
  <2>2. c = b \/ Extends(Orders(c), Orders(b), r, o)
    BY <1>0, <1>3, AddEffect
  <2> HIDE DEF o
  <2> QED BY <1>1, <2>1, <2>2 DEF Small
<1>4. ASSUME NEW r \in Refs, NEW n \in ShareInputs,
             c = reduce_shares(b, r, n).book
      PROVE  Small(c, M)
  <2> DEFINE o == OrderOf(b, r)
             a == reduce_shares(b, r, n)
             m == [o EXCEPT !.shares = o.shares - n]
  <2>1. /\ a.ok <=> Live(b, r) /\ n \in 1 .. o.shares
        /\ \/ c = b
           \/ a.ok /\ Extends(Orders(b), Orders(c), r, o)
           \/ a.ok /\ Changes(Orders(c), Orders(b), r, m)
    BY <1>0, <1>4, ReduceEffect
  <2>2. CASE c = b
    BY <2>2
  <2>3. CASE a.ok /\ Extends(Orders(b), Orders(c), r, o)
    BY <1>2, <2>3 DEF Small
  <2>4. CASE a.ok /\ Changes(Orders(c), Orders(b), r, m)
    <3>1. /\ r \in DOMAIN Orders(b) /\ Orders(b)[r] = o /\ o \in Order
          /\ o.shares \in 1 .. ShareSpan - 1
      BY <1>0, <2>1, <2>4, OrderLevel
    <3>2. m.shares = o.shares - n
      BY <3>1 DEF Order
    <3>3. o.shares <= M /\ o.shares \in Int /\ n \in Nat
      BY <1>0, <3>1, ShareAssumption DEF Small
    <3>4. m.shares <= M
      BY <3>2, <3>3
    <3> HIDE DEF m
    <3> QED BY <2>4, <3>4 DEF Small, Changes
  <2> QED BY <2>1, <2>2, <2>3, <2>4
<1>5. ASSUME NEW r \in Refs, c = delete_order(b, r).book
      PROVE  Small(c, M)
  <2>1. c = b \/ Extends(Orders(b), Orders(c), r, OrderOf(b, r))
    BY <1>5, DeleteEffect
  <2> QED BY <1>2, <2>1 DEF Small
<1>6. ASSUME NEW old \in Refs, NEW new \in Refs, NEW n \in ShareInputs,
             NEW p \in Prices, c = replace_order(b, old, new, n, p).book
      PROVE  Small(c, M)
  <2> DEFINE o == OrderOf(b, old)
             m == NewOrder(new, p, n, o.side, 0)
  <2>1. m.shares <= M
    BY DEF NewOrder
  <2>2. \/ c = b
        \/ \E os : Extends(Orders(b), os, old, o) /\ Extends(Orders(c), os, new, m)
    BY <1>0, <1>6, ReplaceEffect
  <2>3. CASE c = b
    BY <2>3
  <2>4. ASSUME NEW os, Extends(Orders(b), os, old, o),
               Extends(Orders(c), os, new, m)
        PROVE  Small(c, M)
    <3> HIDE DEF o, m
    <3>1. \A x \in DOMAIN os : os[x].shares <= M
      BY <1>2, <2>4 DEF Small
    <3> QED BY <1>1, <2>1, <2>4, <3>1 DEF Small
  <2> QED BY <2>2, <2>3, <2>4
<1> QED BY <1>3, <1>4, <1>5, <1>6 DEF Call

(* A book of small orders holds fewer shares than a counter can count. *)
LEMMA SmallNoWrap ==
  ASSUME NEW b, Sound(b), NEW M \in Nat, Small(b, M), M * OrderCapacity < ShareSpan
  PROVE  NoWrap(b)
<1> SUFFICES ASSUME NEW l \in Levels, NEW d \in Sides
             PROVE  TotalOf(Orders(b), l, d) < ShareSpan
  BY DEF NoWrap
<1> DEFINE R == DOMAIN Orders(b)
           S == AtLevel(Orders(b), l, d)
           f == [r \in S |-> Orders(b)[r].shares]
           F == SumFunctionOnSet(f, S)
           k == Cardinality(S)
<1>1. IsFiniteSet(R) /\ S \subseteq R /\ R = {r \in Refs : Live(b, r)}
  BY OrdersType DEF Countable, AtLevel
<1>2. \A r \in S : f[r] \in 0 .. M
  <2>1. \A r \in S : Orders(b)[r].shares <= M /\ Orders(b)[r] \in Order
    BY <1>1, OrdersType DEF Small
  <2>2. \A o \in Order : o.shares \in Nat
    BY ShareAssumption DEF Order
  <2> HIDE DEF S
  <2> QED BY <2>1, <2>2
<1>3. TotalOf(Orders(b), l, d) = F
  BY DEF TotalOf, SumFunction
<1>4. Cardinality(R) <= OrderCapacity /\ OrderCapacity \in Nat
  BY <1>1, PoolBound, CapacityAssumption
<1> HIDE DEF R, S, f
<1>5. IsFiniteSet(S) /\ k <= Cardinality(R) /\ Cardinality(R) \in Nat /\ k \in Nat
  BY <1>1, FS_Subset, FS_CardinalityType
<1>6. F <= M * k /\ F \in Int
  <2>1. \A r \in S : f[r] \in Int
    BY <1>2
  <2> QED BY <1>2, <1>5, <2>1, SumBound, SumType
<1> HIDE DEF F, k
<1>7. M * k <= M * OrderCapacity
  <2>1. k <= OrderCapacity
    BY <1>4, <1>5
  <2> QED BY <1>4, <1>5, <2>1
<1>8. F < ShareSpan
  <2>1. M * k \in Int /\ M * OrderCapacity \in Int /\ ShareSpan \in Int
    BY <1>4, <1>5, ShareAssumption
  <2> QED BY <1>6, <1>7, <2>1
<1> QED BY <1>3, <1>8

(* A bound on order sizes and the pool's capacity keep every counter from  *)
(* wrapping, and then the cached best prices and the walk are exact in     *)
(* every execution: for the 32-bit counters, for instance, a pool of 65536 *)
(* slots and orders of at most 65535 shares.                               *)
THEOREM BestIsExactIfSmall ==
  ASSUME NEW M \in Nat, ShareInputs \subseteq 0 .. M, M * OrderCapacity < ShareSpan
  PROVE  Spec => [](BestExact /\ WalkExact)
<1>1. Init => Small(book, M)
  BY InitInv DEF Init, Small
<1>2. BookInv(book) /\ Small(book, M) /\ [Next]_book => Small(book, M)'
  BY StepIsCall, CallSmall
<1>3. BookInv(book) /\ Small(book, M) => NoWrap(book)
  BY SmallNoWrap DEF BookInv
<1>4. Spec => []NoWrap(book)
  BY <1>1, <1>2, <1>3, Invariant, PTL DEF Spec
<1> QED BY <1>4, BestIsExact, WalkIsExact, PTL

-----------------------------------------------------------------------------
(* Time priority. *)

(* What is left of a sequence after RemoveAt: the others, in order. *)
LEMMA RemoveAtIs ==
  ASSUME NEW S, NEW q \in Seq(S), NEW k \in 1 .. Len(q)
  PROVE  RemoveAt(q, k)
           = [i \in 1 .. Len(q) - 1 |-> IF i < k THEN q[i] ELSE q[i + 1]]
<1> DEFINE x == SubSeq(q, 1, k - 1)
           y == SubSeq(q, k + 1, Len(q))
           n == Len(q)
<1>1. n \in Nat /\ k \in Nat /\ 1 <= k /\ k <= n
  OBVIOUS
<1>2. /\ x \in Seq(S) /\ Len(x) = k - 1
      /\ \A i \in 1 .. k - 1 : x[i] = q[i]
  OBVIOUS
<1>3. /\ y \in Seq(S) /\ Len(y) = n - k
      /\ \A i \in 1 .. n - k : y[i] = q[k + i]
  OBVIOUS
<1> DEFINE z == x \o y
<1> HIDE DEF x, y, n
<1>4. /\ z \in Seq(S) /\ Len(z) = Len(x) + Len(y)
      /\ \A i \in 1 .. Len(x) + Len(y) :
           z[i] = IF i <= Len(x) THEN x[i] ELSE y[i - Len(x)]
  BY <1>2, <1>3, ConcatProperties
<1> HIDE DEF z
<1>5. Len(z) = n - 1
  BY <1>1, <1>2, <1>3, <1>4
<1>6. ASSUME NEW i \in 1 .. n - 1
      PROVE  z[i] = IF i < k THEN q[i] ELSE q[i + 1]
  <2>1. CASE i < k
    <3>1. i \in 1 .. k - 1 /\ i <= Len(x) /\ i \in 1 .. Len(x) + Len(y)
      BY <1>1, <1>2, <1>3, <2>1
    <3> QED BY <1>2, <1>4, <2>1, <3>1
  <2>2. CASE ~(i < k)
    <3>1. /\ ~(i <= Len(x)) /\ i \in 1 .. Len(x) + Len(y)
          /\ i - Len(x) \in 1 .. n - k /\ k + (i - Len(x)) = i + 1
      BY <1>1, <1>2, <1>3, <2>2
    <3> QED BY <1>3, <1>4, <2>2, <3>1
  <2> QED BY <2>1, <2>2
<1>7. z = [i \in 1 .. Len(z) |-> z[i]]
  BY <1>4
<1>8. RemoveAt(q, k) = z
  BY DEF RemoveAt, x, y, z, n
<1> QED BY <1>5, <1>6, <1>7, <1>8 DEF n

(* A queue whose nodes and their references are unchanged. *)
LEMMA SameQueue ==
  ASSUME NEW b, NEW c, NEW l, NEW d, c.queue[l][d] = b.queue[l][d],
         \A i \in 1 .. Len(b.queue[l][d]) :
           c.slots[b.queue[l][d][i]].order_ref
             = b.slots[b.queue[l][d][i]].order_ref
  PROVE  QueueRefs(c, l, d) = QueueRefs(b, l, d)
BY DEF QueueRefs

(* From book b to book c the order with reference ref joins the back of    *)
(* the queue of level lv and side sd; all other queues are the same.       *)
Joins(b, c, ref, lv, sd) ==
  \A l \in Levels, d \in Sides :
    QueueRefs(c, l, d) = IF l = lv /\ d = sd
                         THEN Append(QueueRefs(b, l, d), ref)
                         ELSE QueueRefs(b, l, d)

(* One leaves it, from any place. *)
Leaves(b, c, lv, sd) ==
  \A l \in Levels, d \in Sides :
    IF l = lv /\ d = sd
    THEN \E k \in 1 .. Len(QueueRefs(b, l, d)) :
           QueueRefs(c, l, d) = RemoveAt(QueueRefs(b, l, d), k)
    ELSE QueueRefs(c, l, d) = QueueRefs(b, l, d)

(* The cached best prices are no part of the queues. *)
LEMMA BestQueues ==
  ASSUME NEW b, NEW c, NEW d, NEW v, c = [b EXCEPT !.best[d] = v], b \in Book
  PROVE  \A l, e : QueueRefs(c, l, e) = QueueRefs(b, l, e)
<1>1. c.queue = b.queue /\ c.slots = b.slots
  BY DEF Book
<1> QED BY <1>1 DEF QueueRefs

(* Linking an order appends its reference to one queue: its slot was free, *)
(* so no queue held it.                                                    *)
LEMMA JoinedQueues ==
  ASSUME NEW b, Sound(b), b.free # <<>>, NEW o \in Order,
         NEW c, c = Joined(b, o)
  PROVE  Joins(b, c, o.order_ref, o.level, o.side)
<1> DEFINE s == Head(b.free)
<1>1. /\ b.queue \in [Levels -> [Sides -> Seq(Slots)]]
      /\ b.slots \in [Slots -> Order \cup {NoOrder}]
      /\ b.free \in Seq(Slots)
  BY DEF Sound, Book
<1>2. s \in Slots /\ s = b.free[1] /\ 1 \in 1 .. Len(b.free)
  BY <1>1, PopFacts
<1>3. b.slots[s] = NoOrder
  BY <1>2 DEF Sound, BookCoherent, FreeListSound
<1>4. o.level \in Levels /\ o.side \in Sides
  BY DEF Order
<1>5. /\ c.queue = [b.queue EXCEPT ![o.level][o.side] = Append(@, s)]
      /\ c.slots = [b.slots EXCEPT ![s] = o]
  BY DEF Sound, Book, Joined, Linked, Acquire, Link
<1> HIDE DEF s
<1> SUFFICES ASSUME NEW l \in Levels, NEW d \in Sides
             PROVE  QueueRefs(c, l, d) = IF l = o.level /\ d = o.side
                                         THEN Append(QueueRefs(b, l, d), o.order_ref)
                                         ELSE QueueRefs(b, l, d)
  BY DEF Joins
<1> DEFINE q == b.queue[l][d]
<1>6. q \in Seq(Slots) /\ \A i \in 1 .. Len(q) : q[i] \in Slots
  BY <1>1
<1>7. \A i \in 1 .. Len(q) : c.slots[q[i]] = b.slots[q[i]]
  <2>1. \A i \in 1 .. Len(q) : q[i] # s
    BY <1>2, <1>3, FreeIsUnqueued
  <2> QED BY <1>1, <1>5, <1>6, <2>1
<1>8. CASE l = o.level /\ d = o.side
  <2> DEFINE a == Append(q, s)
             f == QueueRefs(b, l, d)
             g == QueueRefs(c, l, d)
  <2>1. c.queue[l][d] = a
    BY ONLY <1>1, <1>4, <1>5, <1>8
  <2>2. /\ Len(a) = Len(q) + 1 /\ Len(q) \in Nat /\ a[Len(a)] = s
        /\ \A i \in 1 .. Len(q) : a[i] = q[i]
    <3> HIDE DEF q
    <3> QED BY ONLY <1>2, <1>6, AppendFacts
  <2>3. c.slots[s].order_ref = o.order_ref
    BY <1>1, <1>2, <1>5
  <2>4. f = [i \in 1 .. Len(q) |-> b.slots[q[i]].order_ref]
    BY DEF QueueRefs
  <2>5. g = [i \in 1 .. Len(a) |-> c.slots[a[i]].order_ref]
    BY <2>1 DEF QueueRefs
  <2> HIDE DEF q, a, f, g
  <2>6. g = [i \in 1 .. Len(q) + 1 |->
               IF i = Len(q) + 1 THEN o.order_ref ELSE f[i]]
    <3>1. ASSUME NEW i \in 1 .. Len(q) + 1
          PROVE  c.slots[a[i]].order_ref
                   = IF i = Len(q) + 1 THEN o.order_ref ELSE f[i]
      <4>1. CASE i = Len(q) + 1
        BY <2>2, <2>3, <4>1
      <4>2. CASE i # Len(q) + 1
        <5>1. i \in 1 .. Len(q)
          BY <2>2, <4>2
        <5> QED BY <1>7, <2>2, <2>4, <4>2, <5>1
      <4> QED BY <4>1, <4>2
    <3> QED BY <2>2, <2>5, <3>1
  <2>7. Append(f, o.order_ref) = g
    <3>1. f \in Seq({b.slots[q[i]].order_ref : i \in 1 .. Len(q)} \cup {o.order_ref})
          /\ Len(f) = Len(q)
      BY <2>2, <2>4
    <3> QED BY <2>6, <3>1
  <2> QED BY <1>8, <2>7 DEF f, g
<1>9. CASE ~(l = o.level /\ d = o.side)
  <2>1. c.queue[l][d] = q
    BY <1>1, <1>4, <1>5, <1>9
  <2> QED BY <1>7, <1>9, <2>1, SameQueue
<1> QED BY <1>8, <1>9

(* Unlinking an order takes one place out of its queue and leaves the      *)
(* others in order: no other queue holds its slot.                         *)
LEMMA ClearedQueues ==
  ASSUME NEW b, NEW s \in Slots, SoundBut(b, s), b.slots[s] # NoOrder,
         NEW o, o = b.slots[s], NEW c, c = Cleared(b, s)
  PROVE  Leaves(b, c, o.level, o.side)
<1>1. /\ b.queue \in [Levels -> [Sides -> Seq(Slots)]]
      /\ b.slots \in [Slots -> DrainedOrder \cup {NoOrder}]
      /\ QueuesSound(b) /\ OrdersReachable(b)
  BY DEF SoundBut, BookCoherent
<1>2. /\ o \in DrainedOrder
      /\ c.queue = [b.queue EXCEPT ![o.level][o.side] = Unlink(@, s)]
      /\ c.slots = [b.slots EXCEPT ![s] = NoOrder]
  <2>1. o \in DrainedOrder
    BY ClearedFields
  <2> QED BY <2>1 DEF SoundBut, Cleared, Release, Delink
<1>3. o.level \in Levels /\ o.side \in Sides
  BY <1>2 DEF DrainedOrder
<1> SUFFICES ASSUME NEW l \in Levels, NEW d \in Sides
             PROVE  IF l = o.level /\ d = o.side
                    THEN \E k \in 1 .. Len(QueueRefs(b, l, d)) :
                           QueueRefs(c, l, d) = RemoveAt(QueueRefs(b, l, d), k)
                    ELSE QueueRefs(c, l, d) = QueueRefs(b, l, d)
  BY DEF Leaves
<1> DEFINE q == b.queue[l][d]
<1>4. q \in Seq(Slots) /\ \A i \in 1 .. Len(q) : q[i] \in Slots
  BY <1>1
<1>5. \A i \in 1 .. Len(q) : q[i] # s => c.slots[q[i]] = b.slots[q[i]]
  BY <1>1, <1>2, <1>4
<1>6. CASE l = o.level /\ d = o.side
  <2>1. Once(q)
    BY <1>1 DEF QueuesSound, Once
  <2>2. PICK k \in 1 .. Len(q) : q[k] = s
    BY <1>1, <1>6 DEF OrdersReachable
  <2> DEFINE u == Unlink(q, s)
             f == QueueRefs(b, l, d)
             g == QueueRefs(c, l, d)
  <2>3. c.queue[l][d] = u
    BY <1>1, <1>2, <1>6
  <2>4. (CHOOSE j \in 1 .. Len(q) : q[j] = s) = k
    BY <2>1, <2>2 DEF Once
  <2>5. u = [i \in 1 .. Len(q) - 1 |-> IF i < k THEN q[i] ELSE q[i + 1]]
    BY <2>4 DEF Unlink
  <2>6. f = [i \in 1 .. Len(q) |-> b.slots[q[i]].order_ref]
    BY DEF QueueRefs
  <2>7. g = [i \in 1 .. Len(u) |-> c.slots[u[i]].order_ref]
    BY <2>3 DEF QueueRefs
  <2> HIDE DEF q, u, f, g
  <2>8. Len(q) \in Nat /\ k \in Nat /\ 1 <= k /\ k <= Len(q)
    BY <1>4
  <2>9. Len(u) = Len(q) - 1
    BY <2>5, <2>8
  <2>10. ASSUME NEW i \in 1 .. Len(q) - 1
         PROVE  c.slots[u[i]].order_ref = IF i < k THEN f[i] ELSE f[i + 1]
    <3>1. CASE i < k
      <4>1. u[i] = q[i] /\ i \in 1 .. Len(q) /\ i # k
        BY <2>5, <2>8, <3>1
      <4>2. q[i] # s
        BY <2>1, <2>2, <4>1 DEF Once
      <4> QED BY <1>5, <2>6, <3>1, <4>1, <4>2
    <3>2. CASE ~(i < k)
      <4>1. u[i] = q[i + 1] /\ i + 1 \in 1 .. Len(q) /\ i + 1 # k
        BY <2>5, <2>8, <3>2
      <4>2. q[i + 1] # s
        BY <2>1, <2>2, <4>1 DEF Once
      <4> QED BY <1>5, <2>6, <3>2, <4>1, <4>2
    <3> QED BY <3>1, <3>2
  <2>11. g = [i \in 1 .. Len(q) - 1 |-> IF i < k THEN f[i] ELSE f[i + 1]]
    BY <2>7, <2>9, <2>10
  <2>12. f \in Seq({f[i] : i \in 1 .. Len(q)}) /\ Len(f) = Len(q)
    BY <2>6, <2>8
  <2>13. g = RemoveAt(f, k) /\ k \in 1 .. Len(f)
    <3>1. k \in 1 .. Len(f)
      BY <2>8, <2>12
    <3> QED BY ONLY <2>11, <2>12, <3>1, RemoveAtIs
  <2> QED BY <1>6, <2>13 DEF f, g
<1>7. CASE ~(l = o.level /\ d = o.side)
  <2>1. c.queue[l][d] = q
    BY <1>1, <1>2, <1>3, <1>7
  <2>2. \A i \in 1 .. Len(q) : q[i] # s
    BY <1>1, <1>7, QueueNode
  <2> QED BY <1>5, <1>7, <2>1, <2>2, SameQueue
<1> QED BY <1>6, <1>7

(* Taking shares from an order moves nothing. *)
LEMMA ReducedQueues ==
  ASSUME NEW b, Sound(b), NEW s \in Slots, b.slots[s] \in Order,
         NEW delta, NEW c, c = Reduced(b, s, delta)
  PROVE  /\ \A l \in Levels, d \in Sides : QueueRefs(c, l, d) = QueueRefs(b, l, d)
         /\ c.slots[s].level = b.slots[s].level
         /\ c.slots[s].side = b.slots[s].side
<1> DEFINE o == b.slots[s]
           n == [o EXCEPT !.shares = @ - delta]
<1>1. /\ b.slots \in [Slots -> Order \cup {NoOrder}]
      /\ b.queue \in [Levels -> [Sides -> Seq(Slots)]]
      /\ c.queue = b.queue /\ c.slots = [b.slots EXCEPT ![s] = n]
  <2>1. o.level \in Levels /\ o.side \in Sides
    BY DEF Order
  <2> QED BY <2>1 DEF Sound, Book, Reduced
<1>2. n.order_ref = o.order_ref /\ n.level = o.level /\ n.side = o.side
  BY DEF Order
<1> HIDE DEF n
<1>3. \A t \in Slots : c.slots[t].order_ref = b.slots[t].order_ref
  BY <1>1, <1>2
<1>4. ASSUME NEW l \in Levels, NEW d \in Sides
      PROVE  QueueRefs(c, l, d) = QueueRefs(b, l, d)
  <2>1. \A i \in 1 .. Len(b.queue[l][d]) : b.queue[l][d][i] \in Slots
    BY <1>1
  <2>2. c.queue[l][d] = b.queue[l][d]
    BY <1>1
  <2> QED BY ONLY <1>3, <2>1, <2>2, SameQueue
<1> QED BY <1>1, <1>2, <1>4

(* remove_order_fully. *)
LEMMA RemoveQueues ==
  ASSUME NEW b, NEW s \in Slots, SoundBut(b, s), b.slots[s] # NoOrder,
         NEW c, c = remove_order_fully(b, s)
  PROVE  Leaves(b, c, b.slots[s].level, b.slots[s].side)
<1> DEFINE o == b.slots[s]
           m == Cleared(b, s)
<1>1. Leaves(b, m, o.level, o.side) /\ m \in Book
  BY ClearedQueues, ClearedSound DEF Sound
<1>2. \/ c = m
      \/ c = [m EXCEPT !.best[o.side] = ScanLevels(m, o.side, 0 .. PriceSpan - 1)]
  BY DEF remove_order_fully, Cleared, recompute_best_after_level_emptied
<1> HIDE DEF m, o
<1>3. \A l, d : QueueRefs(c, l, d) = QueueRefs(m, l, d)
  BY <1>1, <1>2, BestQueues
<1>4. Leaves(b, c, o.level, o.side)
  BY <1>1, <1>3 DEF Leaves
<1> QED BY <1>4 DEF o

(* add_order. *)
LEMMA AddQueues ==
  ASSUME NEW b, BookInv(b), NEW ref \in Refs, NEW price \in Prices,
         NEW shares \in 0 .. ShareSpan - 1, NEW d \in Sides,
         NEW trader \in Traders,
         NEW c, c = add_order(b, ref, price, shares, d, trader).book
  PROVE  c = b \/ Joins(b, c, ref, LevelFor(price), d)
<1>0. Sound(b)
  BY DEF BookInv
<1>1. CASE shares = 0 \/ Live(b, ref) \/ b.free = <<>>
  BY <1>1 DEF add_order, Refused
<1>2. CASE ~(shares = 0 \/ Live(b, ref) \/ b.free = <<>>)
  <2> DEFINE o == NewOrder(ref, price, shares, d, trader)
             j == Joined(b, o)
  <2>1. shares \in 1 .. ShareSpan - 1
    BY <1>2, ShareAssumption
  <2>2. /\ o \in Order /\ o.order_ref = ref /\ o.side = d /\ o.price = price
        /\ o.level = LevelFor(o.price)
        /\ c = update_best_on_add(j, o.price, o.side)
    BY <1>0, <1>2, <2>1, AddIsJoin
  <2>3. Joins(b, j, ref, LevelFor(price), d)
    <3>1. Joins(b, j, o.order_ref, o.level, o.side)
      BY <1>0, <1>2, <2>2, JoinedQueues
    <3> QED BY <2>2, <3>1
  <2>4. j \in Book
    BY <1>0, <1>2, <2>2, JoinedSound DEF Sound
  <2> HIDE DEF o, j
  <2>5. c = j \/ c = [j EXCEPT !.best[o.side] = o.price]
    BY <2>2 DEF update_best_on_add
  <2>6. \A l, e : QueueRefs(c, l, e) = QueueRefs(j, l, e)
    <3>1. CASE c = j
      BY <3>1
    <3>2. CASE c = [j EXCEPT !.best[o.side] = o.price]
      BY ONLY <2>4, <3>2, BestQueues
    <3> QED BY <2>5, <3>1, <3>2
  <2> QED BY <2>3, <2>6 DEF Joins
<1> QED BY <1>1, <1>2

(* reduce_shares: an order that keeps shares keeps its place. *)
LEMMA ReduceQueues ==
  ASSUME NEW b, BookInv(b), NEW ref \in Refs, NEW delta \in Nat,
         NEW c, c = reduce_shares(b, ref, delta).book
  PROVE  \/ \A l \in Levels, d \in Sides : QueueRefs(c, l, d) = QueueRefs(b, l, d)
         \/ \E lv, sd : Leaves(b, c, lv, sd)
<1> DEFINE s == b.index[ref]
           o == b.slots[s]
           m == Reduced(b, s, delta)
<1>0. Sound(b)
  BY DEF BookInv
<1>1. CASE ~(Live(b, ref) /\ delta \in 1 .. OrderOf(b, ref).shares)
  <2>1. c = b
    BY <1>1, ReduceEffect
  <2> QED BY <2>1
<1>2. CASE Live(b, ref) /\ delta \in 1 .. OrderOf(b, ref).shares
  <2>1. s \in Slots /\ o \in Order /\ o = OrderOf(b, ref)
    BY <1>0, <1>2, LiveOrder DEF OrderOf
  <2>2. o.shares \in Nat /\ delta \in 1 .. o.shares
    <3>1. o.shares \in Nat
      BY <2>1, ShareAssumption DEF Order
    <3> QED BY <1>2, <2>1, <3>1
  <2>3. c = IF delta = o.shares THEN remove_order_fully(m, s) ELSE m
    BY <1>2, <2>2, ReduceIsTake
  <2>4. SoundBut(m, s) /\ m.slots[s] # NoOrder
    BY <1>0, <2>1, <2>2, ReducedSound
  <2>5. \A l \in Levels, d \in Sides : QueueRefs(m, l, d) = QueueRefs(b, l, d)
    BY <1>0, <2>1, ReducedQueues
  <2> HIDE DEF s, o, m
  <2>6. CASE delta = o.shares
    <3>1. c = remove_order_fully(m, s)
      BY <2>3, <2>6
    <3>2. Leaves(m, c, m.slots[s].level, m.slots[s].side)
      BY <2>1, <2>4, <3>1, RemoveQueues
    <3>3. Leaves(b, c, m.slots[s].level, m.slots[s].side)
      BY <2>5, <3>2 DEF Leaves
    <3> QED BY <3>3
  <2>7. CASE delta # o.shares
    BY <2>3, <2>5, <2>7
  <2> QED BY <2>6, <2>7
<1> QED BY <1>1, <1>2

(* delete_order, and the first half of replace_order. *)
LEMMA DropQueues ==
  ASSUME NEW b, BookInv(b), NEW ref \in Refs, Live(b, ref),
         NEW c, c = remove_order_fully(b, b.index[ref])
  PROVE  \E lv, sd : Leaves(b, c, lv, sd)
<1> DEFINE s == b.index[ref]
<1>0. Sound(b)
  BY DEF BookInv
<1>1. s \in Slots /\ b.slots[s] # NoOrder
  BY <1>0, LiveOrder
<1>2. SoundBut(b, s)
  BY <1>0, <1>1, SoundIsSoundBut
<1>3. Leaves(b, c, b.slots[s].level, b.slots[s].side)
  BY <1>1, <1>2, RemoveQueues
<1> QED BY <1>3

(* replace_order: one order leaves, then one joins. *)
LEMMA ReplaceQueues ==
  ASSUME NEW b, BookInv(b), NEW old \in Refs, NEW new \in Refs,
         NEW shares \in 0 .. ShareSpan - 1, NEW price \in Prices,
         NEW c, c = replace_order(b, old, new, shares, price).book,
         NEW l \in Levels, NEW d \in Sides
  PROVE  KeepsPlaces(b, c, l, d, TRUE)
<1>1. CASE ~Live(b, old) \/ shares = 0 \/ (old # new /\ Live(b, new))
  <2>1. c = b
    BY <1>1 DEF replace_order, Refused
  <2> QED BY <2>1 DEF KeepsPlaces
<1>2. CASE ~(~Live(b, old) \/ shares = 0 \/ (old # new /\ Live(b, new)))
  <2> DEFINE m == remove_order_fully(b, b.index[old])
             e == OrderOf(b, old).side
  <2>1. BookInv(m)
    BY <1>2, RemoveEffect
  <2>2. c = add_order(m, new, price, shares, e, 0).book
    BY <1>2 DEF replace_order
  <2>3. e \in Sides /\ 0 \in Traders
    BY <1>2, LiveOrder, TraderAssumption DEF Order, OrderOf, BookInv
  <2>4. PICK lv, sd : Leaves(b, m, lv, sd)
    BY <1>2, DropQueues
  <2> HIDE DEF m, e
  <2>5. c = m \/ Joins(m, c, new, LevelFor(price), e)
    BY <2>1, <2>2, <2>3, AddQueues
  <2> DEFINE x == QueueRefs(b, l, d)
             y == QueueRefs(m, l, d)
             z == QueueRefs(c, l, d)
  <2>6. y = x \/ \E k \in 1 .. Len(x) : y = RemoveAt(x, k)
    BY <2>4 DEF Leaves
  <2>7. z = y \/ z = Append(y, new)
    BY <2>5 DEF Joins
  <2> HIDE DEF x, y, z
  <2>8. \/ z = x
        \/ \E r \in Refs : z = Append(x, r)
        \/ \E k \in 1 .. Len(x) :
             \/ z = RemoveAt(x, k)
             \/ \E r \in Refs : z = Append(RemoveAt(x, k), r)
    BY <2>6, <2>7
  <2> QED BY <2>8 DEF KeepsPlaces, x, z
<1> QED BY <1>1, <1>2

(* Every call keeps the order of every queue, and one that reduces an      *)
(* order moves none.                                                       *)
LEMMA CallQueues ==
  ASSUME NEW b, NEW c, BookInv(b), NEW l \in Levels, NEW d \in Sides
  PROVE  /\ Call(b, c) => KeepsPlaces(b, c, l, d, TRUE)
         /\ (\E r \in Refs, n \in ShareInputs : c = reduce_shares(b, r, n).book)
              => KeepsPlaces(b, c, l, d, FALSE)
<1>i. ShareInputs \subseteq 0 .. ShareSpan - 1 /\ ShareInputs \subseteq Nat
  BY ShareInputsAssumption, ShareAssumption
<1>1. ASSUME NEW r \in Refs, NEW p \in Prices, NEW n \in ShareInputs,
             NEW e \in Sides, NEW t \in Traders,
             c = add_order(b, r, p, n, e, t).book
      PROVE  KeepsPlaces(b, c, l, d, TRUE)
  <2>1. c = b \/ Joins(b, c, r, LevelFor(p), e)
    BY <1>i, <1>1, AddQueues
  <2>2. \/ QueueRefs(c, l, d) = QueueRefs(b, l, d)
        \/ QueueRefs(c, l, d) = Append(QueueRefs(b, l, d), r)
    BY <2>1 DEF Joins
  <2> QED BY <2>2 DEF KeepsPlaces
<1>2. ASSUME \/ \A k \in Levels, e \in Sides : QueueRefs(c, k, e) = QueueRefs(b, k, e)
             \/ \E lv, sd : Leaves(b, c, lv, sd)
      PROVE  KeepsPlaces(b, c, l, d, TRUE) /\ KeepsPlaces(b, c, l, d, FALSE)
  <2>1. \/ QueueRefs(c, l, d) = QueueRefs(b, l, d)
        \/ \E k \in 1 .. Len(QueueRefs(b, l, d)) :
             QueueRefs(c, l, d) = RemoveAt(QueueRefs(b, l, d), k)
    BY <1>2 DEF Leaves
  <2> QED BY <2>1 DEF KeepsPlaces
<1>3. ASSUME NEW r \in Refs, NEW n \in ShareInputs,
             c = reduce_shares(b, r, n).book
      PROVE  KeepsPlaces(b, c, l, d, TRUE) /\ KeepsPlaces(b, c, l, d, FALSE)
  BY <1>i, <1>2, <1>3, ReduceQueues
<1>4. ASSUME NEW r \in Refs, c = delete_order(b, r).book
      PROVE  KeepsPlaces(b, c, l, d, TRUE)
  <2>1. CASE ~Live(b, r)
    BY <1>4, <2>1 DEF delete_order, Refused, KeepsPlaces
  <2>2. CASE Live(b, r)
    <3>1. c = remove_order_fully(b, b.index[r])
      BY <1>4, <2>2 DEF delete_order, Accepted
    <3> QED BY <1>2, <2>2, <3>1, DropQueues
  <2> QED BY <2>1, <2>2
<1>5. ASSUME NEW x \in Refs, NEW y \in Refs, NEW n \in ShareInputs,
             NEW p \in Prices, c = replace_order(b, x, y, n, p).book
      PROVE  KeepsPlaces(b, c, l, d, TRUE)
  BY <1>i, <1>5, ReplaceQueues
<1>6. c = b => KeepsPlaces(b, c, l, d, TRUE)
  BY DEF KeepsPlaces
<1> QED BY <1>1, <1>3, <1>4, <1>5, <1>6 DEF Call

(* Time priority, for every pool, window and price range: whatever the     *)
(* call or message, the orders that stay at a level keep their places, a   *)
(* new one joins at the back, and an execution or cancel that leaves       *)
(* shares moves nothing (IntrusiveList::remove, add_order, reduce_shares). *)
THEOREM KeepsTimePriority == Spec => TimePriority
<1>1. ASSUME BookInv(book), [Next]_book, NEW l \in Levels, NEW d \in Sides
      PROVE  KeepsPlaces(book, book', l, d, ~Reduces)
  <2>1. CASE Reduces
    <3>1. \E r \in Refs, n \in ShareInputs : book' = reduce_shares(book, r, n).book
      BY <2>1 DEF Reduces, ExecuteOrder, CancelOrder, execute_order, cancel_order
    <3>2. KeepsPlaces(book, book', l, d, FALSE)
      BY <1>1, <3>1, CallQueues
    <3> QED BY <2>1, <3>2 DEF KeepsPlaces
  <2>2. CASE ~Reduces
    <3>1. KeepsPlaces(book, book', l, d, TRUE)
      BY <1>1, StepIsCall, CallQueues
    <3> QED BY <2>2, <3>1 DEF KeepsPlaces
  <2> QED BY <2>1, <2>2
<1>2. BookInv(book) /\ [Next]_book =>
        [\A l \in Levels, d \in Sides :
           KeepsPlaces(book, book', l, d, ~Reduces)]_book
  BY <1>1
<1> QED BY <1>2, Invariant, PTL DEF Spec, TimePriority
=============================================================================
