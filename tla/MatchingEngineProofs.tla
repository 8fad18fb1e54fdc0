----------------------- MODULE MatchingEngineProofs -------------------------
(***************************************************************************)
(* Theorems about the matching engine, from the lemmas about the           *)
(* operations of the book it works on.                                     *)
(***************************************************************************)
EXTENDS MatchingEngine, OrderBookOpsProofs

-----------------------------------------------------------------------------
(* What the handler has been told. *)

Fills == [resting_ref : Refs, price : Prices, quantity : 1 .. ShareSpan - 1]

Events == [fills : Seq(Fills), rested : 0 .. ShareSpan - 1,
           killed : 0 .. ShareSpan - 1]

(* The shares reported filled. *)
FilledIn(e) == SumFunction([i \in 1 .. Len(e.fills) |-> e.fills[i].quantity])

LEMMA FilledType ==
  ASSUME NEW e \in Events
  PROVE  /\ FilledIn(e) \in Nat
         /\ e.fills = <<>> => FilledIn(e) = 0
<1> DEFINE S == 1 .. Len(e.fills)
           f == [i \in S |-> e.fills[i].quantity]
<1>1. e.fills \in Seq(Fills)
  BY DEF Events
<1>2. \A i \in S : f[i] \in Nat
  <2>1. \A i \in S : e.fills[i] \in Fills
    BY <1>1
  <2>2. \A x \in Fills : x.quantity \in Nat
    BY ShareAssumption DEF Fills
  <2> QED BY <2>1, <2>2
<1>3. IsFiniteSet(S)
  <2>1. Len(e.fills) \in Int
    BY <1>1
  <2> QED BY <2>1, FS_Interval
<1>4. FilledIn(e) = SumFunctionOnSet(f, S)
  BY DEF FilledIn, SumFunction
<1>5. e.fills = <<>> => S = {}
  BY <1>1
<1> HIDE DEF f, S
<1>6. FilledIn(e) \in Nat
  BY <1>2, <1>3, <1>4, SumNat
<1>7. S = {} => FilledIn(e) = 0
  BY <1>4, SumEmpty
<1> QED BY <1>5, <1>6, <1>7

(* Events e and one fill more. *)
FillAdded(more, e, x) ==
  /\ more \in Events
  /\ more.fills = Append(e.fills, x)
  /\ more.rested = e.rested /\ more.killed = e.killed
  /\ FilledIn(more) = FilledIn(e) + x.quantity

LEMMA FillCounts ==
  ASSUME NEW e \in Events, NEW x \in Fills
  PROVE  FillAdded([e EXCEPT !.fills = Append(@, x)], e, x)
<1> DEFINE m == [e EXCEPT !.fills = Append(@, x)]
           n == Len(e.fills)
           S == 1 .. n
           f == [i \in S |-> e.fills[i].quantity]
           g == [i \in 1 .. n + 1 |-> m.fills[i].quantity]
<1>1. e.fills \in Seq(Fills) /\ n \in Nat
  BY DEF Events
<1>2. /\ m \in Events /\ m.fills = Append(e.fills, x)
      /\ m.rested = e.rested /\ m.killed = e.killed
  BY DEF Events
<1>3. /\ Len(m.fills) = n + 1
      /\ m.fills[n + 1] = x
      /\ \A i \in S : m.fills[i] = e.fills[i]
  BY <1>1, <1>2
<1> HIDE DEF m
<1>4. \A i \in S : f[i] \in Int /\ g[i] = f[i]
  <2>1. \A i \in S : e.fills[i] \in Fills /\ i \in 1 .. n + 1
    BY <1>1
  <2>2. \A y \in Fills : y.quantity \in Int
    BY ShareAssumption DEF Fills
  <2> HIDE DEF n
  <2> QED BY <1>3, <2>1, <2>2
<1>5. IsFiniteSet(S) /\ n + 1 \notin S /\ S \cup {n + 1} = 1 .. n + 1
  <2> HIDE DEF n
  <2>1. IsFiniteSet(S)
    BY <1>1, FS_Interval
  <2>2. n + 1 \notin S
    BY <1>1
  <2>3. \A i : i \in S \cup {n + 1} <=> i \in 1 .. n + 1
    BY <1>1
  <2> QED BY <2>1, <2>2, <2>3
<1>6. g[n + 1] = x.quantity /\ x.quantity \in Int
  <2>1. n + 1 \in 1 .. n + 1
    BY <1>1
  <2> QED BY <1>3, <2>1, ShareAssumption DEF Fills
<1>7. /\ FilledIn(e) = SumFunctionOnSet(f, S)
      /\ FilledIn(m) = SumFunctionOnSet(g, 1 .. n + 1)
  BY <1>3 DEF FilledIn, SumFunction
<1> HIDE DEF f, g, S, n
<1>8. SumFunctionOnSet(f, S) = SumFunctionOnSet(g, S)
      /\ SumFunctionOnSet(f, S) \in Int
  BY <1>4, <1>5, SumSame, SumType
<1>9. SumFunctionOnSet(g, S \cup {n + 1}) = g[n + 1] + SumFunctionOnSet(g, S)
  <2>1. \A i \in S \cup {n + 1} : g[i] \in Int
    BY <1>4, <1>6
  <2> QED BY <1>5, <2>1, SumAdd
<1>10. FilledIn(m) = FilledIn(e) + x.quantity
  <2> DEFINE u == SumFunctionOnSet(f, S)
             v == x.quantity
  <2>1. FilledIn(m) = v + u /\ FilledIn(e) = u /\ u \in Int /\ v \in Int
    BY <1>5, <1>6, <1>7, <1>8, <1>9
  <2> HIDE DEF u, v
  <2>2. FilledIn(m) = FilledIn(e) + v
    BY <2>1
  <2> QED BY <2>2 DEF v
<1>11. FillAdded(m, e, x)
  BY <1>2, <1>10 DEF FillAdded
<1> QED BY <1>11 DEF m

-----------------------------------------------------------------------------
(* The resting order that an iteration of the loop picks. *)

(* Slot s holds an order against which incoming order o may trade, at the  *)
(* best opposite price, and the orders ahead of it in its queue may not.   *)
Picked(b, o, s) ==
  LET x == b.slots[s]
      q == QueueAgainst(b, o, x.price)
  IN  /\ s \in Slots /\ x \in Order /\ b.index[x.order_ref] = s
      /\ Live(b, x.order_ref) /\ OrderOf(b, x.order_ref) = x
      /\ x.side = Opposite[o.side]
      /\ x.price = b.best[Opposite[o.side]]
      /\ crosses(o, x.price) /\ eligible(o, x)
      /\ \E k \in 1 .. Len(q) :
           q[k] = s /\ \A i \in 1 .. k - 1 : ~eligible(o, b.slots[q[i]])

LEMMA CandidatePicked ==
  ASSUME NEW b, BookInv(b), NEW o, o.side \in Sides,
         NEW p, p = b.best[Opposite[o.side]],
         p # NoPrice, crosses(o, p), EligibleAt(b, o, p) # {}
  PROVE  Picked(b, o, Candidate(b, o))
<1> DEFINE d == Opposite[o.side]
           l == LevelFor(p)
           q == b.queue[l][d]
           E == EligibleAt(b, o, p)
           k == Min(E)
           s == q[k]
           x == b.slots[s]
<1>0. Sound(b)
  BY DEF BookInv
<1>1. d \in Sides
  BY DEF Sides, Opposite
<1>2. p \in Prices
  BY <1>1 DEF BookInv, BestBacked, Priced
<1>3. l \in Levels
  BY <1>2, LevelForType
<1>4. /\ q \in Seq(Slots) /\ b.slots \in [Slots -> Order \cup {NoOrder}]
  BY <1>0, <1>1, <1>3 DEF Sound, Book
<1>5. /\ E = {i \in 1 .. Len(q) : eligible(o, b.slots[q[i]])}
      /\ q = QueueAgainst(b, o, p) /\ E # {}
  BY DEF EligibleAt, QueueAgainst
<1>6. k \in E /\ \A i \in E : k <= i
  <2> HIDE DEF E, q
  <2>1. E \in SUBSET Nat
    <3>1. \A i \in E : i \in 1 .. Len(q)
      BY <1>5
    <3>2. Len(q) \in Nat
      BY <1>4
    <3>3. \A i \in 1 .. Len(q) : i \in Nat
      BY <3>2
    <3> QED BY <3>1, <3>3
  <2>2. \E y \in E : \A i \in E : y <= i
    BY <1>5, <2>1, LeastNat
  <2> QED BY <2>2 DEF Min
<1>7. k \in 1 .. Len(q) /\ eligible(o, x)
  <2> HIDE DEF q, k, E
  <2> QED BY <1>5, <1>6
<1>8. \A i \in 1 .. k - 1 : ~eligible(o, b.slots[q[i]])
  <2> HIDE DEF q, k, E
  <2>1. Len(q) \in Nat
    BY <1>4
  <2>2. \A i \in 1 .. k - 1 : i \in 1 .. Len(q) /\ ~(k <= i)
    BY <1>7, <2>1
  <2>3. \A i \in 1 .. k - 1 : i \in 1 .. Len(q) /\ i \notin E
    BY <1>6, <2>2
  <2> QED BY ONLY <1>5, <2>3
<1>9. s \in Slots
  <2> HIDE DEF q, k
  <2> QED BY <1>4, <1>7
<1>10. x # NoOrder /\ x.level = l /\ x.side = d
  <2>1. QueuesSound(b)
    BY <1>0 DEF Sound, BookCoherent
  <2>2. k \in 1 .. Len(b.queue[l][d])
    BY ONLY <1>7
  <2> HIDE DEF k, l, d
  <2> QED BY ONLY <1>1, <1>3, <2>1, <2>2, QueueNode
<1> HIDE DEF k
<1>11. x \in Order /\ b.index[x.order_ref] = s /\ x.level = LevelFor(x.price)
  <2> HIDE DEF s
  <2> QED BY <1>0, <1>4, <1>9, <1>10 DEF Sound, BookCoherent, OrdersReachable
<1>12. x.price = p
  <2>1. x.price \in Prices
    BY <1>11 DEF Order
  <2> QED BY <1>2, <1>10, <1>11, <2>1, LevelForInjective
<1>13. Live(b, x.order_ref) /\ OrderOf(b, x.order_ref) = x
  <2> HIDE DEF s
  <2> QED BY <1>9, <1>11 DEF Live, OrderOf, Slots, NoSlot
<1>14. Candidate(b, o) = s
  BY <1>5 DEF Candidate, k
<1>15. Picked(b, o, s)
  <2> HIDE DEF s, q
  <2>1. \E j \in 1 .. Len(q) :
          q[j] = s /\ \A i \in 1 .. j - 1 : ~eligible(o, b.slots[q[i]])
    BY <1>7, <1>8 DEF s
  <2>2. q = QueueAgainst(b, o, x.price)
    BY <1>5, <1>12
  <2> QED BY <1>7, <1>9, <1>10, <1>11, <1>12, <1>13, <2>1, <2>2 DEF Picked
<1> QED BY <1>14, <1>15

(* An iteration finds no candidate only when the opposite side is empty,   *)
(* does not cross or is blocked at its best price.                         *)
LEMMA CandidateFacts ==
  ASSUME NEW b, BookInv(b), NEW o, o.side \in Sides,
         NEW p, p = b.best[Opposite[o.side]]
  PROVE  \/ Candidate(b, o) # NoSlot /\ Picked(b, o, Candidate(b, o))
         \/ /\ Candidate(b, o) = NoSlot
            /\ p = NoPrice \/ ~crosses(o, p) \/ EligibleAt(b, o, p) = {}
<1>1. CASE p = NoPrice \/ ~crosses(o, p) \/ EligibleAt(b, o, p) = {}
  BY <1>1 DEF Candidate
<1>2. CASE ~(p = NoPrice \/ ~crosses(o, p) \/ EligibleAt(b, o, p) = {})
  <2>1. Picked(b, o, Candidate(b, o))
    BY <1>2, CandidatePicked
  <2>2. Candidate(b, o) \in Slots
    BY <2>1 DEF Picked
  <2>3. Candidate(b, o) # NoSlot
    BY <2>2 DEF Slots, NoSlot
  <2> QED BY <2>1, <2>3
<1> QED BY <1>1, <1>2

-----------------------------------------------------------------------------
(* The invariant of the engine. *)

(* Every share is accounted for, during the loop and after it. *)
Accounted(p, o, n, e) ==
  /\ p = "idle" => o = NoIncoming /\ n = 0 /\ e = NoEvents
  /\ p # "idle" => o \in Incoming
  /\ p = "matching" => /\ FilledIn(e) + n = o.quantity
                       /\ e.rested = 0 /\ e.killed = 0
  /\ p = "done" => /\ FilledIn(e) + e.rested + e.killed = o.quantity
                   /\ e.rested > 0 => o.type = "Limit"
                   /\ e.rested = 0 \/ e.killed = 0

EngineInv ==
  /\ BookInv(book)
  /\ pc \in {"idle", "matching", "done"}
  /\ remaining \in 0 .. ShareSpan - 1
  /\ events \in Events
  /\ Accounted(pc, order, remaining, events)

LEMMA IncomingFacts ==
  ASSUME NEW o \in Incoming
  PROVE  /\ o.order_ref \in Refs /\ o.price \in Prices
         /\ o.quantity \in 0 .. ShareSpan - 1 /\ o.quantity \in Nat
         /\ o.side \in Sides /\ o.type \in OrderTypes /\ o.trader_id \in Traders
         /\ o # NoIncoming
<1>1. o \in [order_ref : Refs, price : Prices, quantity : 0 .. ShareSpan - 1,
             side : Sides, type : OrderTypes, trader_id : Traders]
  BY EngineAssumption
<1>2. o.type \in OrderTypes
  BY <1>1
<1>3. o # NoIncoming
  BY <1>2 DEF NoIncoming, OrderTypes
<1> QED BY <1>1, <1>3, ShareAssumption

LEMMA NoEventsFacts ==
  /\ NoEvents \in Events /\ NoEvents.fills = <<>>
  /\ NoEvents.rested = 0 /\ NoEvents.killed = 0
  /\ FilledIn(NoEvents) = 0
<1>1. NoEvents \in Events
  BY ShareAssumption DEF NoEvents, Events
<1>2. NoEvents.fills = <<>> /\ NoEvents.rested = 0 /\ NoEvents.killed = 0
  BY DEF NoEvents
<1> QED BY <1>1, <1>2, FilledType

LEMMA EngineInit == Init => EngineInv
<1>1. 0 \in 0 .. ShareSpan - 1
  BY ShareAssumption
<1> QED BY <1>1, InitInv, NoEventsFacts DEF Init, EngineInv, Accounted

LEMMA SubmitInv ==
  ASSUME EngineInv, NEW o \in Incoming, Submit(o)
  PROVE  EngineInv'
<1>1. /\ pc = "idle" /\ book' = book /\ order' = o /\ remaining' = o.quantity
      /\ events = NoEvents
  BY DEF Submit, EngineInv, Accounted
<1>2. /\ o.quantity \in 0 .. ShareSpan - 1 /\ o.quantity \in Nat
  BY IncomingFacts
<1>3. CASE o.quantity = 0 /\ pc' = "done" /\ events' = events
  BY <1>1, <1>2, <1>3, NoEventsFacts DEF EngineInv, Accounted
<1>4. CASE pc' = "done" /\ events' = [events EXCEPT !.killed = o.quantity]
  <2>1. /\ events' \in Events /\ events'.fills = <<>> /\ events'.rested = 0
        /\ events'.killed = o.quantity
    <3>1. /\ events \in Events /\ events.fills = <<>> /\ events.rested = 0
      BY <1>1, NoEventsFacts
    <3> QED BY <1>2, <1>4, <3>1 DEF Events
  <2>2. FilledIn(events') = 0
    BY <2>1, FilledType
  <2> QED BY <1>1, <1>2, <1>4, <2>1, <2>2 DEF EngineInv, Accounted
<1>5. CASE pc' = "matching" /\ events' = events
  BY <1>1, <1>2, <1>5, NoEventsFacts DEF EngineInv, Accounted
<1> QED BY <1>3, <1>4, <1>5 DEF Submit

(* One fill: what it does to the book and to the events. *)
LEMMA MatchInv ==
  ASSUME EngineInv, pc = "matching", remaining > 0,
         NEW s, Picked(book, order, s), MatchAgainst(s)
  PROVE  EngineInv' /\ (NoWrap(book) /\ BestLeads(book) => BestLeads(book'))
<1> DEFINE o == book.slots[s]
           n == IF remaining < o.shares THEN remaining ELSE o.shares
<1>1. /\ o \in Order /\ Live(book, o.order_ref) /\ OrderOf(book, o.order_ref) = o
  BY DEF Picked
<1>2. /\ o.order_ref \in Refs /\ o.price \in Prices
      /\ o.shares \in 1 .. ShareSpan - 1
  BY <1>1 DEF Order
<1>3. remaining \in 0 .. ShareSpan - 1 /\ remaining \in Int /\ ShareSpan \in Int
  BY ShareAssumption DEF EngineInv
<1>4. /\ book' = reduce_shares(book, o.order_ref, n).book
      /\ remaining' = remaining - n
      /\ events' = [events EXCEPT !.fills = Append(@, Fill(o, n))]
      /\ pc' = pc /\ order' = order
  BY DEF MatchAgainst, execute_order
<1> HIDE DEF o
<1>5. n \in 1 .. o.shares /\ n \in 1 .. ShareSpan - 1 /\ n <= remaining
  <2>1. CASE remaining < o.shares
    BY <1>2, <1>3, <2>1
  <2>2. CASE ~(remaining < o.shares)
    BY <1>2, <1>3, <2>2
  <2> QED BY <2>1, <2>2
<1> HIDE DEF n
<1>6. n \in Nat /\ remaining' \in 0 .. ShareSpan - 1
  BY <1>3, <1>4, <1>5
<1>7. BookInv(book') /\ (NoWrap(book) /\ BestLeads(book) => BestLeads(book'))
  BY <1>2, <1>4, <1>6, ReduceEffect DEF EngineInv
<1>8. Fill(o, n) \in Fills /\ Fill(o, n).quantity = n
  BY <1>2, <1>5 DEF Fill, Fills
<1>9. FillAdded(events', events, Fill(o, n))
  BY <1>4, <1>8, FillCounts DEF EngineInv
<1>10. /\ events' \in Events /\ events'.rested = events.rested
       /\ events'.killed = events.killed
       /\ FilledIn(events') = FilledIn(events) + n
  BY <1>8, <1>9 DEF FillAdded
<1>11. FilledIn(events) \in Nat
  BY FilledType DEF EngineInv
<1>12. FilledIn(events') + remaining' = FilledIn(events) + remaining
  BY <1>3, <1>4, <1>6, <1>10, <1>11
<1>13. Accounted(pc', order', remaining', events')
  BY <1>4, <1>10, <1>12 DEF EngineInv, Accounted
<1> QED BY <1>4, <1>6, <1>7, <1>10, <1>13 DEF EngineInv

(* The end of submit(): what is left rests or is killed. *)
LEMMA FinishInv ==
  ASSUME EngineInv, pc = "matching", Finish
  PROVE  EngineInv' /\ (NoWrap(book) /\ BestLeads(book) => BestLeads(book'))
<1>1. /\ pc' = "done" /\ order' = order /\ remaining' = remaining
      /\ order \in Incoming
      /\ FilledIn(events) + remaining = order.quantity
      /\ events.rested = 0 /\ events.killed = 0 /\ events \in Events
      /\ remaining \in 0 .. ShareSpan - 1
  BY DEF EngineInv, Accounted, Finish
<1>2. FilledIn(events) \in Nat /\ remaining \in Nat
  BY <1>1, FilledType, ShareAssumption
<1>3. CASE remaining = 0 /\ UNCHANGED <<book, events>>
  <2>1. Accounted(pc', order', remaining', events')
    BY <1>1, <1>2, <1>3 DEF Accounted
  <2> QED BY <1>1, <1>3, <2>1 DEF EngineInv
<1>4. CASE /\ remaining > 0 /\ order.type = "Limit"
           /\ book' = add_order(book, order.order_ref, order.price, remaining,
                                order.side, order.trader_id).book
           /\ events' = [events EXCEPT !.rested = remaining]
  <2>1. /\ events' \in Events /\ events'.fills = events.fills
        /\ events'.rested = remaining /\ events'.killed = events.killed
    BY <1>1, <1>4 DEF Events
  <2>2. FilledIn(events') = FilledIn(events)
    BY <2>1 DEF FilledIn
  <2>3. Accounted(pc', order', remaining', events')
    BY <1>1, <1>2, <1>4, <2>1, <2>2 DEF Accounted
  <2>4. BookInv(book') /\ (BestLeads(book) => BestLeads(book'))
    BY <1>1, <1>4, IncomingFacts, AddEffect DEF EngineInv
  <2> QED BY <1>1, <2>1, <2>3, <2>4 DEF EngineInv
<1>5. CASE /\ remaining > 0 /\ order.type # "Limit"
           /\ events' = [events EXCEPT !.killed = remaining]
           /\ UNCHANGED book
  <2>1. /\ events' \in Events /\ events'.fills = events.fills
        /\ events'.rested = events.rested /\ events'.killed = remaining
    BY <1>1, <1>5 DEF Events
  <2>2. FilledIn(events') = FilledIn(events)
    BY <2>1 DEF FilledIn
  <2>3. Accounted(pc', order', remaining', events')
    BY <1>1, <1>2, <1>5, <2>1, <2>2 DEF Accounted
  <2> QED BY <1>1, <1>5, <2>1, <2>3 DEF EngineInv
<1> QED BY <1>3, <1>4, <1>5 DEF Finish, Remainder

(* The other users of the book. *)
BookCalls ==
  \/ \E r \in Refs, n \in Quantities : BookCall(cancel_order(book, r, n).book)
  \/ \E r \in Refs : BookCall(delete_order(book, r).book)
  \/ \E r \in Refs, p \in Prices, n \in Quantities, d \in Sides, t \in Traders :
       MixedFeed /\ BookCall(add_order(book, r, p, n, d, t).book)
  \/ \E old, new \in Refs, n \in Quantities, p \in Prices :
       MixedFeed /\ BookCall(replace_order(book, old, new, n, p).book)

LEMMA BookCallInv ==
  ASSUME EngineInv, BookCalls
  PROVE  EngineInv' /\ (NoWrap(book) /\ BestLeads(book) => BestLeads(book'))
<1>i. Quantities \subseteq 0 .. ShareSpan - 1 /\ Quantities \subseteq Nat
  BY EngineAssumption, ShareAssumption
<1>b. BookInv(book)
  BY DEF EngineInv
<1>1. UNCHANGED <<pc, order, remaining, events>>
  BY DEF BookCalls, BookCall
<1>2. BookInv(book') /\ (NoWrap(book) /\ BestLeads(book) => BestLeads(book'))
  <2>1. ASSUME NEW r \in Refs, NEW n \in Quantities,
               book' = cancel_order(book, r, n).book
        PROVE  BookInv(book') /\ (NoWrap(book) /\ BestLeads(book) => BestLeads(book'))
    BY <1>b, <1>i, <2>1, ReduceEffect DEF cancel_order
  <2>2. ASSUME NEW r \in Refs, book' = delete_order(book, r).book
        PROVE  BookInv(book') /\ (NoWrap(book) /\ BestLeads(book) => BestLeads(book'))
    BY <1>b, <2>2, DeleteEffect
  <2>3. ASSUME NEW r \in Refs, NEW p \in Prices, NEW n \in Quantities,
               NEW d \in Sides, NEW t \in Traders,
               book' = add_order(book, r, p, n, d, t).book
        PROVE  BookInv(book') /\ (NoWrap(book) /\ BestLeads(book) => BestLeads(book'))
    BY <1>b, <1>i, <2>3, AddEffect
  <2>4. ASSUME NEW old \in Refs, NEW new \in Refs, NEW n \in Quantities,
               NEW p \in Prices, book' = replace_order(book, old, new, n, p).book
        PROVE  BookInv(book') /\ (NoWrap(book) /\ BestLeads(book) => BestLeads(book'))
    BY <1>b, <1>i, <2>4, ReplaceEffect
  <2> QED BY <2>1, <2>2, <2>3, <2>4 DEF BookCalls, BookCall
<1> QED BY <1>1, <1>2 DEF EngineInv

LEMMA ReturnInv ==
  ASSUME EngineInv, Return
  PROVE  EngineInv'
<1>1. 0 \in 0 .. ShareSpan - 1
  BY ShareAssumption
<1> QED BY <1>1, NoEventsFacts DEF Return, EngineInv, Accounted

(* An iteration trades with the order that is picked, or ends the loop.    *)
LEMMA IterateSteps ==
  ASSUME EngineInv, Iterate
  PROVE  /\ pc = "matching" /\ order \in Incoming
         /\ \/ /\ remaining > 0
               /\ Picked(book, order, Candidate(book, order))
               /\ MatchAgainst(Candidate(book, order))
            \/ Finish /\ (remaining = 0 \/ Candidate(book, order) = NoSlot)
<1>1. pc = "matching" /\ order \in Incoming /\ BookInv(book)
  BY DEF EngineInv, Iterate, Accounted
<1>2. order.side \in Sides
  BY <1>1, IncomingFacts
<1>3. Candidate(book, order) # NoSlot => Picked(book, order, Candidate(book, order))
  BY <1>1, <1>2, CandidateFacts
<1> QED BY <1>1, <1>3 DEF Iterate

LEMMA EngineStep ==
  ASSUME EngineInv, [Next]_vars
  PROVE  EngineInv' /\ (NoWrap(book) /\ BestLeads(book) => BestLeads(book'))
<1>1. ASSUME NEW o \in Incoming, Submit(o)
      PROVE  EngineInv' /\ (BestLeads(book) => BestLeads(book'))
  <2>1. book' = book
    BY <1>1 DEF Submit
  <2> QED BY <1>1, <2>1, SubmitInv
<1>2. CASE Iterate
  BY <1>2, IterateSteps, MatchInv, FinishInv
<1>3. CASE Return
  <2>1. book' = book
    BY <1>3 DEF Return
  <2> QED BY <1>3, <2>1, ReturnInv
<1>4. CASE BookCalls
  BY <1>4, BookCallInv
<1>5. CASE UNCHANGED vars
  BY <1>5 DEF vars, EngineInv
<1> QED BY <1>1, <1>2, <1>3, <1>4, <1>5 DEF Next, BookCalls

LEMMA EngineInvariant == Spec => []EngineInv
<1>1. EngineInv /\ [Next]_vars => EngineInv'
  BY EngineStep
<1> QED BY <1>1, EngineInit, PTL DEF Spec

(* Whatever is submitted, the book under the engine stays a well-formed    *)
(* one, remaining and the reported counts keep the width of their type,    *)
(* and submit() has an order in hand exactly while it runs (submit,        *)
(* execute_match), for every book and with or without self-trade           *)
(* prevention, direct book calls and reuse of live references.             *)
THEOREM EngineTypeCorrect == Spec => []TypeOK
<1>1. EngineInv => TypeOK
  <2> SUFFICES ASSUME EngineInv PROVE TypeOK
    OBVIOUS
  <2>1. events.rested \in 0 .. ShareSpan - 1 /\ events.killed \in 0 .. ShareSpan - 1
    BY DEF EngineInv, Events
  <2>2. book \in Book /\ BookCoherent(book)
    BY DEF EngineInv, BookInv, Sound
  <2>3. order \in Incoming => order # NoIncoming
    BY IncomingFacts
  <2> QED BY <2>1, <2>2, <2>3 DEF EngineInv, Accounted, TypeOK
<1> QED BY <1>1, EngineInvariant, PTL

(* Every share of every incoming order is reported exactly once, as        *)
(* filled, rested or killed, however many fills it takes and whatever else *)
(* uses the book between submits; only a Limit order is reported rested,   *)
(* and no order is both rested and killed (submit, execute_match).         *)
THEOREM EngineConserves == Spec => []Conservation
<1>1. EngineInv => Conservation
  BY DEF EngineInv, Accounted, Conservation, Filled, FilledIn
<1> QED BY <1>1, EngineInvariant, PTL

-----------------------------------------------------------------------------
(* Fills. *)

(* A fill is reported by an iteration, for the order that it picked. *)
FillOf(s) ==
  LET o == book.slots[s]
  IN  /\ order \in Incoming /\ remaining > 0 /\ remaining \in Nat
      /\ Picked(book, order, s)
      /\ NewFill = Fill(o, IF remaining < o.shares THEN remaining ELSE o.shares)

LEMMA FillStep ==
  ASSUME EngineInv, [Next]_vars, NewFillReported
  PROVE  \E s : FillOf(s)
<1>1. events \in Events /\ events.fills \in Seq(Fills)
  BY DEF EngineInv, Events
<1>2. events'.fills # events.fills /\ events' # NoEvents
  BY <1>1, NoEventsFacts DEF NewFillReported
<1>3. ASSUME NEW x, events' = [events EXCEPT !.killed = x]
                    \/ events' = [events EXCEPT !.rested = x]
      PROVE  FALSE
  BY <1>1, <1>2, <1>3 DEF Events
<1>4. ASSUME NEW o \in Incoming, Submit(o)
      PROVE  FALSE
  BY <1>2, <1>3, <1>4 DEF Submit
<1>5. ASSUME Finish
      PROVE  FALSE
  BY <1>2, <1>3, <1>5 DEF Finish, Remainder
<1>6. Iterate
  BY <1>2, <1>4 DEF Next, Return, BookCall, vars
<1> DEFINE s == Candidate(book, order)
           o == book.slots[s]
           n == IF remaining < o.shares THEN remaining ELSE o.shares
<1>7. /\ order \in Incoming /\ remaining > 0 /\ Picked(book, order, s)
      /\ MatchAgainst(s)
  BY <1>5, <1>6, IterateSteps
<1>8. events' = [events EXCEPT !.fills = Append(@, Fill(o, n))]
  BY <1>7 DEF MatchAgainst
<1> HIDE DEF s, o, n
<1>9. events'.fills = Append(events.fills, Fill(o, n))
  BY <1>1, <1>8 DEF Events
<1>10. NewFill = Fill(o, n)
  BY <1>1, <1>9 DEF NewFill
<1>11. remaining \in Nat
  BY ShareAssumption DEF EngineInv
<1> QED BY <1>7, <1>10, <1>11 DEF FillOf, o, n

(* With self-trade prevention on, no fill ever joins two orders of one     *)
(* trader, whatever the orders in between and however the book is fed      *)
(* (execute_match).                                                        *)
THEOREM EngineNoSelfTrade == ASSUME PreventSelfTrade PROVE Spec => NoSelfTrade
<1>1. ASSUME EngineInv, [Next]_vars, NewFillReported
      PROVE  \/ order.trader_id = 0
             \/ OrderOf(book, NewFill.resting_ref).trader_id # order.trader_id
  <2>1. PICK s : FillOf(s)
    BY <1>1, FillStep
  <2> DEFINE o == book.slots[s]
  <2>2. /\ NewFill.resting_ref = o.order_ref
        /\ OrderOf(book, o.order_ref) = o /\ eligible(order, o)
    BY <2>1 DEF FillOf, Picked, Fill
  <2> QED BY <2>2 DEF eligible
<1>2. EngineInv /\ [Next]_vars
        => [NewFillReported =>
              \/ order.trader_id = 0
              \/ OrderOf(book, NewFill.resting_ref).trader_id
                   # order.trader_id]_vars
  BY <1>1
<1> QED BY <1>2, EngineInvariant, PTL DEF Spec, NoSelfTrade

(* While no counter wraps, the cached best prices lead their sides. *)
LEMMA EngineBestLeads == Spec /\ []NoWrap(book) => []BestLeads(book)
<1>1. Init => BestLeads(book)
  BY InitInv DEF Init
<1>2. EngineInv /\ NoWrap(book) /\ BestLeads(book) /\ [Next]_vars => BestLeads(book)'
  BY EngineStep
<1> QED BY <1>1, <1>2, EngineInvariant, PTL DEF Spec

(* The orders that may be traded with are at prices of the opposite side.  *)
LEMMA OpposingPriced ==
  ASSUME NEW b, Sound(b), NEW o, NEW u \in Opposing(b, o)
  PROVE  /\ u \in Refs /\ Live(b, u)
         /\ OrderOf(b, u).side = Opposite[o.side]
         /\ OrderOf(b, u).price \in Priced(b, Opposite[o.side])
<1>1. u \in Refs /\ Live(b, u) /\ OrderOf(b, u).side = Opposite[o.side]
  BY DEF Opposing
<1>2. OrderOf(b, u).price \in Prices
  BY <1>1, OrderLevel
<1> QED BY <1>1, <1>2 DEF Priced

(* An order has one place in its queue. *)
LEMMA QueuePlace ==
  ASSUME NEW b, Sound(b), NEW p \in Prices, NEW d \in Sides,
         NEW q, q = b.queue[LevelFor(p)][d]
  PROVE  \A i, j \in 1 .. Len(q) : q[i] = q[j] => i = j
<1>1. LevelFor(p) \in Levels
  BY LevelForType
<1> QED BY <1>1 DEF Sound, BookCoherent, QueuesSound

(* In every execution in which no level's counter wraps, each fill is with *)
(* the oldest order at the best opposite price that self-trade prevention  *)
(* allows, within the incoming order's limit, at the resting order's       *)
(* price, and for as much as both orders have (execute_match).             *)
THEOREM EnginePriority == Spec /\ []NoWrap(book) => PriceTimePriority
<1> DEFINE r == NewFill.resting_ref
           o == OrderOf(book, r)
           q == QueueAgainst(book, order, o.price)
           k == CHOOSE k \in 1 .. Len(q) : q[k] = book.index[r]
           P == /\ r \in Opposing(book, order)
                /\ NewFill.price = o.price
                /\ order.type = "Market" \/ ~Better(order.side, o.price, order.price)
                /\ \A u \in Opposing(book, order) :
                     ~Better(o.side, OrderOf(book, u).price, o.price)
                /\ \A i \in 1 .. k - 1 :
                     /\ PreventSelfTrade
                     /\ book.slots[q[i]].trader_id = order.trader_id
                /\ NewFill.quantity = Min({remaining, o.shares})
<1>1. ASSUME EngineInv, BestLeads(book), [Next]_vars, NewFillReported
      PROVE  P
  <2>0. Sound(book)
    BY <1>1 DEF EngineInv, BookInv
  <2>1. PICK s : FillOf(s)
    BY <1>1, FillStep
  <2> DEFINE x == book.slots[s]
             n == IF remaining < x.shares THEN remaining ELSE x.shares
             d == Opposite[order.side]
  <2>2. /\ order \in Incoming /\ remaining \in Nat /\ Picked(book, order, s)
        /\ NewFill = Fill(x, n)
    BY <2>1 DEF FillOf
  <2>3. r = x.order_ref /\ NewFill.price = x.price /\ NewFill.quantity = n
    BY <2>2 DEF Fill
  <2>4. /\ x \in Order /\ Live(book, r) /\ o = x /\ book.index[r] = s
        /\ x.side = d /\ x.price = book.best[d]
        /\ crosses(order, x.price)
    BY <2>2, <2>3 DEF Picked
  <2>5. r \in Refs /\ x.price \in Prices /\ x.shares \in 1 .. ShareSpan - 1
    BY <2>3, <2>4 DEF Order
  <2>6. d \in Sides
    BY <2>2, IncomingFacts DEF Sides, Opposite
  <2>7. r \in Opposing(book, order)
    BY <2>4, <2>5 DEF Opposing
  <2>8. ASSUME NEW u \in Opposing(book, order)
        PROVE  ~Better(o.side, OrderOf(book, u).price, o.price)
    <3>1. OrderOf(book, u).price \in Priced(book, d)
      BY <2>0, <2>8, OpposingPriced
    <3> QED BY <1>1, <2>4, <2>6, <3>1 DEF BestLeads
  <2>9. ASSUME NEW i \in 1 .. k - 1
        PROVE  PreventSelfTrade /\ book.slots[q[i]].trader_id = order.trader_id
    <3>1. PICK j \in 1 .. Len(q) :
            q[j] = s /\ \A h \in 1 .. j - 1 : ~eligible(order, book.slots[q[h]])
      BY <2>2, <2>4 DEF Picked
    <3>2. q = book.queue[LevelFor(x.price)][d]
      BY <2>4 DEF QueueAgainst
    <3>3. k = j
      <4>1. \A g, h \in 1 .. Len(q) : q[g] = q[h] => g = h
        <5> HIDE DEF q, x, d
        <5> QED BY <2>0, <2>5, <2>6, <3>2, QueuePlace
      <4>2. k \in 1 .. Len(q) /\ q[k] = s
        <5> HIDE DEF q, x, r
        <5> QED BY <2>4, <3>1
      <4> HIDE DEF q, x, k
      <4> QED BY <3>1, <4>1, <4>2
    <3>4. ~eligible(order, book.slots[q[i]])
      BY <3>1, <3>3
    <3> QED BY <3>4 DEF eligible
  <2>10. n = Min({remaining, x.shares})
    <3> DEFINE a == remaining
               b == x.shares
               m == Min({a, b})
    <3>1. a \in Int /\ b \in Int
      BY <2>2, <2>5, ShareAssumption
    <3>2. m = CHOOSE y \in {a, b} : \A z \in {a, b} : y <= z
      BY DEF Min
    <3> HIDE DEF a, b, m
    <3>3. \E y \in {a, b} : \A z \in {a, b} : y <= z
      BY <3>1
    <3>4. m \in {a, b} /\ m <= a /\ m <= b
      BY <3>2, <3>3
    <3>5. m = IF a < b THEN a ELSE b
      BY <3>1, <3>4
    <3> QED BY <3>5 DEF a, b, m
  <2>11. order.type = "Market" \/ ~Better(order.side, o.price, order.price)
    BY <2>4 DEF crosses
  <2> QED BY <2>3, <2>4, <2>7, <2>8, <2>9, <2>10, <2>11
<1>2. EngineInv /\ BestLeads(book) /\ [Next]_vars => [NewFillReported => P]_vars
  BY <1>1
<1>3. Spec /\ []NoWrap(book) => [][NewFillReported => P]_vars
  BY <1>2, EngineBestLeads, EngineInvariant, PTL DEF Spec
<1> QED BY <1>3, PTL DEF PriceTimePriority

-----------------------------------------------------------------------------
(* What the loop leaves behind. *)

LEMMA PricesAreIntegers == \A p \in Prices : p \in Int
BY PriceAssumption

(* A loop that ends with shares left while an opposing order still crosses *)
(* has met a best price that crosses and at which every order is blocked.  *)
LEMMA LoopEnds ==
  ASSUME NEW b, BookInv(b), BestLeads(b), NEW o \in Incoming,
         Candidate(b, o) = NoSlot, NEW u \in Opposing(b, o),
         crosses(o, OrderOf(b, u).price), NEW p, p = b.best[Opposite[o.side]]
  PROVE  /\ p \in Priced(b, Opposite[o.side])
         /\ ~Better(Opposite[o.side], OrderOf(b, u).price, p)
         /\ EligibleAt(b, o, p) = {}
<1> DEFINE d == Opposite[o.side]
           v == OrderOf(b, u).price
<1>0. Sound(b)
  BY DEF BookInv
<1>1. o.side \in Sides /\ d \in Sides /\ o.price \in Prices
  BY IncomingFacts DEF Sides, Opposite
<1>2. v \in Priced(b, d)
  BY <1>0, OpposingPriced
<1>3. p # NoPrice /\ ~Better(d, v, p)
  BY <1>1, <1>2 DEF BestLeads
<1>4. p \in Priced(b, d)
  BY <1>1, <1>3 DEF BookInv, BestBacked
<1>5. p \in Int /\ v \in Int /\ o.price \in Int
  BY <1>1, <1>2, <1>4, PriceAssumption DEF Priced
<1>6. crosses(o, p)
  <2>1. CASE o.type = "Market"
    BY <2>1 DEF crosses
  <2>2. CASE o.type # "Market"
    <3>1. ~Better(o.side, v, o.price)
      BY <2>2 DEF crosses
    <3>2. CASE o.side = "buy"
      <4>1. d = "sell"
        BY <3>2 DEF Opposite
      <4> HIDE DEF d, v
      <4>2. ~(v > o.price) /\ ~(v < p)
        BY <1>3, <3>1, <3>2, <4>1 DEF Better
      <4>3. ~(p > o.price)
        BY <1>5, <4>2
      <4> QED BY <3>2, <4>3 DEF crosses, Better
    <3>3. CASE o.side = "sell"
      <4>1. d = "buy"
        BY <3>3 DEF Opposite
      <4> HIDE DEF d, v
      <4>2. ~(v < o.price) /\ ~(v > p)
        BY <1>3, <3>1, <3>3, <4>1 DEF Better
      <4>3. ~(p < o.price)
        BY <1>5, <4>2
      <4> QED BY <3>3, <4>3 DEF crosses, Better
    <3> QED BY <1>1, <3>2, <3>3 DEF Sides
  <2> QED BY <2>1, <2>2
<1>7. EligibleAt(b, o, p) = {}
  BY <1>1, <1>3, <1>6, CandidateFacts
<1> QED BY <1>3, <1>4, <1>7

(* The opposing orders of the best rank that cross are of the same trader. *)
Blocked(b, o) ==
  \A r \in Opposing(b, o) :
    /\ crosses(o, OrderOf(b, r).price)
    /\ \A u \in Opposing(b, o) :
         ~Better(Opposite[o.side], OrderOf(b, u).price, OrderOf(b, r).price)
    => /\ PreventSelfTrade /\ o.trader_id # 0
       /\ OrderOf(b, r).trader_id = o.trader_id

LEMMA LoopBlocked ==
  ASSUME NEW b, BookInv(b), BestLeads(b), NEW o \in Incoming,
         Candidate(b, o) = NoSlot
  PROVE  Blocked(b, o)
<1> SUFFICES ASSUME NEW r \in Opposing(b, o), crosses(o, OrderOf(b, r).price),
                    \A u \in Opposing(b, o) :
                      ~Better(Opposite[o.side], OrderOf(b, u).price,
                              OrderOf(b, r).price)
             PROVE  /\ PreventSelfTrade /\ o.trader_id # 0
                    /\ OrderOf(b, r).trader_id = o.trader_id
  BY DEF Blocked
<1> DEFINE d == Opposite[o.side]
           p == b.best[d]
           x == OrderOf(b, r)
           q == QueueAgainst(b, o, p)
<1>0. Sound(b) /\ d \in Sides
  BY IncomingFacts DEF BookInv, Sides, Opposite
<1>1. /\ p \in Priced(b, d) /\ ~Better(d, x.price, p) /\ EligibleAt(b, o, p) = {}
  BY LoopEnds
<1>2. /\ r \in Refs /\ Live(b, r) /\ x.side = d /\ x.price \in Prices
      /\ x.level = LevelFor(x.price)
  BY <1>0, OrderLevel DEF Opposing
<1>3. x.price = p
  <2>1. PICK u \in Refs : Live(b, u) /\ OrderOf(b, u).price = p
                          /\ OrderOf(b, u).side = d
    BY <1>1 DEF Priced
  <2>2. u \in Opposing(b, o)
    BY <2>1 DEF Opposing
  <2>3. ~Better(d, p, x.price)
    BY <2>1, <2>2
  <2> HIDE DEF p, x
  <2>4. p \in Int /\ x.price \in Int
    <3>1. p \in Prices
      BY <1>1 DEF Priced
    <3> QED BY <1>2, <3>1, PricesAreIntegers
  <2> QED BY <1>1, <2>3, <2>4 DEF Better
<1>4. b.index[r] \in Slots /\ b.slots[b.index[r]] # NoOrder
  BY <1>0, <1>2, LiveOrder
<1>5. \E i \in 1 .. Len(q) : q[i] = b.index[r]
  <2>1. \E i \in 1 .. Len(b.queue[x.level][x.side]) :
          b.queue[x.level][x.side][i] = b.index[r]
    BY <1>0, <1>4 DEF Sound, BookCoherent, OrdersReachable, OrderOf
  <2> QED BY <1>2, <1>3, <2>1 DEF QueueAgainst
<1>6. ~eligible(o, x)
  BY <1>1, <1>5 DEF EligibleAt, OrderOf
<1> QED BY <1>6 DEF eligible

(* An order more on the incoming order's own side changes nothing there.   *)
LEMMA BlockedKeeps ==
  ASSUME NEW b, NEW c, NEW o \in Incoming, Blocked(b, o), NEW ref, NEW x,
         Extends(Orders(c), Orders(b), ref, x), x.side = o.side
  PROVE  Blocked(c, o)
<1>1. /\ DOMAIN Orders(b) = {r \in Refs : Live(b, r)}
      /\ DOMAIN Orders(c) = {r \in Refs : Live(c, r)}
      /\ \A r \in DOMAIN Orders(b) : Orders(b)[r] = OrderOf(b, r)
      /\ \A r \in DOMAIN Orders(c) : Orders(c)[r] = OrderOf(c, r)
  BY DEF Orders
<1>2. o.side # Opposite[o.side]
  BY IncomingFacts DEF Sides, Opposite
<1>3. \A r \in Opposing(c, o) : r \in Opposing(b, o) /\ OrderOf(c, r) = OrderOf(b, r)
  BY <1>1, <1>2 DEF Extends, Opposing
<1>4. \A r \in Opposing(b, o) : r \in Opposing(c, o)
  BY <1>1 DEF Extends, Opposing
<1> QED BY <1>3, <1>4 DEF Blocked

(* In every execution in which no level's counter wraps, a Limit order     *)
(* rests beside an opposite order that crosses it only where self-trade    *)
(* prevention blocks every order at the best opposite price                *)
(* (execute_match).                                                        *)
THEOREM EngineStops == Spec /\ []NoWrap(book) => []RestsOnlyWhenBlocked
<1> DEFINE S == RestsOnlyWhenBlocked
<1>0. S <=> (pc = "done" /\ order.type = "Limit" /\ events.rested > 0
               => Blocked(book, order))
  BY DEF RestsOnlyWhenBlocked, Blocked
<1>1. Init => S
  BY DEF Init, RestsOnlyWhenBlocked
<1>2. ASSUME EngineInv, BestLeads(book), S, [Next]_vars
      PROVE  S'
  <2>0. /\ EngineInv'
    BY <1>2, EngineStep
  <2>1. ASSUME NEW o \in Incoming, Submit(o)
        PROVE  S'
    <3>1. events = NoEvents /\ order' = o
      BY <1>2, <2>1 DEF EngineInv, Accounted, Submit
    <3>2. \/ events' = events \/ o.type = "FOK" \/ pc' # "done"
      BY <2>1 DEF Submit
    <3> QED BY <3>1, <3>2, NoEventsFacts DEF RestsOnlyWhenBlocked
  <2>2. ASSUME Iterate
        PROVE  S'
    <3>1. CASE MatchAgainst(Candidate(book, order)) /\ pc = "matching"
      BY <3>1 DEF MatchAgainst, RestsOnlyWhenBlocked
    <3>2. CASE Finish /\ remaining = 0 /\ pc = "matching"
      <4>1. events' = events /\ events.rested = 0 /\ events.killed = 0
        BY <1>2, <3>2 DEF Finish, Remainder, EngineInv, Accounted
      <4> QED BY <4>1 DEF RestsOnlyWhenBlocked
    <3>3. CASE Finish /\ Candidate(book, order) = NoSlot /\ order \in Incoming
               /\ remaining # 0
      <4>1. Blocked(book, order)
        BY <1>2, <3>3, LoopBlocked DEF EngineInv
      <4>2. Blocked(book', order)
        <5>1. CASE book' = book
          BY <4>1, <5>1
        <5>2. CASE book' = add_order(book, order.order_ref, order.price, remaining,
                                     order.side, order.trader_id).book
          <6> DEFINE x == NewOrder(order.order_ref, order.price, remaining,
                                   order.side, order.trader_id)
          <6>1. \/ book' = book
                \/ Extends(Orders(book'), Orders(book), order.order_ref, x)
            BY <1>2, <3>3, <5>2, IncomingFacts, AddEffect DEF EngineInv
          <6>2. x.side = order.side
            BY DEF NewOrder
          <6> HIDE DEF x
          <6> QED BY <3>3, <4>1, <6>1, <6>2, BlockedKeeps
        <5> QED BY <3>3, <5>1, <5>2 DEF Finish, Remainder
      <4>3. order' = order
        BY <3>3 DEF Finish
      <4> QED BY <4>2, <4>3 DEF RestsOnlyWhenBlocked, Blocked
    <3> QED BY <1>2, <2>2, <3>1, <3>2, <3>3, IterateSteps
  <2>3. CASE Return \/ BookCalls
    BY <2>3 DEF Return, BookCalls, BookCall, RestsOnlyWhenBlocked
  <2>4. CASE UNCHANGED vars
    BY <1>0, <1>2, <2>4 DEF vars, RestsOnlyWhenBlocked, Opposing
  <2> QED BY <1>2, <2>1, <2>2, <2>3, <2>4 DEF Next, BookCalls
<1>3. EngineInv /\ BestLeads(book) /\ S /\ [Next]_vars => S'
  BY <1>2
<1> QED BY <1>1, <1>3, EngineInvariant, EngineBestLeads, PTL DEF Spec

-----------------------------------------------------------------------------
(* Crossed books. *)

(* Every bid is below every ask. *)
Uncrossed(os) ==
  \A r, u \in DOMAIN os :
    os[r].side = "buy" /\ os[u].side = "sell" => os[r].price < os[u].price

LEMMA UncrossedLess ==
  ASSUME NEW os, NEW less, NEW r, NEW o, Extends(os, less, r, o), Uncrossed(os)
  PROVE  Uncrossed(less)
BY DEF Extends, Uncrossed

LEMMA UncrossedChanges ==
  ASSUME NEW os, NEW more, NEW r, NEW o, Changes(more, os, r, o), Uncrossed(os),
         o.side = os[r].side, o.price = os[r].price
  PROVE  Uncrossed(more)
BY DEF Changes, Uncrossed

(* An order may join that is worse than every order of the other side. *)
LEMMA UncrossedMore ==
  ASSUME NEW os, NEW more, NEW r, NEW o, Extends(more, os, r, o), Uncrossed(os),
         \A u \in DOMAIN os : o.side # os[u].side =>
           Better(o.side, os[u].price, o.price)
           /\ os[u].price \in Int /\ o.price \in Int
  PROVE  Uncrossed(more)
<1> SUFFICES ASSUME NEW x \in DOMAIN more, NEW y \in DOMAIN more,
                    more[x].side = "buy", more[y].side = "sell"
             PROVE  more[x].price < more[y].price
  BY DEF Uncrossed
<1>1. /\ DOMAIN more = DOMAIN os \cup {r} /\ more[r] = o
      /\ \A u \in DOMAIN os : more[u] = os[u]
  BY DEF Extends
<1>2. CASE x \in DOMAIN os /\ y \in DOMAIN os
  BY <1>1, <1>2 DEF Uncrossed
<1>3. CASE x = r /\ y \in DOMAIN os
  <2>1. Better("buy", os[y].price, o.price) /\ os[y].price \in Int /\ o.price \in Int
    BY <1>1, <1>3
  <2> QED BY <1>1, <1>3, <2>1 DEF Better
<1>4. CASE y = r /\ x \in DOMAIN os
  <2>1. Better("sell", os[x].price, o.price)
    BY <1>1, <1>4
  <2> QED BY <1>1, <1>4, <2>1 DEF Better
<1> QED BY <1>1, <1>2, <1>3, <1>4

(* Executions, cancels and deletes cross nothing. *)
LEMMA UncrossedReduce ==
  ASSUME NEW b, BookInv(b), Uncrossed(Orders(b)), NEW r \in Refs, NEW n \in Nat,
         NEW c, c = reduce_shares(b, r, n).book \/ c = delete_order(b, r).book
  PROVE  Uncrossed(Orders(c))
<1> DEFINE o == OrderOf(b, r)
           m == [o EXCEPT !.shares = o.shares - n]
<1>0. Sound(b)
  BY DEF BookInv
<1>1. CASE c = delete_order(b, r).book
  <2>1. c = b \/ Extends(Orders(b), Orders(c), r, o)
    BY <1>1, DeleteEffect
  <2> QED BY <2>1, UncrossedLess
<1>2. CASE c = reduce_shares(b, r, n).book
  <2>1. \/ c = b
        \/ Extends(Orders(b), Orders(c), r, o)
        \/ Live(b, r) /\ Changes(Orders(c), Orders(b), r, m)
    BY <1>2, ReduceEffect
  <2>2. ASSUME Live(b, r), Changes(Orders(c), Orders(b), r, m)
        PROVE  Uncrossed(Orders(c))
    <3>1. Orders(b)[r] = o /\ o \in Order
      BY <1>0, <2>2, OrderLevel
    <3>2. m.side = o.side /\ m.price = o.price
      BY <3>1 DEF Order
    <3> HIDE DEF m, o
    <3> QED BY <2>2, <3>1, <3>2, UncrossedChanges
  <2> QED BY <2>1, <2>2, UncrossedLess
<1> QED BY <1>1, <1>2

(* A loop of an order that self-trade prevention does not concern, ending  *)
(* with shares left, leaves nothing that crosses.                          *)
LEMMA LoopEmpties ==
  ASSUME NEW b, BookInv(b), BestLeads(b), NEW o \in Incoming,
         Candidate(b, o) = NoSlot, ~PreventSelfTrade \/ o.trader_id = 0,
         NEW u \in Opposing(b, o)
  PROVE  ~crosses(o, OrderOf(b, u).price)
<1> SUFFICES ASSUME crosses(o, OrderOf(b, u).price) PROVE FALSE
  OBVIOUS
<1> DEFINE d == Opposite[o.side]
           p == b.best[d]
           q == b.queue[LevelFor(p)][d]
<1>1. p \in Priced(b, d) /\ EligibleAt(b, o, p) = {}
  BY LoopEnds
<1>2. Sound(b) /\ d \in Sides /\ p \in Prices
  BY <1>1, IncomingFacts DEF BookInv, Sides, Opposite, Priced
<1>3. q # <<>>
  <2> HIDE DEF p, d
  <2> QED BY <1>1, <1>2, QueuePriced
<1>4. q \in Seq(Slots)
  BY <1>2, LevelForType DEF Sound, Book
<1>5. 1 \in 1 .. Len(q)
  <2> HIDE DEF q
  <2> QED BY <1>3, <1>4
<1>6. 1 \in EligibleAt(b, o, p)
  BY <1>5 DEF EligibleAt, QueueAgainst, eligible
<1> QED BY <1>1, <1>6

(* In every execution in which no level's counter wraps, and in which      *)
(* self-trade prevention is off or no order comes with a trader, a Market  *)
(* or IOC remainder is discarded only when nothing that crosses the order  *)
(* is left in the book (submit, execute_match).                            *)
THEOREM EngineKills ==
  ASSUME ~PreventSelfTrade \/ \A o \in Incoming : o.trader_id = 0
  PROVE  Spec /\ []NoWrap(book) => []KillsOnlyWhenExhausted
<1> DEFINE K == KillsOnlyWhenExhausted
<1>1. Init => K
  BY DEF Init, KillsOnlyWhenExhausted
<1>2. ASSUME EngineInv, BestLeads(book), K, [Next]_vars
      PROVE  K'
  <2>1. ASSUME NEW o \in Incoming, Submit(o)
        PROVE  K'
    <3>1. events = NoEvents /\ order' = o
      BY <1>2, <2>1 DEF EngineInv, Accounted, Submit
    <3>2. \/ events' = events \/ o.type = "FOK" \/ pc' # "done"
      BY <2>1 DEF Submit
    <3> QED BY <3>1, <3>2, NoEventsFacts DEF KillsOnlyWhenExhausted
  <2>2. ASSUME Iterate
        PROVE  K'
    <3>1. CASE MatchAgainst(Candidate(book, order)) /\ pc = "matching"
      BY <3>1 DEF MatchAgainst, KillsOnlyWhenExhausted
    <3>2. CASE Finish /\ remaining = 0 /\ pc = "matching"
      <4>1. events' = events /\ events.killed = 0
        BY <1>2, <3>2 DEF Finish, Remainder, EngineInv, Accounted
      <4> QED BY <4>1 DEF KillsOnlyWhenExhausted
    <3>3. CASE Finish /\ Candidate(book, order) = NoSlot /\ order \in Incoming
               /\ remaining # 0
      <4>1. order' = order /\ (order.type # "Limit" => book' = book)
        BY <3>3 DEF Finish, Remainder
      <4>2. ASSUME order.type \in {"Market", "IOC"}, NEW r \in Opposing(book, order)
            PROVE  /\ order.type = "IOC"
                   /\ Better(order.side, OrderOf(book, r).price, order.price)
        <5>1. ~crosses(order, OrderOf(book, r).price)
          BY <1>2, <3>3, <4>2, LoopEmpties DEF EngineInv
        <5> QED BY <4>2, <5>1 DEF crosses
      <4> QED BY <4>1, <4>2 DEF KillsOnlyWhenExhausted, Opposing
    <3> QED BY <1>2, <2>2, <3>1, <3>2, <3>3, IterateSteps
  <2>3. CASE Return \/ BookCalls
    BY <2>3 DEF Return, BookCalls, BookCall, KillsOnlyWhenExhausted
  <2>4. CASE UNCHANGED vars
    BY <1>2, <2>4 DEF vars, KillsOnlyWhenExhausted, Opposing
  <2> QED BY <1>2, <2>1, <2>2, <2>3, <2>4 DEF Next, BookCalls
<1>3. EngineInv /\ BestLeads(book) /\ K /\ [Next]_vars => K'
  BY <1>2
<1> QED BY <1>1, <1>3, EngineInvariant, EngineBestLeads, PTL DEF Spec

(* In every execution in which no level's counter wraps, an engine without *)
(* self-trade prevention that alone adds orders to the book keeps every    *)
(* bid below every ask: a Limit order rests only when nothing that crosses *)
(* it is left (submit, execute_match).                                     *)
THEOREM EngineNotCrossed ==
  ASSUME ~PreventSelfTrade, ~MixedFeed
  PROVE  Spec /\ []NoWrap(book) => []NotCrossed
<1> DEFINE U == Uncrossed(Orders(book))
<1>1. Init => U
  BY InitInv DEF Init, Uncrossed
<1>2. ASSUME EngineInv, BestLeads(book), U, [Next]_vars
      PROVE  Uncrossed(Orders(book'))
  <2>0. BookInv(book) /\ Sound(book)
    BY <1>2 DEF EngineInv, BookInv
  <2>1. CASE book' = book
    BY <1>2, <2>1
  <2>2. ASSUME NEW s, MatchAgainst(s), Picked(book, order, s), remaining > 0
        PROVE  Uncrossed(Orders(book'))
    <3> DEFINE o == book.slots[s]
               n == IF remaining < o.shares THEN remaining ELSE o.shares
    <3>1. book' = reduce_shares(book, o.order_ref, n).book
      BY <2>2 DEF MatchAgainst, execute_order
    <3>2. o.order_ref \in Refs /\ o.shares \in Nat
      BY <2>2, ShareAssumption DEF Picked, Order
    <3>3. remaining \in Nat
      BY <1>2, ShareAssumption DEF EngineInv
    <3>4. n \in Nat
      BY <3>2, <3>3
    <3> HIDE DEF n, o
    <3> QED BY <1>2, <2>0, <3>1, <3>2, <3>4, UncrossedReduce
  <2>3. ASSUME Finish, pc = "matching", order \in Incoming,
               remaining = 0 \/ Candidate(book, order) = NoSlot
        PROVE  Uncrossed(Orders(book'))
    <3>1. CASE remaining > 0 /\ order.type = "Limit"
               /\ book' = add_order(book, order.order_ref, order.price, remaining,
                                    order.side, order.trader_id).book
      <4> DEFINE x == NewOrder(order.order_ref, order.price, remaining,
                               order.side, order.trader_id)
      <4>1. \/ book' = book
            \/ Extends(Orders(book'), Orders(book), order.order_ref, x)
        BY <1>2, <2>0, <2>3, <3>1, IncomingFacts, AddEffect DEF EngineInv
      <4>2. x.side = order.side /\ x.price = order.price
        BY DEF NewOrder
      <4>3. ASSUME NEW u \in DOMAIN Orders(book), x.side # Orders(book)[u].side
            PROVE  /\ Better(x.side, Orders(book)[u].price, x.price)
                   /\ Orders(book)[u].price \in Int /\ x.price \in Int
        <5>1. /\ u \in Refs /\ Live(book, u) /\ Orders(book)[u] = OrderOf(book, u)
              /\ OrderOf(book, u).side \in Sides /\ OrderOf(book, u).price \in Prices
          <6>1. u \in Refs /\ Live(book, u) /\ Orders(book)[u] = OrderOf(book, u)
            BY <2>0, OrdersType
          <6> QED BY <2>0, <6>1, OrderLevel
        <5>2. OrderOf(book, u).side = Opposite[order.side]
          <6>1. order.side \in Sides
            BY <2>3, IncomingFacts
          <6> QED BY <4>2, <4>3, <5>1, <6>1 DEF Sides, Opposite
        <5>3. u \in Opposing(book, order)
          BY <5>1, <5>2 DEF Opposing
        <5>4. Candidate(book, order) = NoSlot
          BY <2>3, <3>1
        <5>5. ~crosses(order, OrderOf(book, u).price)
          BY <1>2, <2>0, <2>3, <5>3, <5>4, LoopEmpties
        <5>6. order.price \in Int /\ OrderOf(book, u).price \in Int
          BY <2>3, <5>1, IncomingFacts, PricesAreIntegers
        <5> QED BY <4>2, <5>1, <5>5, <5>6 DEF crosses
      <4> HIDE DEF x
      <4>4. ASSUME Extends(Orders(book'), Orders(book), order.order_ref, x)
            PROVE  Uncrossed(Orders(book'))
        BY <1>2, <4>3, <4>4, UncrossedMore
      <4> QED BY <1>2, <4>1, <4>4
    <3> QED BY <2>1, <2>3, <3>1 DEF Finish, Remainder
  <2>4. CASE Iterate
    BY <1>2, <2>2, <2>3, <2>4, IterateSteps
  <2>5. ASSUME NEW r \in Refs, NEW n \in Quantities,
               BookCall(cancel_order(book, r, n).book)
        PROVE  Uncrossed(Orders(book'))
    <3>1. n \in Nat
      BY EngineAssumption, ShareAssumption
    <3>2. book' = reduce_shares(book, r, n).book
      BY <2>5 DEF BookCall, cancel_order
    <3> QED BY <1>2, <2>0, <3>1, <3>2, UncrossedReduce
  <2>6. ASSUME NEW r \in Refs, BookCall(delete_order(book, r).book)
        PROVE  Uncrossed(Orders(book'))
    <3>1. book' = delete_order(book, r).book
      BY <2>6 DEF BookCall
    <3> QED BY <1>2, <2>0, <3>1, UncrossedReduce
  <2>7. CASE Return \/ (\E o \in Incoming : Submit(o)) \/ UNCHANGED vars
    BY <2>1, <2>7 DEF Return, Submit, vars
  <2> QED BY <1>2, <2>4, <2>5, <2>6, <2>7 DEF Next
<1>3. EngineInv /\ BestLeads(book) /\ U /\ [Next]_vars => U'
  BY <1>2
<1>4. U => NotCrossed
  <2>1. /\ DOMAIN Orders(book) = {r \in Refs : Live(book, r)}
        /\ \A r \in DOMAIN Orders(book) : Orders(book)[r] = OrderOf(book, r)
    BY DEF Orders
  <2> QED BY <2>1 DEF Uncrossed, NotCrossed
<1> QED BY <1>1, <1>3, <1>4, EngineInvariant, EngineBestLeads, PTL DEF Spec

-----------------------------------------------------------------------------
(* The events and the book. *)

OnSide(os, d) == {r \in DOMAIN os : os[r].side = d}

(* The shares that rest on a side. *)
SideTotal(os, d) == SumFunction([r \in OnSide(os, d) |-> os[r].shares])

(* Orders more hold n shares more than orders os on side s, and as many on *)
(* the other.                                                              *)
Gains(more, os, s, n) ==
  \A d \in Sides : /\ SideTotal(os, d) \in Int
                   /\ SideTotal(more, d) = SideTotal(os, d) + (IF d = s THEN n ELSE 0)

LEMMA SideExtends ==
  ASSUME NEW os, NEW more, NEW r, NEW o, Countable(os),
         Extends(more, os, r, o), o.shares \in Int
  PROVE  Gains(more, os, o.side, o.shares)
<1> SUFFICES ASSUME NEW d \in Sides
             PROVE  /\ SideTotal(os, d) \in Int
                    /\ SideTotal(more, d)
                         = SideTotal(os, d) + (IF d = o.side THEN o.shares ELSE 0)
  BY DEF Gains
<1> DEFINE S == OnSide(os, d)
           T == OnSide(more, d)
           f == [x \in S |-> os[x].shares]
           g == [x \in T |-> more[x].shares]
<1>1. IsFiniteSet(S) /\ IsFiniteSet(DOMAIN os \cup {r})
  BY FS_Subset, FS_AddElement DEF Countable, OnSide
<1>2. \A x \in S : f[x] \in Int /\ x \in T /\ g[x] = f[x]
  BY DEF Countable, OnSide, Extends
<1>3. /\ SideTotal(os, d) = SumFunctionOnSet(f, S)
      /\ SideTotal(more, d) = SumFunctionOnSet(g, T)
  BY DEF SideTotal, SumFunction
<1>4. /\ SumFunctionOnSet(f, S) = SumFunctionOnSet(g, S)
      /\ SumFunctionOnSet(f, S) \in Int
  <2> HIDE DEF f, g, S, T
  <2> QED BY <1>1, <1>2, SumSame, SumType
<1>5. CASE d = o.side
  <2>1. T = S \cup {r} /\ r \notin S
    BY <1>5 DEF Extends, OnSide
  <2>2. g[r] = o.shares
    BY <2>1 DEF Extends
  <2>3. \A x \in S \cup {r} : g[x] \in Int
    BY <1>2, <2>2
  <2> HIDE DEF f, g, S, T
  <2>4. SumFunctionOnSet(g, T) = g[r] + SumFunctionOnSet(g, S)
    BY <1>1, <2>1, <2>3, SumAdd
  <2> QED BY <1>3, <1>4, <1>5, <2>2, <2>4
<1>6. CASE d # o.side
  <2>1. T = S
    BY <1>6 DEF Extends, OnSide
  <2> HIDE DEF f, g, S, T
  <2> QED BY <1>3, <1>4, <1>6, <2>1
<1> QED BY <1>5, <1>6

LEMMA SideType ==
  ASSUME NEW os, Countable(os), NEW d
  PROVE  SideTotal(os, d) \in Int
<1> DEFINE S == OnSide(os, d)
           f == [x \in S |-> os[x].shares]
<1>1. IsFiniteSet(S) /\ \A x \in S : f[x] \in Int
  BY FS_Subset DEF Countable, OnSide
<1>2. SideTotal(os, d) = SumFunctionOnSet(f, S)
  BY DEF SideTotal, SumFunction
<1> HIDE DEF f, S
<1> QED BY <1>1, <1>2, SumType

LEMMA SideChanges ==
  ASSUME NEW os, NEW more, NEW r, NEW o, Countable(os),
         Changes(more, os, r, o), o.shares \in Int, o.side = os[r].side,
         NEW n \in Int, n = os[r].shares - o.shares
  PROVE  Gains(os, more, o.side, n)
<1> DEFINE less == [x \in DOMAIN os \ {r} |-> os[x]]
<1>1. Extends(os, less, r, os[r]) /\ Extends(more, less, r, o)
  BY DEF Changes, Extends
<1>2. Countable(less) /\ os[r].shares \in Int
  <2>1. IsFiniteSet(DOMAIN os \ {r})
    BY FS_Subset DEF Countable
  <2> QED BY <2>1 DEF Countable, Changes
<1> HIDE DEF less
<1>3. Gains(os, less, o.side, os[r].shares) /\ Gains(more, less, o.side, o.shares)
  BY <1>1, <1>2, SideExtends
<1> SUFFICES ASSUME NEW d \in Sides
             PROVE  /\ SideTotal(more, d) \in Int
                    /\ SideTotal(os, d)
                         = SideTotal(more, d) + (IF d = o.side THEN n ELSE 0)
  BY DEF Gains
<1> DEFINE x == SideTotal(less, d)
           y == SideTotal(os, d)
           z == SideTotal(more, d)
           h == os[r].shares
           m == o.shares
<1>4. /\ x \in Int /\ h \in Int /\ m \in Int /\ n = h - m
      /\ y = x + (IF d = o.side THEN h ELSE 0)
      /\ z = x + (IF d = o.side THEN m ELSE 0)
  BY <1>2, <1>3 DEF Gains
<1> HIDE DEF x, y, z, h, m
<1>5. z \in Int /\ y = z + (IF d = o.side THEN n ELSE 0)
  <2>1. CASE d = o.side
    BY <1>4, <2>1
  <2>2. CASE d # o.side
    BY <1>4, <2>2
  <2> QED BY <2>1, <2>2
<1> QED BY <1>5 DEF y, z

(* An execution takes what it is asked to from the order's side. *)
LEMMA ReduceGains ==
  ASSUME NEW b, BookInv(b), NEW r \in Refs, Live(b, r), NEW n \in Nat,
         n \in 1 .. OrderOf(b, r).shares, NEW c, c = reduce_shares(b, r, n).book
  PROVE  Gains(Orders(b), Orders(c), OrderOf(b, r).side, n)
<1> DEFINE o == OrderOf(b, r)
           m == [o EXCEPT !.shares = o.shares - n]
<1>0. Sound(b) /\ BookInv(c)
  BY ReduceEffect DEF BookInv
<1>1. Countable(Orders(b)) /\ Countable(Orders(c))
  BY <1>0, OrdersType DEF BookInv
<1>2. /\ Orders(b)[r] = o /\ o \in Order /\ o.shares \in 1 .. ShareSpan - 1
  BY <1>0, OrderLevel
<1>3. o.shares \in Int
  BY <1>2, ShareAssumption
<1>4. \/ n = o.shares /\ Extends(Orders(b), Orders(c), r, o)
      \/ Changes(Orders(c), Orders(b), r, m)
  BY ReduceEffect
<1>5. ASSUME n = o.shares, Extends(Orders(b), Orders(c), r, o)
      PROVE  Gains(Orders(b), Orders(c), o.side, n)
  BY <1>1, <1>3, <1>5, SideExtends
<1>6. ASSUME Changes(Orders(c), Orders(b), r, m)
      PROVE  Gains(Orders(b), Orders(c), o.side, n)
  <2>1. m.side = o.side /\ m.shares = o.shares - n
    BY <1>2 DEF Order
  <2> HIDE DEF o, m
  <2>2. n = o.shares - m.shares /\ m.shares \in Int
    BY <1>3, <2>1
  <2> QED BY <1>1, <1>2, <1>6, <2>1, <2>2, SideChanges
<1> QED BY <1>4, <1>5, <1>6

LEMMA RestingIsSide ==
  ASSUME NEW b, NEW d
  PROVE  RestingShares(b, d) = SideTotal(Orders(b), d)
<1>1. OnSide(Orders(b), d) = {r \in Refs : Live(b, r) /\ OrderOf(b, r).side = d}
  BY DEF OnSide, Orders
<1>2. \A r \in OnSide(Orders(b), d) : Orders(b)[r].shares = OrderOf(b, r).shares
  BY DEF OnSide, Orders
<1>3. [r \in OnSide(Orders(b), d) |-> Orders(b)[r].shares]
        = [r \in OnSide(Orders(b), d) |-> OrderOf(b, r).shares]
  BY <1>2
<1> QED BY <1>1, <1>3 DEF RestingShares, SideTotal

(* The pool has a slot for what is left of a Limit order. *)
RoomToRest == pc = "matching" /\ order.type = "Limit" => book.free # <<>>

(* While it is matched, an order's reference rests nowhere. *)
FreshRef == pc = "matching" => ~Live(book, order.order_ref)

LEMMA ReduceKeepsFree ==
  ASSUME NEW b, BookInv(b), NEW r \in Refs, NEW n \in Nat,
         NEW c, c = reduce_shares(b, r, n).book, NEW u \in Refs, ~Live(b, u)
  PROVE  ~Live(c, u)
<1> DEFINE o == OrderOf(b, r)
           m == [o EXCEPT !.shares = o.shares - n]
<1>1. \/ c = b
      \/ Extends(Orders(b), Orders(c), r, o)
      \/ Changes(Orders(c), Orders(b), r, m)
  BY ReduceEffect
<1>2. /\ DOMAIN Orders(b) = {x \in Refs : Live(b, x)}
      /\ DOMAIN Orders(c) = {x \in Refs : Live(c, x)}
  BY DEF Orders
<1> QED BY <1>1, <1>2 DEF Extends, Changes

(* What a fill takes from the book, by the names of MatchAgainst. *)
LEMMA MatchTakes ==
  ASSUME EngineInv, remaining > 0, NEW s, Picked(book, order, s), MatchAgainst(s),
         NEW o, o = book.slots[s],
         NEW n, n = IF remaining < o.shares THEN remaining ELSE o.shares
  PROVE  /\ book' = reduce_shares(book, o.order_ref, n).book
         /\ o.order_ref \in Refs /\ n \in Nat /\ n \in 1 .. o.shares
         /\ Live(book, o.order_ref) /\ OrderOf(book, o.order_ref) = o
         /\ o.side = Opposite[order.side]
         /\ FilledIn(events') = FilledIn(events) + n
         /\ events'.rested = events.rested
<1>1. /\ o \in Order /\ Live(book, o.order_ref) /\ OrderOf(book, o.order_ref) = o
      /\ o.side = Opposite[order.side]
  BY DEF Picked
<1>2. /\ o.order_ref \in Refs /\ o.price \in Prices /\ o.shares \in 1 .. ShareSpan - 1
  BY <1>1 DEF Order
<1>3. remaining \in Nat /\ o.shares \in Nat /\ o.shares > 0 /\ ShareSpan \in Nat
  BY <1>2, ShareAssumption DEF EngineInv
<1>4. n \in 1 .. o.shares /\ n \in Nat
  <2>1. CASE remaining < o.shares
    BY <1>3, <2>1
  <2>2. CASE ~(remaining < o.shares)
    BY <1>3, <2>2
  <2> QED BY <2>1, <2>2
<1>5. /\ book' = reduce_shares(book, o.order_ref, n).book
      /\ events' = [events EXCEPT !.fills = Append(@, Fill(o, n))]
  BY DEF MatchAgainst, execute_order
<1>6. n \in 1 .. ShareSpan - 1
  BY <1>2, <1>3, <1>4
<1>7. Fill(o, n) \in Fills /\ Fill(o, n).quantity = n
  BY <1>2, <1>6 DEF Fill, Fills
<1>8. FillAdded(events', events, Fill(o, n))
  BY <1>5, <1>7, FillCounts DEF EngineInv
<1> QED BY <1>1, <1>2, <1>4, <1>5, <1>7, <1>8 DEF FillAdded

LEMMA FreshRefStep ==
  ASSUME UniqueRefs, EngineInv, FreshRef, [Next]_vars
  PROVE  FreshRef'
<1>1. ASSUME NEW o \in Incoming, Submit(o)
      PROVE  FreshRef'
  BY <1>1 DEF Submit, FreshRef
<1>2. ASSUME remaining > 0, pc = "matching", order \in Incoming,
             NEW s, Picked(book, order, s), MatchAgainst(s)
      PROVE  FreshRef'
  <2>1. \E r \in Refs, n \in Nat : book' = reduce_shares(book, r, n).book
    BY <1>2, MatchTakes
  <2>2. order.order_ref \in Refs /\ ~Live(book, order.order_ref)
    BY <1>2, IncomingFacts DEF FreshRef
  <2>3. ~Live(book', order.order_ref)
    BY <2>1, <2>2, ReduceKeepsFree DEF EngineInv
  <2>4. order' = order
    BY <1>2 DEF MatchAgainst
  <2> QED BY <2>3, <2>4 DEF FreshRef
<1>3. CASE Iterate
  <2>1. CASE Finish
    BY <2>1 DEF Finish, FreshRef
  <2> QED BY <1>2, <1>3, <2>1, IterateSteps
<1>4. CASE Return \/ BookCalls
  BY <1>4 DEF Return, BookCalls, BookCall, FreshRef
<1>5. CASE UNCHANGED vars
  BY <1>5 DEF vars, FreshRef
<1> QED BY <1>1, <1>3, <1>4, <1>5 DEF Next, BookCalls

(* In every execution in which callers submit only references that are not *)
(* resting and the pool has a slot for each Limit order that is matched,   *)
(* the events tell what happened to the book: the opposite side loses      *)
(* exactly the shares reported filled, the order's own side gains exactly  *)
(* the shares reported rested.  (Without the hypotheses it fails: on_rest  *)
(* is called also when add_order has refused the remainder.)               *)
THEOREM EngineEvents ==
  ASSUME UniqueRefs
  PROVE  Spec /\ []RoomToRest => EventsMatchBook
<1> DEFINE a == Opposite[order.side]
           c == order.side
           P == /\ RestingShares(book, a) - RestingShares(book', a) = Filled' - Filled
                /\ RestingShares(book', c) - RestingShares(book, c)
                     = events'.rested - events.rested
<1>0. Filled = FilledIn(events) /\ Filled' = FilledIn(events')
  BY DEF Filled, FilledIn
<1>1. ASSUME EngineInv, FreshRef, RoomToRest, [Next]_vars, pc = "matching", Iterate
      PROVE  P
  <2>0. /\ BookInv(book) /\ order \in Incoming /\ events \in Events
        /\ EngineInv' /\ FilledIn(events) \in Nat /\ FilledIn(events') \in Nat
        /\ events.rested \in Nat /\ Countable(Orders(book))
    <3>1. EngineInv'
      BY <1>1, EngineStep
    <3>2. events \in Events /\ events' \in Events
      BY <1>1, <3>1 DEF EngineInv
    <3>3. events.rested \in Nat
      BY <3>2, ShareAssumption DEF Events
    <3>4. FilledIn(events) \in Nat /\ FilledIn(events') \in Nat
      BY <3>2, FilledType
    <3>5. BookInv(book) /\ order \in Incoming /\ Countable(Orders(book))
      BY <1>1, OrdersType DEF EngineInv, Accounted, BookInv
    <3> QED BY <3>1, <3>2, <3>3, <3>4, <3>5
  <2>1. a \in Sides /\ c \in Sides /\ a # c
    BY <2>0, IncomingFacts DEF Sides, Opposite
  <2>2. /\ RestingShares(book, a) = SideTotal(Orders(book), a)
        /\ RestingShares(book', a) = SideTotal(Orders(book'), a)
        /\ RestingShares(book, c) = SideTotal(Orders(book), c)
        /\ RestingShares(book', c) = SideTotal(Orders(book'), c)
    BY RestingIsSide
  <2>3. ASSUME NEW s, remaining > 0, Picked(book, order, s), MatchAgainst(s)
        PROVE  P
    <3> DEFINE o == book.slots[s]
               n == IF remaining < o.shares THEN remaining ELSE o.shares
    <3>1. /\ book' = reduce_shares(book, o.order_ref, n).book
          /\ o.order_ref \in Refs /\ n \in Nat /\ n \in 1 .. o.shares
          /\ Live(book, o.order_ref) /\ OrderOf(book, o.order_ref) = o
          /\ o.side = a
          /\ FilledIn(events') = FilledIn(events) + n
          /\ events'.rested = events.rested
      BY <1>1, <2>3, MatchTakes
    <3> HIDE DEF o, n
    <3>2. Gains(Orders(book), Orders(book'), a, n)
      BY <2>0, <3>1, ReduceGains
    <3>3. /\ SideTotal(Orders(book'), a) \in Int /\ SideTotal(Orders(book'), c) \in Int
          /\ SideTotal(Orders(book), a) = SideTotal(Orders(book'), a) + n
          /\ SideTotal(Orders(book), c) = SideTotal(Orders(book'), c) + 0
      BY <2>1, <3>2 DEF Gains
    <3> HIDE DEF a, c
    <3> QED BY <1>0, <2>0, <2>2, <3>1, <3>3
  <2>4. ASSUME book' = book, events'.fills = events.fills,
               events'.rested = events.rested
        PROVE  P
    <3>1. FilledIn(events') = FilledIn(events)
      BY <2>4 DEF FilledIn
    <3>2. SideTotal(Orders(book), a) \in Int /\ SideTotal(Orders(book), c) \in Int
      BY <2>0, SideType
    <3> HIDE DEF a, c
    <3> QED BY <1>0, <2>0, <2>2, <2>4, <3>1, <3>2
  <2>5. ASSUME remaining > 0, order.type = "Limit",
               book' = add_order(book, order.order_ref, order.price, remaining,
                                 order.side, order.trader_id).book,
               events' = [events EXCEPT !.rested = remaining]
        PROVE  P
    <3> DEFINE x == NewOrder(order.order_ref, order.price, remaining,
                             order.side, order.trader_id)
    <3>1. /\ remaining \in 0 .. ShareSpan - 1 /\ remaining \in Int
          /\ events.rested = 0
      BY <1>1, ShareAssumption DEF EngineInv, Accounted
    <3>2. Extends(Orders(book'), Orders(book), order.order_ref, x)
      BY <1>1, <2>0, <2>5, <3>1, IncomingFacts, AddEffect DEF FreshRef, RoomToRest
    <3>3. x.side = c /\ x.shares = remaining
      BY DEF NewOrder
    <3>4. /\ events'.fills = events.fills /\ events'.rested = remaining
      BY <2>0, <2>5 DEF Events
    <3>5. FilledIn(events') = FilledIn(events)
      BY <3>4 DEF FilledIn
    <3> HIDE DEF x
    <3>6. Gains(Orders(book'), Orders(book), c, remaining)
      BY <2>0, <3>1, <3>2, <3>3, SideExtends
    <3>7. /\ SideTotal(Orders(book), a) \in Int /\ SideTotal(Orders(book), c) \in Int
          /\ SideTotal(Orders(book'), a) = SideTotal(Orders(book), a) + 0
          /\ SideTotal(Orders(book'), c) = SideTotal(Orders(book), c) + remaining
      BY <2>1, <3>6 DEF Gains
    <3> HIDE DEF a, c
    <3> QED BY <1>0, <2>0, <2>2, <3>1, <3>4, <3>5, <3>7
  <2>6. CASE Finish
    <3>1. ASSUME events' = [events EXCEPT !.killed = remaining]
          PROVE  events'.fills = events.fills /\ events'.rested = events.rested
      BY <2>0, <3>1 DEF Events
    <3> QED BY <2>4, <2>5, <2>6, <3>1 DEF Finish, Remainder
  <2> QED BY <1>1, <2>3, <2>6, IterateSteps
<1>2. ASSUME EngineInv, FreshRef, RoomToRest, [Next]_vars
      PROVE  [pc = "matching" => P]_vars
  <2>1. CASE Iterate
    BY <1>1, <1>2, <2>1
  <2>2. CASE pc = "matching" /\ ~Iterate
    BY <1>2, <2>2 DEF Next, Submit, Return, BookCall
  <2> QED BY <2>1, <2>2
<1>3. Init => FreshRef
  BY DEF Init, FreshRef
<1>4. UniqueRefs /\ EngineInv /\ FreshRef /\ [Next]_vars => FreshRef'
  BY FreshRefStep
<1>5. EngineInv /\ FreshRef /\ RoomToRest /\ [Next]_vars => [pc = "matching" => P]_vars
  BY <1>2
<1>6. Spec /\ []RoomToRest => [][pc = "matching" => P]_vars
  BY <1>3, <1>4, <1>5, EngineInvariant, PTL DEF Spec
<1> QED BY <1>6, PTL DEF EventsMatchBook

-----------------------------------------------------------------------------
(* The dry run of a FOK order. *)

(* The shares of the orders os under the references S. *)
SharesOf(os, S) == SumFunction([r \in S |-> os[r].shares])

LEMMA SharesUnion ==
  ASSUME NEW os, Countable(os), NEW R \in SUBSET DOMAIN os,
         NEW S \in SUBSET DOMAIN os, R \cap S = {}
  PROVE  /\ SharesOf(os, R) \in Int /\ SharesOf(os, S) \in Int
         /\ SharesOf(os, R \cup S) = SharesOf(os, R) + SharesOf(os, S)
<1> DEFINE f == [r \in DOMAIN os |-> os[r].shares]
           Sum(T) == SumFunctionOnSet(f, T)
<1>1. ASSUME NEW T \in SUBSET DOMAIN os
      PROVE  /\ IsFiniteSet(T) /\ \A r \in T : f[r] \in Int
             /\ SharesOf(os, T) = Sum(T) /\ Sum(T) \in Int
  <2> DEFINE g == [r \in T |-> os[r].shares]
  <2>1. IsFiniteSet(T) /\ \A r \in T : f[r] \in Int /\ g[r] = f[r]
    BY <1>1, FS_Subset DEF Countable
  <2>2. SharesOf(os, T) = SumFunctionOnSet(g, T)
    BY DEF SharesOf, SumFunction
  <2> HIDE DEF f, g
  <2> QED BY <2>1, <2>2, SumSame, SumType
<1>2. /\ R \cup S \in SUBSET DOMAIN os
  OBVIOUS
<1> HIDE DEF f
<1>3. Sum(R \cup S) = Sum(R) + Sum(S)
  BY <1>1, <1>2, SumUnion
<1> QED BY <1>1, <1>2, <1>3

LEMMA SharesGrow ==
  ASSUME NEW os, Countable(os), \A r \in DOMAIN os : os[r].shares \in Nat,
         NEW S \in SUBSET DOMAIN os, NEW R \in SUBSET S
  PROVE  /\ SharesOf(os, R) \in Nat /\ SharesOf(os, S) \in Nat
         /\ SharesOf(os, R) <= SharesOf(os, S)
<1>1. ASSUME NEW T \in SUBSET DOMAIN os
      PROVE  SharesOf(os, T) \in Nat
  <2> DEFINE g == [r \in T |-> os[r].shares]
  <2>1. IsFiniteSet(T) /\ \A r \in T : g[r] \in Nat
    BY <1>1, FS_Subset DEF Countable
  <2>2. SharesOf(os, T) = SumFunctionOnSet(g, T)
    BY DEF SharesOf, SumFunction
  <2> HIDE DEF g
  <2> QED BY <2>1, <2>2, SumNat
<1>2. /\ R \in SUBSET DOMAIN os /\ S \ R \in SUBSET DOMAIN os
      /\ R \cap (S \ R) = {} /\ R \cup (S \ R) = S
  OBVIOUS
<1>3. SharesOf(os, S) = SharesOf(os, R) + SharesOf(os, S \ R)
  BY <1>2, SharesUnion
<1>4. SharesOf(os, R) \in Nat /\ SharesOf(os, S \ R) \in Nat /\ SharesOf(os, S) \in Nat
  BY <1>1, <1>2
<1> QED BY <1>3, <1>4

(* The orders that can fill o: of the other side, within its limit. *)
Reach(os, o) ==
  {r \in DOMAIN os : os[r].side = Opposite[o.side] /\ crosses(o, os[r].price)}

(* The orders of side d that rank before price p; all where there is none. *)
Ahead(os, d, p) ==
  {r \in OnSide(os, d) : p = NoPrice \/ Better(d, os[r].price, p)}

(* The shares that rest on each side together fit the width of Shares.     *)
SidesFit(b) == \A d \in Sides : SideTotal(Orders(b), d) < ShareSpan

LEMMA SidesFitLevels ==
  ASSUME NEW b, BookInv(b), SidesFit(b)
  PROVE  /\ NoWrap(b)
         /\ \A l \in Levels, d \in Sides : b.total[l][d] = TotalOf(Orders(b), l, d)
<1> DEFINE os == Orders(b)
<1>1. Countable(os) /\ \A r \in DOMAIN os : os[r].shares \in Nat
  <2>1. Countable(os) /\ \A r \in DOMAIN os : os[r] \in Order
    BY OrdersType DEF BookInv
  <2>2. \A x \in Order : x.shares \in Nat
    BY ShareAssumption DEF Order
  <2> HIDE DEF os
  <2> QED BY <2>1, <2>2
<1>2. ASSUME NEW l \in Levels, NEW d \in Sides
      PROVE  TotalOf(os, l, d) \in Nat /\ TotalOf(os, l, d) < ShareSpan
  <2>1. /\ AtLevel(os, l, d) \in SUBSET OnSide(os, d)
        /\ OnSide(os, d) \in SUBSET DOMAIN os
    BY DEF AtLevel, OnSide
  <2>2. /\ TotalOf(os, l, d) = SharesOf(os, AtLevel(os, l, d))
        /\ SideTotal(os, d) = SharesOf(os, OnSide(os, d))
    BY DEF TotalOf, SideTotal, SharesOf
  <2>3. /\ TotalOf(os, l, d) \in Nat /\ SideTotal(os, d) \in Nat
        /\ TotalOf(os, l, d) <= SideTotal(os, d)
    BY <1>1, <2>1, <2>2, SharesGrow
  <2>4. SideTotal(os, d) < ShareSpan
    BY DEF SidesFit
  <2> QED BY <2>3, <2>4, ShareAssumption
<1>3. NoWrap(b)
  BY <1>2 DEF NoWrap
<1>4. ASSUME NEW l \in Levels, NEW d \in Sides
      PROVE  b.total[l][d] = TotalOf(os, l, d)
  <2>1. b.total[l][d] = TotalOf(os, l, d) % ShareSpan
    BY DEF BookInv, TotalsSound
  <2> HIDE DEF os
  <2> QED BY <1>2, <2>1, ShareAssumption
<1> QED BY <1>3, <1>4

(* The level after p: none, or the next price at which orders rest. *)
LEMMA NextLevel ==
  ASSUME NEW b, BookInv(b), NEW d \in Sides, NEW p \in Prices,
         NEW v, v = next_level_after(b, p, d)
  PROVE  /\ v \in Prices \cup {NoPrice}
         /\ v # NoPrice => v \in Priced(b, d) /\ Better(d, p, v)
         /\ NoWrap(b) => \A q \in Priced(b, d) :
              Better(d, p, q) => v # NoPrice /\ ~Better(d, q, v)
<1> DEFINE within == {q \in 0 .. PriceSpan - 1 : Better(d, p, q)}
<1>1. within \in SUBSET (0 .. PriceSpan - 1) /\ v = ScanLevels(b, d, within)
  BY DEF next_level_after
<1>2. \A q \in Priced(b, d) : q \in Prices /\ (Better(d, p, q) => q \in within)
  BY PriceAssumption DEF Priced
<1>3. v # NoPrice => v \in within /\ v \in Priced(b, d)
  <2> HIDE DEF within
  <2> QED BY <1>1, ScanFacts DEF BookInv
<1>4. NoWrap(b) => \A q \in Priced(b, d) \cap within : v # NoPrice /\ ~Better(d, q, v)
  <2> HIDE DEF within
  <2> QED BY <1>1, ScanFacts DEF BookInv
<1> QED BY <1>2, <1>3, <1>4

(* The equation of the dry run's walk over the prices. *)
DryRun(w, b, o) ==
  [p \in Prices \cup {NoPrice} |->
     [total \in 0 .. ShareSpan - 1 |->
        IF p = NoPrice \/ total >= o.quantity \/ ~crosses(o, p)
        THEN total
        ELSE w[next_level_after(b, p, Opposite[o.side])]
              [(total + LiquidityAt(b, o, p)) % ShareSpan]]]

(* What one level of the other side adds: its counter. *)
LEMMA LiquidityIs ==
  ASSUME ~PreventSelfTrade, NEW b, Sound(b), NEW o, o.side \in Sides, NEW p \in Prices
  PROVE  /\ LiquidityAt(b, o, p) = b.total[LevelFor(p)][Opposite[o.side]]
         /\ LiquidityAt(b, o, p) \in 0 .. ShareSpan - 1
<1>1. LevelFor(p) \in Levels /\ Opposite[o.side] \in Sides
  BY LevelForType DEF Sides, Opposite
<1>2. LiquidityAt(b, o, p) = b.total[LevelFor(p)][Opposite[o.side]]
  BY DEF LiquidityAt, shares_at
<1>3. b.total \in [Levels -> [Sides -> 0 .. ShareSpan - 1]]
  BY DEF Sound, Book
<1> QED BY <1>1, <1>2, <1>3

(* The walk is well defined, because it goes to ever worse prices. *)
LEMMA DryRunExists ==
  ASSUME ~PreventSelfTrade, NEW b, BookInv(b), NEW o \in Incoming
  PROVE  \E w : w = DryRun(w, b, o)
<1> DEFINE d == Opposite[o.side]
           D == Prices \cup {NoPrice}
           S == 0 .. ShareSpan - 1
           T == [S -> S]
           ends == {NoPrice}
           id == [t \in S |-> t]
           a == [p \in D |-> id]
           next == [p \in D |-> IF p = NoPrice THEN p ELSE next_level_after(b, p, d)]
           F(g, p) == [t \in S |-> IF t >= o.quantity \/ ~crosses(o, p) THEN t
                                   ELSE g[(t + LiquidityAt(b, o, p)) % ShareSpan]]
           H(g, p) == IF p = NoPrice THEN id ELSE F(g, p)
           G == [z \in T \X D |-> H(z[1], z[2])]
           rank == [p \in D |-> IF p = NoPrice THEN 0
                                ELSE IF d = "buy" THEN p + 1 ELSE PriceSpan - p]
<1>0. /\ o.side \in Sides /\ d \in Sides /\ Sound(b)
      /\ ShareSpan \in Nat /\ ShareSpan > 0
  BY IncomingFacts, ShareAssumption DEF Sides, Opposite, BookInv
<1>1. /\ PriceSpan \in Nat /\ Prices \subseteq 0 .. PriceSpan - 1 /\ NoPrice \notin Prices
  BY PriceAssumption DEF NoPrice
<1>2. id \in T /\ a \in [D -> T] /\ ends \in SUBSET D
  OBVIOUS
<1>3. \A p \in Prices :
        /\ next[p] = next_level_after(b, p, d) /\ next[p] \in D
        /\ next[p] # NoPrice => next[p] \in Prices /\ Better(d, p, next[p])
  <2> SUFFICES ASSUME NEW p \in Prices
               PROVE  /\ next[p] = next_level_after(b, p, d) /\ next[p] \in D
                      /\ next[p] # NoPrice => next[p] \in Prices /\ Better(d, p, next[p])
    OBVIOUS
  <2>1. next[p] = next_level_after(b, p, d)
    BY <1>1
  <2> HIDE DEF next, d
  <2> QED BY <1>0, <2>1, NextLevel
<1>4. next \in [D -> D]
  BY <1>3
<1>5. ASSUME NEW g \in T, NEW p \in Prices PROVE F(g, p) \in T
  <2>1. LiquidityAt(b, o, p) \in Nat
    BY <1>0, LiquidityIs
  <2>2. \A t \in S : (t + LiquidityAt(b, o, p)) % ShareSpan \in S
    <3> SUFFICES ASSUME NEW t \in S
                 PROVE  (t + LiquidityAt(b, o, p)) % ShareSpan \in S
      OBVIOUS
    <3> DEFINE u == t + LiquidityAt(b, o, p)
    <3>1. u \in Int
      BY <1>0, <2>1
    <3> HIDE DEF u
    <3>2. u % ShareSpan \in 0 .. ShareSpan - 1
      BY <1>0, <3>1, DivMod
    <3> QED BY <3>2 DEF u
  <2> QED BY <2>2
<1>6. G \in [T \X D -> T]
  <2>1. \A g \in T : \A p \in D : H(g, p) \in T
    BY <1>2, <1>5
  <2> HIDE DEF T, H, D
  <2> QED BY <2>1
<1>7. \A g \in T : \A p \in Prices : G[<<g, p>>] = F(g, p)
  <2>1. \A g \in T : \A p \in D : G[<<g, p>>] = H(g, p)
    <3> HIDE DEF T, H, D
    <3> QED OBVIOUS
  <2>2. \A g \in T : \A p \in Prices : H(g, p) = F(g, p) /\ p \in D
    BY <1>1
  <2> HIDE DEF G, T, H, D, F
  <2> QED BY <2>1, <2>2
<1>8. rank \in [D -> 0 .. PriceSpan]
  <2>1. ASSUME NEW p \in Prices
        PROVE  (IF d = "buy" THEN p + 1 ELSE PriceSpan - p) \in 0 .. PriceSpan
    <3>1. p \in Nat /\ p < PriceSpan
      BY <1>1
    <3> HIDE DEF d
    <3> QED BY <1>1, <3>1
  <2>2. 0 \in 0 .. PriceSpan
    BY <1>1
  <2> HIDE DEF d
  <2> QED BY <2>1, <2>2
<1>9. \A p \in D \ ends : rank[next[p]] < rank[p]
  <2> SUFFICES ASSUME NEW p \in Prices PROVE rank[next[p]] < rank[p]
    OBVIOUS
  <2>1. /\ p \in Nat /\ p < PriceSpan
        /\ rank[p] = IF d = "buy" THEN p + 1 ELSE PriceSpan - p
    BY <1>1
  <2>2. CASE next[p] = NoPrice
    BY <1>1, <2>1, <2>2
  <2>3. CASE next[p] # NoPrice
    <3> DEFINE v == next[p]
    <3>1. v \in Prices /\ Better(d, p, v)
      BY <1>3, <2>3
    <3> HIDE DEF v
    <3>2. /\ v \in Nat
          /\ rank[v] = IF d = "buy" THEN v + 1 ELSE PriceSpan - v
      BY <1>1, <3>1
    <3> HIDE DEF rank, d
    <3>3. rank[v] < rank[p]
      BY <1>1, <2>1, <3>1, <3>2 DEF Better
    <3> QED BY <3>3 DEF v
  <2> QED BY <2>2, <2>3
<1>10. PICK w \in [D -> T] : Descends(w, D, ends, a, next, G)
  <2> HIDE DEF D, T, ends, a, next, G, rank
  <2> QED BY <1>1, <1>2, <1>4, <1>6, <1>8, <1>9, DescentExists
<1>11. w[NoPrice] = id /\ \A p \in Prices : w[p] = F(w[next[p]], p)
  <2>1. w[NoPrice] = id
    BY <1>10 DEF Descends
  <2>2. ASSUME NEW p \in Prices PROVE w[p] = F(w[next[p]], p)
    <3>1. p \in D /\ p \notin ends
      BY <1>1
    <3>2. w[p] = G[<<w[next[p]], p>>] /\ w[next[p]] \in T
      <4> HIDE DEF D, T, ends, a, next, G
      <4> QED BY <1>4, <1>10, <3>1 DEF Descends
    <3> HIDE DEF D, T, next, G, F
    <3> QED BY <1>7, <3>2
  <2> QED BY <2>1, <2>2
<1>12. w = DryRun(w, b, o)
  <2>1. ASSUME NEW p \in D
        PROVE  w[p] = [t \in S |->
                         IF p = NoPrice \/ t >= o.quantity \/ ~crosses(o, p)
                         THEN t
                         ELSE w[next_level_after(b, p, d)]
                               [(t + LiquidityAt(b, o, p)) % ShareSpan]]
    <3>1. CASE p = NoPrice
      <4> HIDE DEF next, G, rank, a
      <4> QED BY <1>11, <3>1
    <3>2. CASE p # NoPrice
      <4>1. p \in Prices /\ w[p] = F(w[next[p]], p) /\ next[p] = next_level_after(b, p, d)
        BY <1>3, <1>11, <3>2
      <4> HIDE DEF next, G, rank, a
      <4> QED BY <3>2, <4>1
    <3> QED BY <3>1, <3>2
  <2>2. w \in [D -> T]
    OBVIOUS
  <2> HIDE DEF next, G, rank, a, T
  <2> QED BY <2>1, <2>2 DEF DryRun
<1> QED BY <1>12

LEMMA DryRunIs ==
  ASSUME ~PreventSelfTrade, NEW b, BookInv(b), NEW o \in Incoming
  PROVE  \E w : /\ w = DryRun(w, b, o)
                /\ available_liquidity(b, o) = w[b.best[Opposite[o.side]]][0]
<1> DEFINE v == CHOOSE w : w = DryRun(w, b, o)
<1>1. \E w : w = DryRun(w, b, o)
  BY DryRunExists
<1>2. v = DryRun(v, b, o)
  BY <1>1
<1>3. available_liquidity(b, o) = v[b.best[Opposite[o.side]]][0]
  BY DEF available_liquidity, DryRun
<1> QED BY <1>2, <1>3

(* An order of side d rests at a price of that side. *)
LEMMA SidePriced ==
  ASSUME NEW b, Sound(b), NEW d, NEW r \in OnSide(Orders(b), d)
  PROVE  /\ r \in Refs /\ Live(b, r) /\ Orders(b)[r] = OrderOf(b, r)
         /\ Orders(b)[r].price \in Priced(b, d) /\ Orders(b)[r].price \in Nat
         /\ Orders(b)[r].price \in Prices
         /\ Orders(b)[r].level = LevelFor(Orders(b)[r].price)
         /\ Orders(b)[r].shares \in Nat
<1>1. r \in Refs /\ Live(b, r) /\ Orders(b)[r] = OrderOf(b, r) /\ OrderOf(b, r).side = d
  BY DEF OnSide, Orders
<1>2. /\ OrderOf(b, r).price \in Prices
      /\ OrderOf(b, r).level = LevelFor(OrderOf(b, r).price)
      /\ OrderOf(b, r).shares \in 1 .. ShareSpan - 1
  BY <1>1, OrderLevel
<1>3. OrderOf(b, r).price \in Nat /\ OrderOf(b, r).shares \in Nat
  <2>1. Prices \subseteq Nat
    BY PriceAssumption
  <2>2. \A n \in 1 .. ShareSpan - 1 : n \in Nat
    BY ShareAssumption
  <2> QED BY <1>2, <2>1, <2>2
<1> QED BY <1>1, <1>2, <1>3 DEF Priced

(* One level on, the orders at it are ahead too, and no others. *)
LEMMA AheadNext ==
  ASSUME NEW b, BookInv(b), NoWrap(b), NEW d \in Sides, NEW p \in Prices,
         NEW v, v = next_level_after(b, p, d), NEW os, os = Orders(b),
         NEW at, at = AtLevel(os, LevelFor(p), d)
  PROVE  /\ \A r \in at : r \in OnSide(os, d) /\ os[r].price = p
         /\ Ahead(os, d, p) \cap at = {}
         /\ Ahead(os, d, v) = Ahead(os, d, p) \cup at
<1>0. /\ Sound(b) /\ p \in Nat /\ NoPrice \notin Nat
      /\ \A q \in Priced(b, d) : q \in Nat
  BY PriceAssumption DEF BookInv, NoPrice, Priced
<1>1. at \subseteq OnSide(os, d)
  BY DEF AtLevel, OnSide
<1>2. ASSUME NEW r \in OnSide(os, d)
      PROVE  r \in at <=> os[r].price = p
  <2>1. os[r].price \in Prices /\ os[r].level = LevelFor(os[r].price)
    BY <1>0, SidePriced
  <2>2. r \in at <=> LevelFor(os[r].price) = LevelFor(p)
    BY <2>1 DEF AtLevel, OnSide
  <2> QED BY <2>1, <2>2, LevelForInjective
<1>3. /\ v # NoPrice => v \in Priced(b, d) /\ Better(d, p, v)
      /\ \A q \in Priced(b, d) : Better(d, p, q) => v # NoPrice /\ ~Better(d, q, v)
  BY NextLevel
<1>4. ASSUME NEW r \in OnSide(os, d)
      PROVE  /\ r \in Ahead(os, d, p) <=> Better(d, os[r].price, p)
             /\ r \in Ahead(os, d, v) <=> r \in Ahead(os, d, p) \/ r \in at
  <2> DEFINE x == os[r].price
  <2>1. x \in Priced(b, d) /\ x \in Nat
    BY <1>0, SidePriced
  <2>2. /\ r \in Ahead(os, d, p) <=> Better(d, x, p)
        /\ r \in Ahead(os, d, v) <=> v = NoPrice \/ Better(d, x, v)
        /\ r \in at <=> x = p
    BY <1>0, <1>2 DEF Ahead
  <2> HIDE DEF x
  <2>3. Better(d, p, x) \/ x = p \/ Better(d, x, p)
    BY <1>0, <2>1 DEF Better
  <2>4. ~(Better(d, p, x) /\ (x = p \/ Better(d, x, p)))
    BY <1>0, <2>1 DEF Better
  <2>5. v = NoPrice \/ Better(d, x, v) <=> x = p \/ Better(d, x, p)
    <3>1. CASE Better(d, p, x)
      BY <1>3, <2>1, <2>4, <3>1
    <3>2. CASE v = NoPrice
      BY <1>3, <2>1, <2>3, <3>2
    <3>3. CASE v # NoPrice /\ (x = p \/ Better(d, x, p))
      <4>1. v \in Nat /\ Better(d, p, v)
        BY <1>0, <1>3, <3>3
      <4>2. Better(d, x, v)
        BY <1>0, <2>1, <3>3, <4>1 DEF Better
      <4> QED BY <3>3, <4>2
    <3> QED BY <2>3, <3>1, <3>2, <3>3
  <2> QED BY <2>2, <2>5 DEF x
<1>5. \A r \in at : ~Better(d, os[r].price, p)
  BY <1>0, <1>1, <1>2 DEF Better
<1>6. Ahead(os, d, p) \subseteq OnSide(os, d) /\ Ahead(os, d, v) \subseteq OnSide(os, d)
  BY DEF Ahead
<1> QED BY <1>1, <1>2, <1>4, <1>5, <1>6

(* What a walk that has counted the orders ahead of p answers of o. *)
CountsRight(w, os, o, p) ==
  LET d == Opposite[o.side] IN
  Ahead(os, d, p) \subseteq Reach(os, o) =>
    /\ w[p][SharesOf(os, Ahead(os, d, p))] \in Nat
    /\ w[p][SharesOf(os, Ahead(os, d, p))] >= o.quantity
         <=> SharesOf(os, Reach(os, o)) >= o.quantity

LEMMA DryRunStops ==
  ASSUME NEW b, BookInv(b), SidesFit(b), NEW o \in Incoming, NEW w, w = DryRun(w, b, o),
         NEW os, os = Orders(b), NEW d, d = Opposite[o.side],
         NEW p \in Prices \cup {NoPrice},
         NEW t, t = SharesOf(os, Ahead(os, d, p)),
         p = NoPrice \/ t >= o.quantity \/ ~crosses(o, p)
  PROVE  CountsRight(w, os, o, p)
<1> SUFFICES ASSUME Ahead(os, d, p) \subseteq Reach(os, o)
             PROVE  /\ w[p][t] \in Nat
                    /\ w[p][t] >= o.quantity
                         <=> SharesOf(os, Reach(os, o)) >= o.quantity
  BY DEF CountsRight
<1>0. /\ Sound(b) /\ o.side \in Sides /\ d \in Sides /\ o.quantity \in Nat
      /\ o.price \in Nat /\ NoPrice \notin Nat
  <2>1. Prices \subseteq Nat /\ NoPrice \notin Nat
    BY PriceAssumption DEF NoPrice
  <2>2. o.side \in Sides /\ o.quantity \in Nat /\ o.price \in Prices
    BY IncomingFacts
  <2>3. d \in Sides
    BY <2>2 DEF Sides, Opposite
  <2> QED BY <2>1, <2>2, <2>3 DEF BookInv
<1>1. Countable(os) /\ \A r \in DOMAIN os : os[r].shares \in Nat
  <2>1. Countable(os) /\ \A r \in DOMAIN os : os[r] \in Order
    BY OrdersType DEF BookInv
  <2>2. \A x \in Order : x.shares \in Nat
    BY ShareAssumption DEF Order
  <2> QED BY <2>1, <2>2
<1>2. /\ Reach(os, o) \in SUBSET OnSide(os, d) /\ OnSide(os, d) \in SUBSET DOMAIN os
      /\ Reach(os, o) \in SUBSET DOMAIN os /\ Ahead(os, d, p) \in SUBSET Reach(os, o)
      /\ Ahead(os, d, p) \in SUBSET OnSide(os, d)
  BY DEF Reach, OnSide, Ahead
<1>3. /\ t \in Nat /\ SharesOf(os, Reach(os, o)) \in Nat
      /\ t <= SharesOf(os, Reach(os, o))
  BY <1>1, <1>2, SharesGrow
<1>4. t \in 0 .. ShareSpan - 1
  <2>1. SharesOf(os, OnSide(os, d)) = SideTotal(os, d) /\ SideTotal(os, d) < ShareSpan
    BY <1>0 DEF SharesOf, SideTotal, SidesFit
  <2>2. /\ t <= SharesOf(os, OnSide(os, d)) /\ SharesOf(os, OnSide(os, d)) \in Nat
    BY <1>1, <1>2, SharesGrow
  <2> QED BY <1>3, <2>1, <2>2, ShareAssumption
<1>5. w[p][t] = t
  <2>1. w[p] = [total \in 0 .. ShareSpan - 1 |->
                  IF p = NoPrice \/ total >= o.quantity \/ ~crosses(o, p)
                  THEN total
                  ELSE w[next_level_after(b, p, Opposite[o.side])]
                        [(total + LiquidityAt(b, o, p)) % ShareSpan]]
    BY DEF DryRun
  <2> QED BY <1>4, <2>1
<1>6. CASE t >= o.quantity
  BY <1>0, <1>3, <1>5, <1>6
<1>7. CASE p = NoPrice
  <2>1. Reach(os, o) = Ahead(os, d, p)
    BY <1>2, <1>7 DEF Ahead
  <2> QED BY <1>3, <1>5, <2>1
<1>8. CASE p # NoPrice /\ ~crosses(o, p)
  <2>1. ASSUME NEW r \in Reach(os, o) PROVE r \in Ahead(os, d, p)
    <3>1. r \in OnSide(os, d) /\ crosses(o, os[r].price)
      BY <1>2 DEF Reach
    <3>2. os[r].price \in Nat /\ p \in Nat
      BY <1>0, <1>8, <3>1, SidePriced, PriceAssumption
    <3>3. /\ o.type # "Market" /\ Better(o.side, p, o.price)
          /\ ~Better(o.side, os[r].price, o.price)
      BY <1>8, <3>1 DEF crosses
    <3>4. d = "buy" <=> o.side = "sell"
      BY <1>0 DEF Sides, Opposite
    <3>5. d \in {"buy", "sell"} /\ o.side \in {"buy", "sell"}
      BY <1>0 DEF Sides
    <3>6. Better(d, os[r].price, p)
      BY <1>0, <3>2, <3>3, <3>4, <3>5 DEF Better
    <3> QED BY <3>1, <3>6 DEF Ahead
  <2>2. Reach(os, o) = Ahead(os, d, p)
    BY <1>2, <2>1
  <2> QED BY <1>3, <1>5, <2>2
<1> QED BY <1>6, <1>7, <1>8

(* Where the walk goes on, it goes on with the next level's count right.   *)
LEMMA DryRunGoesOn ==
  ASSUME ~PreventSelfTrade, NEW b, BookInv(b), SidesFit(b), NEW o \in Incoming,
         NEW w, w = DryRun(w, b, o), NEW os, os = Orders(b),
         NEW d, d = Opposite[o.side], NEW p \in Priced(b, d),
         NEW t, t = SharesOf(os, Ahead(os, d, p)),
         ~(t >= o.quantity), crosses(o, p),
         NEW v, v = next_level_after(b, p, d), CountsRight(w, os, o, v)
  PROVE  CountsRight(w, os, o, p)
<1> SUFFICES ASSUME Ahead(os, d, p) \subseteq Reach(os, o)
             PROVE  /\ w[p][t] \in Nat
                    /\ w[p][t] >= o.quantity
                         <=> SharesOf(os, Reach(os, o)) >= o.quantity
  BY DEF CountsRight
<1> DEFINE at == AtLevel(os, LevelFor(p), d)
           m == SharesOf(os, at)
           u == SharesOf(os, Ahead(os, d, v))
<1>0. /\ Sound(b) /\ o.side \in Sides /\ d \in Sides /\ p \in Prices /\ NoWrap(b)
      /\ LevelFor(p) \in Levels /\ p # NoPrice
  <2>1. o.side \in Sides
    BY IncomingFacts
  <2>2. p \in Prices /\ d \in Sides
    BY <2>1 DEF Priced, Sides, Opposite
  <2>3. p # NoPrice
    BY <2>2, PriceAssumption DEF NoPrice
  <2> QED BY <2>1, <2>2, <2>3, SidesFitLevels, LevelForType DEF BookInv
<1>1. /\ \A r \in at : r \in OnSide(os, d) /\ os[r].price = p
      /\ Ahead(os, d, p) \cap at = {}
      /\ Ahead(os, d, v) = Ahead(os, d, p) \cup at
  BY <1>0, AheadNext
<1> HIDE DEF at
<1>2. Countable(os) /\ \A r \in DOMAIN os : os[r].shares \in Nat
  <2>1. Countable(os) /\ \A r \in DOMAIN os : os[r] \in Order
    BY OrdersType DEF BookInv
  <2>2. \A x \in Order : x.shares \in Nat
    BY ShareAssumption DEF Order
  <2> QED BY <2>1, <2>2
<1>3. /\ Ahead(os, d, v) \subseteq Reach(os, o)
      /\ Ahead(os, d, p) \in SUBSET OnSide(os, d) /\ at \in SUBSET OnSide(os, d)
      /\ Ahead(os, d, v) \in SUBSET OnSide(os, d)
      /\ OnSide(os, d) \in SUBSET DOMAIN os
  <2>1. Ahead(os, d, p) \subseteq OnSide(os, d) /\ OnSide(os, d) \subseteq DOMAIN os
    BY DEF Ahead, OnSide
  <2>2. at \subseteq Reach(os, o)
    BY <1>1 DEF Reach, OnSide
  <2> QED BY <1>1, <2>1, <2>2
<1>4. t \in Nat /\ m \in Nat /\ u = t + m
  <2>1. Ahead(os, d, p) \in SUBSET DOMAIN os /\ at \in SUBSET DOMAIN os
    BY <1>3
  <2>2. SharesOf(os, Ahead(os, d, p) \cup at) = SharesOf(os, Ahead(os, d, p)) + SharesOf(os, at)
    BY <1>1, <1>2, <2>1, SharesUnion
  <2>3. t \in Nat /\ m \in Nat
    BY <1>2, <1>3, SharesGrow
  <2> QED BY <1>1, <2>2, <2>3
<1>5. u < ShareSpan
  <2>1. SharesOf(os, OnSide(os, d)) = SideTotal(os, d) /\ SideTotal(os, d) < ShareSpan
    BY <1>0 DEF SharesOf, SideTotal, SidesFit
  <2>2. u <= SharesOf(os, OnSide(os, d)) /\ u \in Nat /\ SharesOf(os, OnSide(os, d)) \in Nat
    BY <1>2, <1>3, SharesGrow
  <2> QED BY <2>1, <2>2, ShareAssumption
<1>6. LiquidityAt(b, o, p) = m
  <2>1. LiquidityAt(b, o, p) = b.total[LevelFor(p)][d]
    BY <1>0, LiquidityIs
  <2>2. b.total[LevelFor(p)][d] = TotalOf(os, LevelFor(p), d)
    BY <1>0, SidesFitLevels
  <2> QED BY <2>1, <2>2 DEF TotalOf, SharesOf, at
<1>7. /\ t \in 0 .. ShareSpan - 1 /\ (t + m) % ShareSpan = u
  <2> HIDE DEF m, u
  <2>1. ShareSpan \in Nat /\ t + m \in 0 .. ShareSpan - 1 /\ t \in 0 .. ShareSpan - 1
    BY <1>4, <1>5, ShareAssumption
  <2> QED BY <1>4, <2>1
<1>8. w[p][t] = w[v][u]
  <2>1. w[p] = [total \in 0 .. ShareSpan - 1 |->
                  IF p = NoPrice \/ total >= o.quantity \/ ~crosses(o, p)
                  THEN total
                  ELSE w[next_level_after(b, p, Opposite[o.side])]
                        [(total + LiquidityAt(b, o, p)) % ShareSpan]]
    BY <1>0 DEF DryRun
  <2> HIDE DEF m, u
  <2>2. w[p][t] = w[next_level_after(b, p, Opposite[o.side])]
                   [(t + LiquidityAt(b, o, p)) % ShareSpan]
    BY <1>0, <1>7, <2>1
  <2> QED BY <1>6, <1>7, <2>2
<1>9. /\ w[v][u] \in Nat
      /\ w[v][u] >= o.quantity <=> SharesOf(os, Reach(os, o)) >= o.quantity
  BY <1>3 DEF CountsRight
<1> QED BY <1>8, <1>9

LEMMA DryRunCounts ==
  ASSUME ~PreventSelfTrade, NEW b, BookInv(b), SidesFit(b), NEW o \in Incoming,
         NEW w, w = DryRun(w, b, o), NEW os, os = Orders(b),
         NEW d, d = Opposite[o.side]
  PROVE  \A p \in Priced(b, d) \cup {NoPrice} : CountsRight(w, os, o, p)
<1> DEFINE P == Priced(b, d) \cup {NoPrice}
           rank(p) == IF p = NoPrice THEN 0
                      ELSE IF d = "buy" THEN p + 1 ELSE PriceSpan - p
           U == {n \in Nat : \E p \in P : rank(p) = n /\ ~CountsRight(w, os, o, p)}
<1>0. /\ PriceSpan \in Nat /\ d \in Sides /\ NoPrice \notin Priced(b, d)
      /\ \A p \in Priced(b, d) : p \in Prices /\ p \in 0 .. PriceSpan - 1
  <2>1. d \in Sides
    BY IncomingFacts DEF Sides, Opposite
  <2> QED BY <2>1, PriceAssumption DEF Priced, NoPrice
<1>1. \A p \in P : rank(p) \in Nat
  <2>1. ASSUME NEW p \in Priced(b, d) PROVE rank(p) \in Nat
    BY <1>0
  <2> QED BY <2>1
<1> SUFFICES ASSUME U # {} PROVE FALSE
  <2> HIDE DEF rank
  <2> QED BY <1>1
<1>2. PICK n \in U : \A m \in U : n <= m
  <2> HIDE DEF rank
  <2>1. U \in SUBSET Nat
    OBVIOUS
  <2> HIDE DEF U
  <2> QED BY <2>1, LeastNat
<1>3. PICK p \in P : rank(p) = n /\ ~CountsRight(w, os, o, p)
  BY <1>2
<1> DEFINE t == SharesOf(os, Ahead(os, d, p))
           v == next_level_after(b, p, d)
<1>4. p \in Prices \cup {NoPrice}
  BY <1>0
<1>5. ~(p = NoPrice \/ t >= o.quantity \/ ~crosses(o, p))
  BY <1>3, <1>4, DryRunStops
<1>6. p \in Priced(b, d) /\ p \in Prices
  BY <1>0, <1>5
<1>7. v \in P /\ (v # NoPrice => v \in Priced(b, d) /\ Better(d, p, v))
  BY <1>0, <1>6, NextLevel
<1>8. CountsRight(w, os, o, v)
  <2>1. rank(v) < rank(p)
    <3> HIDE DEF v
    <3>1. CASE v = NoPrice
      BY <1>0, <1>6, <3>1
    <3>2. CASE v # NoPrice
      <4>1. v \in Nat /\ p \in Nat /\ Better(d, p, v) /\ p # NoPrice
        BY <1>0, <1>6, <1>7, <3>2
      <4> QED BY <1>0, <3>2, <4>1 DEF Better
    <3> QED BY <3>1, <3>2
  <2>2. rank(v) \in Nat /\ n \in Nat
    BY <1>1, <1>7
  <2> HIDE DEF rank, v
  <2>3. rank(v) \notin U
    <3> HIDE DEF U
    <3> QED BY <1>2, <1>3, <2>1, <2>2
  <2> QED BY <1>7, <2>2, <2>3
<1> QED BY <1>3, <1>5, <1>6, <1>8, DryRunGoesOn

(* The dry run finds enough exactly when the orders that can fill o have   *)
(* enough.                                                                 *)
LEMMA DryRunRight ==
  ASSUME ~PreventSelfTrade, NEW b, BookInv(b), BestLeads(b), SidesFit(b),
         NEW o \in Incoming
  PROVE  /\ SharesOf(Orders(b), Reach(Orders(b), o)) \in Nat
         /\ available_liquidity(b, o) \in Nat
         /\ available_liquidity(b, o) >= o.quantity
              <=> SharesOf(Orders(b), Reach(Orders(b), o)) >= o.quantity
<1> DEFINE os == Orders(b)
           d == Opposite[o.side]
           p == b.best[d]
<1>1. PICK w : w = DryRun(w, b, o) /\ available_liquidity(b, o) = w[p][0]
  BY DryRunIs
<1>2. d \in Sides /\ Sound(b)
  BY IncomingFacts DEF Sides, Opposite, BookInv
<1>3. p \in Priced(b, d) \cup {NoPrice}
  BY <1>2 DEF BookInv, BestBacked
<1>4. CountsRight(w, os, o, p)
  BY <1>1, <1>3, DryRunCounts
<1>5. Ahead(os, d, p) = {}
  <2>1. ASSUME NEW r \in Ahead(os, d, p) PROVE FALSE
    <3>1. r \in OnSide(os, d) /\ (p = NoPrice \/ Better(d, os[r].price, p))
      BY DEF Ahead
    <3>2. os[r].price \in Priced(b, d)
      BY <1>2, <3>1, SidePriced
    <3> QED BY <1>2, <3>1, <3>2 DEF BestLeads
  <2> QED BY <2>1
<1>6. SharesOf(os, {}) = 0
  BY SumEmpty DEF SharesOf, SumFunction
<1>7. SharesOf(os, Reach(os, o)) \in Nat
  <2>1. Countable(os) /\ \A r \in DOMAIN os : os[r] \in Order
    BY <1>2, OrdersType
  <2>2. \A x \in Order : x.shares \in Nat
    BY ShareAssumption DEF Order
  <2>3. Reach(os, o) \in SUBSET DOMAIN os
    BY DEF Reach
  <2> HIDE DEF os
  <2> QED BY <2>1, <2>2, <2>3, SharesGrow
<1>8. /\ w[p][0] \in Nat
      /\ w[p][0] >= o.quantity <=> SharesOf(os, Reach(os, o)) >= o.quantity
  BY <1>4, <1>5, <1>6 DEF CountsRight
<1> QED BY <1>1, <1>7, <1>8

(* What a change of one order within reach does to the shares in reach.    *)
LEMMA ReachExtends ==
  ASSUME NEW os, NEW more, NEW r, NEW x, Countable(os), Extends(more, os, r, x),
         x.shares \in Int, NEW o, x.side = Opposite[o.side], crosses(o, x.price)
  PROVE  /\ SharesOf(os, Reach(os, o)) \in Int
         /\ SharesOf(more, Reach(more, o)) = SharesOf(os, Reach(os, o)) + x.shares
<1> DEFINE S == Reach(os, o)
           T == Reach(more, o)
           f == [y \in S |-> os[y].shares]
           g == [y \in T |-> more[y].shares]
<1>1. IsFiniteSet(S)
  BY FS_Subset DEF Countable, Reach
<1>2. T = S \cup {r} /\ r \notin S
  BY DEF Extends, Reach
<1>3. (\A y \in S : f[y] \in Int /\ g[y] = f[y]) /\ g[r] = x.shares
  BY <1>2 DEF Countable, Extends, Reach
<1>4. /\ SharesOf(os, S) = SumFunctionOnSet(f, S)
      /\ SharesOf(more, T) = SumFunctionOnSet(g, T)
  BY DEF SharesOf, SumFunction
<1> HIDE DEF f, g, S, T
<1>5. SumFunctionOnSet(f, S) = SumFunctionOnSet(g, S) /\ SumFunctionOnSet(f, S) \in Int
  BY <1>1, <1>3, SumSame, SumType
<1>6. SumFunctionOnSet(g, T) = g[r] + SumFunctionOnSet(g, S)
  <2>1. \A y \in S \cup {r} : g[y] \in Int
    BY <1>3
  <2> QED BY <1>1, <1>2, <2>1, SumAdd
<1> QED BY <1>3, <1>4, <1>5, <1>6 DEF S, T

LEMMA ReachChanges ==
  ASSUME NEW os, NEW more, NEW r, NEW x, Countable(os), Changes(more, os, r, x),
         x.shares \in Int, NEW o, x.side = Opposite[o.side], crosses(o, x.price),
         os[r].side = x.side, os[r].price = x.price
  PROVE  /\ SharesOf(more, Reach(more, o)) \in Int
         /\ SharesOf(os, Reach(os, o))
              = SharesOf(more, Reach(more, o)) + (os[r].shares - x.shares)
<1> DEFINE less == [y \in DOMAIN os \ {r} |-> os[y]]
<1>1. Extends(os, less, r, os[r]) /\ Extends(more, less, r, x)
  BY DEF Changes, Extends
<1>2. Countable(less) /\ os[r].shares \in Int
  <2>1. IsFiniteSet(DOMAIN os \ {r})
    BY FS_Subset DEF Countable
  <2> QED BY <2>1 DEF Countable, Changes
<1> HIDE DEF less
<1> DEFINE n == SharesOf(less, Reach(less, o))
           h == os[r].shares
           m == x.shares
<1>3. n \in Int /\ SharesOf(os, Reach(os, o)) = n + h
  BY <1>1, <1>2, ReachExtends
<1>4. SharesOf(more, Reach(more, o)) = n + m
  BY <1>1, <1>2, ReachExtends
<1>5. h \in Int /\ m \in Int
  BY <1>2
<1> HIDE DEF n, h, m
<1>6. n + m \in Int /\ n + h = (n + m) + (h - m)
  BY <1>3, <1>5
<1> QED BY <1>3, <1>4, <1>6 DEF h, m

(* A fill takes what it takes from the shares in reach. *)
LEMMA ReachReduced ==
  ASSUME NEW b, BookInv(b), NEW r \in Refs, Live(b, r), NEW n \in Nat,
         n \in 1 .. OrderOf(b, r).shares, NEW c, c = reduce_shares(b, r, n).book,
         NEW o, OrderOf(b, r).side = Opposite[o.side], crosses(o, OrderOf(b, r).price)
  PROVE  /\ SharesOf(Orders(c), Reach(Orders(c), o)) \in Int
         /\ SharesOf(Orders(b), Reach(Orders(b), o))
              = SharesOf(Orders(c), Reach(Orders(c), o)) + n
<1> DEFINE x == OrderOf(b, r)
           m == [x EXCEPT !.shares = x.shares - n]
           B == SharesOf(Orders(b), Reach(Orders(b), o))
           C == SharesOf(Orders(c), Reach(Orders(c), o))
<1>0. Sound(b) /\ BookInv(c)
  BY ReduceEffect DEF BookInv
<1>1. Countable(Orders(b)) /\ Countable(Orders(c))
  BY <1>0, OrdersType DEF BookInv
<1>2. Orders(b)[r] = x /\ x \in Order /\ x.shares \in 1 .. ShareSpan - 1
  BY <1>0, OrderLevel
<1>3. x.shares \in Int
  BY <1>2, ShareAssumption
<1>4. \/ n = x.shares /\ Extends(Orders(b), Orders(c), r, x)
      \/ Changes(Orders(c), Orders(b), r, m)
  BY ReduceEffect
<1>5. ASSUME n = x.shares, Extends(Orders(b), Orders(c), r, x)
      PROVE  C \in Int /\ B = C + n
  BY <1>1, <1>3, <1>5, ReachExtends
<1>6. ASSUME Changes(Orders(c), Orders(b), r, m)
      PROVE  C \in Int /\ B = C + n
  <2>1. m.side = x.side /\ m.price = x.price /\ m.shares = x.shares - n
    BY <1>2 DEF Order
  <2>2. x.side = Opposite[o.side] /\ crosses(o, x.price)
    OBVIOUS
  <2> HIDE DEF x, m
  <2>3. m.shares \in Int /\ n = x.shares - m.shares
    BY <1>3, <2>1
  <2>4. C \in Int /\ B = C + (x.shares - m.shares)
    BY <1>1, <1>2, <1>6, <2>1, <2>2, <2>3, ReachChanges
  <2> QED BY <2>3, <2>4
<1> QED BY <1>4, <1>5, <1>6

(* A FOK order that is being matched can still be filled; one that is      *)
(* killed is killed whole, and could not have been filled.                 *)
FOKInv ==
  LET n == SharesOf(Orders(book), Reach(Orders(book), order)) IN
  order \in Incoming /\ order.type = "FOK" =>
    /\ pc = "matching" => remaining <= n
    /\ pc = "done" /\ events.killed > 0 =>
         events.killed = order.quantity /\ n < order.quantity

LEMMA FOKStep ==
  ASSUME ~PreventSelfTrade, EngineInv, BestLeads(book), SidesFit(book), FOKInv, [Next]_vars
  PROVE  FOKInv'
<1> DEFINE n(b, o) == SharesOf(Orders(b), Reach(Orders(b), o))
<1>0. BookInv(book)
  BY DEF EngineInv
<1>1. ASSUME NEW o \in Incoming, Submit(o)
      PROVE  FOKInv'
  <2>1. /\ pc = "idle" /\ book' = book /\ order' = o /\ remaining' = o.quantity
        /\ events = NoEvents
    BY <1>1 DEF Submit, EngineInv, Accounted
  <2>2. o.quantity \in Nat
    BY IncomingFacts
  <2>3. /\ n(book, o) \in Nat /\ available_liquidity(book, o) \in Nat
        /\ available_liquidity(book, o) >= o.quantity <=> n(book, o) >= o.quantity
    BY <1>0, DryRunRight
  <2> HIDE DEF n
  <2>4. CASE o.quantity = 0 /\ pc' = "done" /\ events' = events
    <3>1. events'.killed = 0
      BY <2>1, <2>4, NoEventsFacts
    <3> QED BY <2>4, <3>1 DEF FOKInv
  <2>5. CASE /\ o.type = "FOK" /\ available_liquidity(book, o) < o.quantity
             /\ pc' = "done" /\ events' = [events EXCEPT !.killed = o.quantity]
    <3>1. events'.killed = o.quantity
      <4>1. events \in Events
        BY DEF EngineInv
      <4> QED BY <2>5, <4>1 DEF Events
    <3>2. n(book, o) < o.quantity
      BY <2>2, <2>3, <2>5
    <3>3. n(book', order') < order'.quantity /\ events'.killed = order'.quantity
      BY <2>1, <3>1, <3>2
    <3> QED BY <2>5, <3>3 DEF FOKInv, n
  <2>6. CASE /\ o.type = "FOK" => available_liquidity(book, o) >= o.quantity
             /\ pc' = "matching"
    <3>1. o.type = "FOK" => o.quantity <= n(book, o)
      BY <2>2, <2>3, <2>6
    <3>2. order'.type = "FOK" => remaining' <= n(book', order')
      BY <2>1, <3>1
    <3> QED BY <2>6, <3>2 DEF FOKInv, n
  <2> QED BY <1>1, <2>4, <2>5, <2>6 DEF Submit
<1>2. ASSUME pc = "matching", order \in Incoming, remaining > 0,
             NEW s, Picked(book, order, s), MatchAgainst(s)
      PROVE  FOKInv'
  <2> DEFINE x == book.slots[s]
             k == IF remaining < x.shares THEN remaining ELSE x.shares
  <2>1. /\ book' = reduce_shares(book, x.order_ref, k).book
        /\ x.order_ref \in Refs /\ k \in Nat /\ k \in 1 .. x.shares
        /\ Live(book, x.order_ref) /\ OrderOf(book, x.order_ref) = x
        /\ x.side = Opposite[order.side]
    BY <1>2, MatchTakes
  <2>2. crosses(order, x.price)
    BY <1>2 DEF Picked
  <2>3. order' = order /\ pc' = pc /\ remaining' = remaining - k
    BY <1>2 DEF MatchAgainst
  <2> HIDE DEF x, k
  <2>4. n(book', order) \in Int /\ n(book, order) = n(book', order) + k
    BY <1>0, <2>1, <2>2, ReachReduced
  <2>5. remaining \in Int
    BY ShareAssumption DEF EngineInv
  <2>6. order.type = "FOK" => remaining <= n(book, order)
    BY <1>2 DEF FOKInv
  <2>7. order'.type = "FOK" => remaining' <= n(book', order')
    <3> HIDE DEF n
    <3> QED BY <2>1, <2>3, <2>4, <2>5, <2>6
  <2> QED BY <1>2, <2>3, <2>7 DEF FOKInv
<1>3. ASSUME pc = "matching", order \in Incoming, Finish,
             remaining = 0 \/ Candidate(book, order) = NoSlot
      PROVE  FOKInv'
  <2>1. CASE remaining = 0
    <3>1. events' = events /\ events.killed = 0
      BY <1>3, <2>1 DEF Finish, Remainder, EngineInv, Accounted
    <3>2. pc' = "done"
      BY <1>3 DEF Finish
    <3> QED BY <3>1, <3>2 DEF FOKInv
  <2>2. CASE remaining # 0 /\ order.type = "FOK"
    <3>1. Candidate(book, order) = NoSlot
      BY <1>3, <2>2
    <3>2. Reach(Orders(book), order) = {}
      <4>1. ASSUME NEW r \in Reach(Orders(book), order) PROVE FALSE
        <5>1. /\ r \in Opposing(book, order) /\ Orders(book)[r] = OrderOf(book, r)
              /\ crosses(order, OrderOf(book, r).price)
          BY DEF Reach, Orders, Opposing
        <5> QED BY <1>0, <1>3, <3>1, <5>1, LoopEmpties
      <4> QED BY <4>1
    <3>3. n(book, order) = 0
      BY <3>2, SumEmpty DEF SharesOf, SumFunction
    <3>4. remaining <= n(book, order)
      BY <1>3, <2>2 DEF FOKInv
    <3>5. remaining \in Nat
      BY ShareAssumption DEF EngineInv
    <3> QED BY <2>2, <3>3, <3>4, <3>5
  <2>3. CASE order.type # "FOK"
    <3>1. order' = order
      BY <1>3 DEF Finish
    <3> QED BY <2>3, <3>1 DEF FOKInv
  <2> QED BY <2>1, <2>2, <2>3
<1>4. CASE Iterate
  BY <1>2, <1>3, <1>4, IterateSteps
<1>5. CASE Return
  <2>1. pc' = "idle"
    BY <1>5 DEF Return
  <2> QED BY <2>1 DEF FOKInv
<1>6. CASE BookCalls
  <2>1. pc' = "idle"
    BY <1>6 DEF BookCalls, BookCall
  <2> QED BY <2>1 DEF FOKInv
<1>7. CASE UNCHANGED vars
  BY <1>7 DEF vars, FOKInv
<1> QED BY <1>1, <1>4, <1>5, <1>6, <1>7 DEF Next, BookCalls

(* Without self-trade prevention, in every execution in which the shares   *)
(* that rest on a side together fit the width of Shares, a FOK order is    *)
(* filled completely or not at all, and is killed only when the orders     *)
(* that cross its limit could not fill it: the dry run of                  *)
(* available_liquidity, which adds level counters in that width, and the   *)
(* loop of execute_match, which takes one order after the other, agree     *)
(* whatever else uses the book.                                            *)
THEOREM EngineFOKAtomic ==
  ASSUME ~PreventSelfTrade
  PROVE  Spec /\ []SidesFit(book) => []FOKAtomic
<1>1. Init => FOKInv
  BY DEF Init, FOKInv
<1>2. EngineInv /\ SidesFit(book) => NoWrap(book)
  BY SidesFitLevels DEF EngineInv
<1>3. ~PreventSelfTrade /\ EngineInv /\ BestLeads(book) /\ SidesFit(book) /\ FOKInv
        /\ [Next]_vars => FOKInv'
  BY FOKStep
<1>4. ASSUME EngineInv, FOKInv PROVE FOKAtomic
  <2> DEFINE reach == {r \in Opposing(book, order) :
                         /\ crosses(order, OrderOf(book, r).price)
                         /\ eligible(order, OrderOf(book, r))}
             n == SharesOf(Orders(book), Reach(Orders(book), order))
  <2>1. SumFunction([r \in reach |-> OrderOf(book, r).shares]) = n
    <3>1. reach = Reach(Orders(book), order)
      BY DEF Reach, Orders, Opposing, eligible
    <3>2. \A r \in reach : OrderOf(book, r).shares = Orders(book)[r].shares
      BY DEF Orders, Opposing
    <3> HIDE DEF reach
    <3>3. [r \in reach |-> OrderOf(book, r).shares]
            = [r \in reach |-> Orders(book)[r].shares]
      BY <3>2
    <3> QED BY <3>1, <3>3 DEF SharesOf
  <2> HIDE DEF reach, n
  <2> SUFFICES ASSUME pc = "done", order.type = "FOK"
               PROVE  /\ Filled \in {0, order.quantity}
                      /\ events.killed > 0 => n < order.quantity
    BY <2>1 DEF FOKAtomic, FOKAllOrNothing, reach
  <2>2. order \in Incoming /\ FilledIn(events) + events.rested + events.killed = order.quantity
        /\ (events.rested > 0 => order.type = "Limit")
    BY <1>4 DEF EngineInv, Accounted
  <2>3. events.killed > 0 => events.killed = order.quantity /\ n < order.quantity
    BY <1>4, <2>2 DEF FOKInv, n
  <2>4. /\ events.rested \in Nat /\ events.killed \in Nat
        /\ FilledIn(events) \in Nat /\ order.quantity \in Nat
    <3>1. events \in Events
      BY <1>4 DEF EngineInv
    <3>2. events.rested \in Nat /\ events.killed \in Nat
      BY <3>1, ShareAssumption DEF Events
    <3> QED BY <2>2, <3>1, <3>2, FilledType, IncomingFacts
  <2>5. FilledIn(events) = 0 \/ FilledIn(events) = order.quantity
    BY <2>2, <2>3, <2>4
  <2> QED BY <2>3, <2>5 DEF Filled, FilledIn
<1>5. Spec /\ []SidesFit(book) => []NoWrap(book)
  BY <1>2, EngineInvariant, PTL
<1>6. EngineInv /\ FOKInv => FOKAtomic
  BY <1>4
<1> QED BY <1>1, <1>3, <1>5, <1>6, EngineInvariant, EngineBestLeads, PTL DEF Spec
=============================================================================
