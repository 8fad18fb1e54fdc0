---------------------------- MODULE SynthStream -----------------------------
(***************************************************************************)
(* itch::generate (itch/synth.cpp): a random but self-consistent stream of *)
(* ITCH records, each encoded byte by byte.  Every record that is written  *)
(* is decoded again and applied to a book, as the integration tests do, so *)
(* that generator, encoder, decoder and book are checked against one       *)
(* another.  Every draw of the random engine is a free choice.             *)
(***************************************************************************)
EXTENDS OrderBookOps, ItchCodec

CONSTANTS
  Symbols,      \* config.symbols, as a sequence of texts
  NumOrders,    \* config.num_orders
  BasePrice,    \* config.base_price
  Jitters,      \* what jitter_dist draws
  ShareDraws,   \* what shares_dist draws
  MaxRef        \* bound: replaces and trades leave references for the adds

ASSUME SynthAssumption ==
  /\ Symbols \in Seq(Seq(0 .. ByteSpan - 1))
  /\ MaxRef \in Nat /\ Refs = 1 .. MaxRef /\ NumOrders \in 1 .. MaxRef
  /\ BasePrice \in 0 .. PriceSpan - 1 /\ Jitters \subseteq Int
  /\ ShareDraws \subseteq 1 .. ShareSpan - 1

VARIABLES
  phase,               \* "start", "directory", "flow" or "done"
  listed,              \* how many Stock Directory messages have been written
  tracking,            \* tracking
  ts,                  \* ts
  next_order_ref,      \* next_order_ref
  next_match_number,   \* next_match_number
  live_orders,         \* live_orders
  orders_added,        \* orders_added
  meant,               \* the message the last record was built from
  written,             \* the bytes write_framed wrote last
  book                 \* the book the records have been applied to

synthVars == <<phase, listed, tracking, ts, next_order_ref, next_match_number,
               live_orders, orders_added, meant, written, book>>

flowVars == <<phase, listed>>

(* symbol_dist: an empty list of symbols draws 0 all the same. *)
SymbolIndices == 0 .. (IF Symbols = <<>> THEN 0 ELSE Len(Symbols) - 1)

(* A StockLocate has two bytes. *)
Locate(symbol_index) == (symbol_index + 1) % (ByteSpan * ByteSpan)

(* The characters of a text, given by their ASCII codes, as bytes. *)
Chr(code) == code % ByteSpan

Text(codes) == [i \in DOMAIN codes |-> Chr(codes[i])]

TextTest == Text(<<84, 69, 83, 84>>)     \* "TEST"
TextEdgx == Text(<<69, 68, 71, 88>>)     \* "EDGX"

SymbolText(symbol_index) ==
  append_str_padded(IF Symbols = <<>> THEN TextTest ELSE Symbols[symbol_index + 1], 8)

Letters == [B |-> Chr(66), S |-> Chr(83)]    \* buy_sell_indicator

(* How OrderBook::apply reads a decoded message. *)
BookMessage(msg) ==
  CASE msg.type \in AddTypes ->
         [type |-> msg.type, ref |-> msg.order_reference_number,
          indicator |-> IF msg.buy_sell_indicator = Letters.B THEN "B" ELSE "S",
          shares |-> msg.shares, price |-> msg.price]
    [] msg.type = "OrderExecuted" ->
         [type |-> msg.type, ref |-> msg.order_reference_number,
          shares |-> msg.executed_shares]
    [] msg.type = "OrderCancel" ->
         [type |-> msg.type, ref |-> msg.order_reference_number,
          shares |-> msg.cancelled_shares]
    [] msg.type = "OrderDelete" ->
         [type |-> msg.type, ref |-> msg.order_reference_number]
    [] msg.type = "OrderReplace" ->
         [type |-> msg.type, ref |-> msg.original_order_reference_number,
          new_ref |-> msg.new_order_reference_number, shares |-> msg.shares,
          price |-> msg.price]
    [] OTHER -> [type |-> msg.type]

(* write_framed and the reader behind it: the record without its prefix.   *)
Emit(type, locate, payload) ==
  LET msg    == And([type |-> type, stock_locate |-> locate,
                     tracking_number |-> tracking, timestamp |-> ts + 1000],
                    payload)
      record == encode(msg)
      got    == decode(record)
  IN  /\ meant' = msg
      /\ written' = write_framed(record)
      /\ tracking' = (tracking + 1) % (ByteSpan * ByteSpan)
      /\ ts' = ts + 1000
      /\ book' = IF got = NoMessage THEN book ELSE apply(book, BookMessage(got))

-----------------------------------------------------------------------------
SynthInit ==
  /\ phase = "start" /\ listed = 0
  /\ tracking = 1 /\ ts = 0
  /\ next_order_ref = 1 /\ next_match_number = 1
  /\ live_orders = [r \in {} |-> 0] /\ orders_added = 0
  /\ meant = NoMessage /\ written = <<>>
  /\ book = EmptyBook

Start ==
  /\ phase = "start"
  /\ Emit("SystemEvent", 0, [event_code |-> Chr(79)])
  /\ phase' = "directory"
  /\ UNCHANGED <<listed, next_order_ref, next_match_number, live_orders, orders_added>>

Directory ==
  /\ phase = "directory"
  /\ \/ /\ listed < Len(Symbols)
        /\ Emit("StockDirectory", Locate(listed),
                [stock |-> SymbolText(listed), market_category |-> Chr(81),
                 financial_status_indicator |-> Chr(78), round_lot_size |-> 100,
                 round_lots_only |-> Chr(89), issue_classification |-> Chr(67),
                 issue_subtype |-> append_str_padded(<<>>, 2),
                 authenticity |-> Chr(80), short_sale_threshold_indicator |-> Chr(78),
                 ipo_flag |-> Chr(78), luld_reference_price_tier |-> Chr(49),
                 etp_flag |-> Chr(78), etp_leverage_factor |-> 0,
                 inverse_indicator |-> Chr(78)])
        /\ listed' = listed + 1
        /\ UNCHANGED phase
     \/ /\ listed = Len(Symbols)
        /\ phase' = "flow"
        /\ UNCHANGED <<listed, tracking, ts, meant, written, book>>
  /\ UNCHANGED <<next_order_ref, next_match_number, live_orders, orders_added>>

(* The loop runs on, and there is a reference left for what it does. *)
InFlow == phase = "flow" /\ orders_added < NumOrders

Spare == next_order_ref + (NumOrders - orders_added) <= MaxRef

With(orders, ref, o) == And(orders, [r \in {ref} |-> o])

Without(orders, ref) == [r \in DOMAIN orders \ {ref} |-> orders[r]]

(* action < 55, and the only choice while no order is live. *)
AddOrder(symbol_index, side, shares, jitter, with_mpid) ==
  LET price == (BasePrice + jitter) % PriceSpan
      add   == [order_reference_number |-> next_order_ref,
                buy_sell_indicator |-> Letters[side], shares |-> shares,
                stock |-> SymbolText(symbol_index), price |-> price]
  IN  /\ InFlow
      /\ IF with_mpid
         THEN Emit("AddOrderMPID", Locate(symbol_index),
                   And(add, [attribution |-> TextEdgx]))
         ELSE Emit("AddOrder", Locate(symbol_index), add)
      /\ live_orders' = With(live_orders, next_order_ref,
                             [symbol_index |-> symbol_index,
                              remaining_shares |-> shares, price |-> price,
                              side |-> side])
      /\ next_order_ref' = next_order_ref + 1
      /\ orders_added' = orders_added + 1
      /\ UNCHANGED <<flowVars, next_match_number>>

(* Mutant: an order that has no shares left stays live. *)
Left_kept(ref, n) == [live_orders EXCEPT ![ref].remaining_shares = @ - n]

(* live_orders when n shares of order ref are gone. *)
Left(ref, n) ==
  IF n = live_orders[ref].remaining_shares
  THEN Without(live_orders, ref)
  ELSE [live_orders EXCEPT ![ref].remaining_shares = @ - n]

Execute(symbol_index, ref, draw) ==
  LET n == Min({live_orders[ref].remaining_shares, draw})
  IN  /\ InFlow
      /\ Emit("OrderExecuted", Locate(symbol_index),
              [order_reference_number |-> ref, executed_shares |-> n,
               match_number |-> next_match_number])
      /\ next_match_number' = next_match_number + 1
      /\ live_orders' = Left(ref, n)
      /\ UNCHANGED <<flowVars, next_order_ref, orders_added>>

Cancel(symbol_index, ref, draw) ==
  LET n == Min({live_orders[ref].remaining_shares, draw})
  IN  /\ InFlow
      /\ Emit("OrderCancel", Locate(symbol_index),
              [order_reference_number |-> ref, cancelled_shares |-> n])
      /\ live_orders' = Left(ref, n)
      /\ UNCHANGED <<flowVars, next_match_number, next_order_ref, orders_added>>

Delete(symbol_index, ref) ==
  /\ InFlow
  /\ Emit("OrderDelete", Locate(symbol_index), [order_reference_number |-> ref])
  /\ live_orders' = Without(live_orders, ref)
  /\ UNCHANGED <<flowVars, next_match_number, next_order_ref, orders_added>>

(* The new price moves from the order's last one, so a chain of replaces   *)
(* can leave the spread around base_price, and wrap.                       *)
Replace(symbol_index, ref, shares, jitter) ==
  LET price == (live_orders[ref].price + jitter) % PriceSpan
  IN  /\ InFlow /\ Spare
      /\ Emit("OrderReplace", Locate(symbol_index),
              [original_order_reference_number |-> ref,
               new_order_reference_number |-> next_order_ref,
               shares |-> shares, price |-> price])
      /\ live_orders' = With(Without(live_orders, ref), next_order_ref,
                             [live_orders[ref] EXCEPT !.remaining_shares = shares,
                                                      !.price = price])
      /\ next_order_ref' = next_order_ref + 1
      /\ UNCHANGED <<flowVars, next_match_number, orders_added>>

Trade(symbol_index, ref, side, shares) ==
  /\ InFlow /\ Spare
  /\ Emit("Trade", Locate(symbol_index),
          [order_reference_number |-> next_order_ref,
           buy_sell_indicator |-> Letters[side], shares |-> shares,
           stock |-> SymbolText(symbol_index), price |-> live_orders[ref].price,
           match_number |-> next_match_number])
  /\ next_order_ref' = next_order_ref + 1
  /\ next_match_number' = next_match_number + 1
  /\ UNCHANGED <<flowVars, live_orders, orders_added>>

End ==
  /\ phase = "flow" /\ orders_added = NumOrders
  /\ Emit("SystemEvent", 0, [event_code |-> Chr(67)])
  /\ phase' = "done"
  /\ UNCHANGED <<listed, next_order_ref, next_match_number, live_orders, orders_added>>

Done == phase = "done" /\ UNCHANGED synthVars

SynthNext ==
  \/ Start \/ Directory \/ End \/ Done
  \/ \E i \in SymbolIndices :
       \/ \E side \in {"B", "S"}, n \in ShareDraws, j \in Jitters, mpid \in BOOLEAN :
            AddOrder(i, side, n, j, mpid)
       \/ \E ref \in DOMAIN live_orders :
            \/ \E n \in ShareDraws : Execute(i, ref, n) \/ Cancel(i, ref, n)
            \/ Delete(i, ref)
            \/ \E n \in ShareDraws, j \in Jitters : Replace(i, ref, n, j)
            \/ \E side \in {"B", "S"}, n \in ShareDraws : Trade(i, ref, side, n)

SynthSpec == SynthInit /\ [][SynthNext]_synthVars

-----------------------------------------------------------------------------
(* Every record can be read back: its two-byte prefix is the number of     *)
(* bytes behind it and the wire_length of its type, and decode() finds in  *)
(* those bytes the message that generate() meant (append_*, write_framed). *)
WireExact ==
  meant # NoMessage =>
    LET record == SubSeq(written, 3, Len(written)) IN
    /\ read_be(written, 0, 2) = Len(record)
    /\ Len(record) = wire_length(meant.type)
    /\ decode(record) = meant

(* The orders resting in the book, with what the generator keeps of them.  *)
Resting ==
  {<<r, OrderOf(book, r).price, OrderOf(book, r).shares, OrderOf(book, r).side>> :
     r \in {r \in Refs : Live(book, r)}}

(* Replaying the stream builds exactly the orders the generator believes   *)
(* to be live: every message refers to an order that an earlier one has    *)
(* created and none has removed, and takes no more shares than are left,   *)
(* so no call of the book is refused (the self-consistency that synth.hpp  *)
(* promises).                                                              *)
StreamConsistent ==
  Resting = {<<r, live_orders[r].price, live_orders[r].remaining_shares,
               IF live_orders[r].side = "B" THEN "buy" ELSE "sell">> :
                 r \in DOMAIN live_orders}
=============================================================================
