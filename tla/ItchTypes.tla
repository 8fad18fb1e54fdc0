----------------------------- MODULE ItchTypes ------------------------------
(***************************************************************************)
(* The ITCH message types and the length of their records (itch/types.hpp) *)
(* and what decode() asks of a record before it reads it.                  *)
(***************************************************************************)
EXTENDS Integers

MessageTypes ==
  {"SystemEvent", "StockDirectory", "AddOrder", "AddOrderMPID",
   "OrderExecuted", "OrderExecutedWithPrice", "OrderCancel", "OrderDelete",
   "OrderReplace", "Trade"}

wire_length(type) ==
  CASE type = "SystemEvent"            -> 12
    [] type = "StockDirectory"         -> 39
    [] type = "AddOrder"               -> 36
    [] type = "AddOrderMPID"           -> 40
    [] type = "OrderExecuted"          -> 31
    [] type = "OrderExecutedWithPrice" -> 36
    [] type = "OrderCancel"            -> 23
    [] type = "OrderDelete"            -> 19
    [] type = "OrderReplace"           -> 35
    [] type = "Trade"                  -> 44
    [] OTHER                           -> 0

(* Mutant: one byte too few is let through. *)
accepts_one_short(type, len) ==
  len > 0 /\ wire_length(type) # 0 /\ len + 1 >= wire_length(type)

(* decode() answers a message and not nullopt for a record of len bytes    *)
(* whose first one is the letter of type.                                  *)
accepts(type, len) ==
  len > 0 /\ wire_length(type) # 0 /\ len >= wire_length(type)
=============================================================================
