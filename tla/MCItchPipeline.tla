--------------------------- MODULE MCItchPipeline ---------------------------
(***************************************************************************)
(* ItchPipeline for TLC: messages that build, use and empty one order, and *)
(* records that decode() refuses, in an order in which swapping, losing or *)
(* repeating any of them changes the book.                                 *)
(***************************************************************************)
EXTENDS ItchPipeline

AddMsg     == [type |-> "AddOrder", ref |-> 1, indicator |-> "B",
               shares |-> 3, price |-> 3]
ExecMsg    == [type |-> "OrderExecuted", ref |-> 1, shares |-> 1]
CancelMsg  == [type |-> "OrderCancel", ref |-> 1, shares |-> 1]
ReplaceMsg == [type |-> "OrderReplace", ref |-> 1, new_ref |-> 2,
               shares |-> 2, price |-> 7]
DeleteMsg  == [type |-> "OrderDelete", ref |-> 2]
EventMsg   == [type |-> "SystemEvent"]
OtherMsg   == [type |-> "Unsupported"]

MCItems == {AddMsg, ExecMsg, CancelMsg, ReplaceMsg, DeleteMsg, EventMsg}

Frame(msg, extra) == [len |-> wire_length(msg.type) + extra, msg |-> msg]

(* A day's worth of one order, with a longer record than needed, one that  *)
(* is too short and one of an unsupported type, twice over.                *)
Day == <<Frame(EventMsg, 0), Frame(AddMsg, 0), Frame(ExecMsg, 2),
         Frame(OtherMsg, 20), Frame(CancelMsg, 0), Frame(ExecMsg, -1),
         Frame(ReplaceMsg, 0), Frame(DeleteMsg, 0)>>

LongStream == Day \o Day

FullSize == BytesUpTo([frames |-> LongStream], Len(LongStream))

(* The long stream, complete and cut inside its last record and inside the *)
(* length prefix before that; a stream of nothing.                         *)
MCStreams ==
  {[frames |-> LongStream, size |-> FullSize - cut] :
     cut \in {0, 1, 20}}
  \cup {[frames |-> <<>>, size |-> 0]}
=============================================================================
