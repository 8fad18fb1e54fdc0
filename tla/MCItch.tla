------------------------------- MODULE MCItch -------------------------------
(***************************************************************************)
(* SynthStream, ItchRecords and ItchFileReader for TLC, side by side: they *)
(* share the codec and the message types and no state, so each behaviour   *)
(* is one of the three.                                                    *)
(*                                                                         *)
(* With sixteen values per byte the high byte of an eight-byte field stays *)
(* within TLC's integers, so every byte of every field is reached.  The    *)
(* ASCII codes of some message types would coincide in that range, so the  *)
(* types are numbered instead.                                             *)
(***************************************************************************)
EXTENDS SynthStream, ItchRecords, ItchFileReader, TLC

MCLetter ==
  [SystemEvent |-> 2, StockDirectory |-> 3, AddOrder |-> 4, AddOrderMPID |-> 5,
   OrderExecuted |-> 6, OrderExecutedWithPrice |-> 7, OrderCancel |-> 8,
   OrderDelete |-> 9, OrderReplace |-> 10, Trade |-> 11]

MCSymbols == <<Text(<<65, 65, 80, 76>>)>>     \* AAPL

MCRefs == 1 .. MaxRef

MCJitters == {-1, 0}

Frame(type, len) == [type |-> type, len |-> len]

(* A record to decode, one of an unsupported type, one too short, an empty *)
(* one, and a last one that is whole or cut off.                           *)
Records == <<Frame("OrderDelete", 19), Frame("unsupported", 5),
             Frame("AddOrder", 35), Frame("unsupported", 0),
             Frame("SystemEvent", 13)>>

(* An empty file, and those records whole, cut in the last of them and cut *)
(* in its length prefix.                                                   *)
MCFiles ==
  {[frames |-> <<>>, size |-> 0]}
  \cup {[frames |-> Records, size |-> BytesUpTo([frames |-> Records], 5) - cut] :
          cut \in {0, 1, 14}}

Symmetry == Permutations(Addresses)

MCInit == SynthInit /\ RecordInit /\ Init

MCNext ==
  \/ RecordInit /\ Init /\ SynthNext /\ UNCHANGED <<raw, vars>>
  \/ SynthInit /\ Init /\ RecordNext /\ UNCHANGED <<synthVars, vars>>
  \/ SynthInit /\ RecordInit /\ Next /\ UNCHANGED <<synthVars, raw>>

MCSpec == MCInit /\ [][MCNext]_<<synthVars, raw, vars>>
=============================================================================
