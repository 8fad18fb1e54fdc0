------------------------------ MODULE Framing -------------------------------
(***************************************************************************)
(* Length-prefixed records, as ItchFileReader and run_itch_pipeline walk   *)
(* them.  A stream s of bytes is [frames, size]: the records its bytes     *)
(* were framed from, each of len bytes behind a prefix of two, and the     *)
(* number of bytes there are, which may end inside the last records.       *)
(***************************************************************************)
EXTENDS Integers, Sequences, Functions

(* The bytes of the first k records and their prefixes. *)
BytesUpTo(s, k) == SumFunction([i \in 1 .. k |-> 2 + s.frames[i].len])

(* A stream ends within the bytes its records were framed to. *)
IsFramed(s) ==
  /\ Len(s.frames) \in Nat
  /\ \A i \in 1 .. Len(s.frames) : s.frames[i].len \in Nat
  /\ s.size \in 0 .. BytesUpTo(s, Len(s.frames))
=============================================================================
