----------------------------- MODULE BoundedFifo ----------------------------
(***************************************************************************)
(* What a single-producer single-consumer queue promises: items leave in   *)
(* the order they entered, each once, and never more than Bound of them    *)
(* are inside.                                                             *)
(***************************************************************************)
EXTENDS Integers, Sequences

CONSTANTS Items, NoItem, Bound

VARIABLES
  fifo,    \* the items inside, oldest first
  taken    \* what the last successful pop returned

Init == fifo = <<>> /\ taken = NoItem

Push(item) ==
  /\ Len(fifo) < Bound
  /\ fifo' = Append(fifo, item)
  /\ UNCHANGED taken

Pop ==
  /\ fifo # <<>>
  /\ taken' = Head(fifo)
  /\ fifo' = Tail(fifo)

Next == (\E item \in Items : Push(item)) \/ Pop

Spec == Init /\ [][Next]_<<fifo, taken>>
=============================================================================
