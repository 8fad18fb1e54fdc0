----------------------------- MODULE SlotStack ------------------------------
(***************************************************************************)
(* What containers::ObjectPool promises: slots are handed out from a stack *)
(* of free ones, and an object stays as its user left it until it is       *)
(* released.                                                               *)
(***************************************************************************)
EXTENDS Integers, Sequences

CONSTANTS PoolCapacity, Objects

VARIABLES
  free,    \* the free slots, next to be handed out first
  live     \* the objects in use, by slot

Init ==
  /\ free = [i \in 1 .. PoolCapacity |-> i]
  /\ live = [s \in {} |-> 0]

Acquire(v) ==
  /\ free # <<>>
  /\ free' = Tail(free)
  /\ live' = [s \in DOMAIN live \cup {Head(free)} |->
                IF s = Head(free) THEN v ELSE live[s]]

(* The users write to their objects. *)
Write ==
  /\ live' \in [DOMAIN live -> Objects]
  /\ UNCHANGED free

Release(s) ==
  /\ s \in DOMAIN live
  /\ live' = [u \in DOMAIN live \ {s} |-> live[u]]
  /\ free' = <<s>> \o free

Next ==
  \/ \E v \in Objects : Acquire(v)
  \/ \E s \in 1 .. PoolCapacity : Release(s)
  \/ Write

Spec == Init /\ [][Next]_<<free, live>>
=============================================================================
