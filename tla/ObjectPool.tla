----------------------------- MODULE ObjectPool -----------------------------
(***************************************************************************)
(* containers::ObjectPool (containers/object_pool.hpp): a fixed array of   *)
(* slots whose free ones are linked through the memory of the objects.     *)
(* The operations are functions of a pool value; PooledLists runs them.    *)
(*                                                                         *)
(* A pool value p is [slots, free_head, size].  A slot is a union: it is   *)
(* [next_free |-> index] while it is free and the object, a record without *)
(* that member, while it is in use.  Slots are numbered from 1; None is    *)
(* kNone, and nullptr as the answer of acquire.                            *)
(***************************************************************************)
EXTENDS Integers, Sequences, FiniteSets

CONSTANT PoolCapacity    \* the constructor's capacity

ASSUME PoolAssumption == PoolCapacity \in Nat

None == 0

PoolSlots == 1 .. PoolCapacity

FreeSlot(next) == [next_free |-> next]

InUse(slot) == "next_free" \notin DOMAIN slot

(* The pool as the constructor leaves it. *)
NewPool ==
  [slots |-> [i \in PoolSlots |-> FreeSlot(IF i < PoolCapacity THEN i + 1 ELSE None)],
   free_head |-> IF PoolCapacity > 0 THEN 1 ELSE None,
   size |-> 0]

(* Mutant: the next free slot is taken to be the next one of the array. *)
acquire_next_index(p, v) ==
  IF p.free_head = None
  THEN [ptr |-> None, pool |-> p]
  ELSE [ptr |-> p.free_head,
        pool |-> [slots     |-> [p.slots EXCEPT ![p.free_head] = v],
                  free_head |-> IF p.free_head = PoolCapacity THEN None
                                ELSE p.free_head + 1,
                  size      |-> p.size + 1]]

acquire(p, v) ==
  IF p.free_head = None
  THEN [ptr |-> None, pool |-> p]
  ELSE [ptr |-> p.free_head,
        pool |-> [slots     |-> [p.slots EXCEPT ![p.free_head] = v],
                  free_head |-> p.slots[p.free_head].next_free,
                  size      |-> p.size + 1]]

release(p, ptr) ==
  [slots     |-> [p.slots EXCEPT ![ptr] = FreeSlot(p.free_head)],
   free_head |-> ptr,
   size      |-> p.size - 1]

(* The free list from its head; the walk is cut after one slot more than   *)
(* there are, and where it runs into an object.                            *)
FreeChain(p) ==
  LET from[steps \in 0 .. PoolCapacity] ==
        [i \in PoolSlots \cup {None} |->
           IF i = None \/ InUse(p.slots[i]) THEN <<>>
           ELSE <<i>> \o IF steps = 0 THEN <<>>
                         ELSE from[steps - 1][p.slots[i].next_free]]
  IN  from[PoolCapacity][p.free_head]

(* Every slot is either in use or on the free list, once: none is lost,    *)
(* none can be handed out twice, the chain of links has no cycle and never *)
(* enters a live object; size() is the number in use, so acquire answers   *)
(* nullptr exactly when the pool is full.                                  *)
Partitioned(p, used) ==
  LET chain == FreeChain(p) IN
  /\ {chain[i] : i \in DOMAIN chain} = PoolSlots \ used
  /\ Len(chain) = PoolCapacity - Cardinality(used)
  /\ p.size = Cardinality(used)
  /\ p.free_head = None <=> p.size = PoolCapacity
=============================================================================
