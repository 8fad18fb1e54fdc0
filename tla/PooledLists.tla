---------------------------- MODULE PooledLists -----------------------------
(***************************************************************************)
(* ObjectPool and IntrusiveList as the book uses them together: objects    *)
(* are acquired, linked into one of several lists, unlinked and released.  *)
(* The links live in the objects, the free list in the same memory, so an  *)
(* error in either structure can reach the other.                          *)
(***************************************************************************)
EXTENDS ObjectPool, IntrusiveList

CONSTANTS
  Lists,
  Objects,    \* what a T with members prev and next may be
  NewNode     \* what acquire() constructs

Pointers == Nodes \cup {Null}

ASSUME PooledAssumption ==
  /\ Nodes = PoolSlots /\ Null = None
  /\ "pool" \notin Lists /\ "user" \notin Lists

(* The records of S have members prev and next that may hold any pointer,  *)
(* and are no free slots.                                                  *)
Linkable(S) ==
  \A o \in S :
    /\ {"prev", "next"} \subseteq DOMAIN o /\ "next_free" \notin DOMAIN o
    /\ o.prev \in Pointers /\ o.next \in Pointers
    /\ \A p \in Pointers : [o EXCEPT !.prev = p] \in S /\ [o EXCEPT !.next = p] \in S

ASSUME ObjectsAssumption == NewNode \in Objects /\ Linkable(Objects)

VARIABLES
  pool,
  lists,     \* head_, tail_ and size_ of every list
  owner      \* who has a slot: the pool, a user, or a list

pooledVars == <<pool, lists, owner>>

PooledInit ==
  /\ pool = NewPool
  /\ lists = [l \in Lists |-> EmptyList]
  /\ owner = [s \in PoolSlots |-> "pool"]

Acquire ==
  LET a == acquire(pool, NewNode)
  IN  /\ pool' = a.pool
      /\ owner' = [s \in PoolSlots |-> IF s = a.ptr THEN "user" ELSE owner[s]]
      /\ UNCHANGED lists

Release(s) ==
  /\ owner[s] = "user"
  /\ pool' = release(pool, s)
  /\ owner' = [owner EXCEPT ![s] = "pool"]
  /\ UNCHANGED lists

(* A call on list l that answers r gives slot s to a new owner. *)
Relink(r, l, s, to) ==
  /\ pool' = [pool EXCEPT !.slots = r.nodes]
  /\ lists' = [lists EXCEPT ![l] = r.list]
  /\ owner' = [owner EXCEPT ![s] = to]

PushBack(l, s) ==
  owner[s] = "user" /\ Relink(push_back(pool.slots, lists[l], s), l, s, l)

PushFront(l, s) ==
  owner[s] = "user" /\ Relink(push_front(pool.slots, lists[l], s), l, s, l)

Remove(l, s) ==
  owner[s] = l /\ Relink(remove(pool.slots, lists[l], s), l, s, "user")

PooledNext ==
  \/ Acquire
  \/ \E s \in PoolSlots : Release(s)
  \/ \E l \in Lists, s \in PoolSlots :
       PushBack(l, s) \/ PushFront(l, s) \/ Remove(l, s)

PooledSpec == PooledInit /\ [][PooledNext]_pooledVars

-----------------------------------------------------------------------------
Held == {s \in PoolSlots : owner[s] # "pool"}

Stack == INSTANCE SlotStack
           WITH free <- FreeChain(pool), live <- [s \in Held |-> pool.slots[s]]

Deques == INSTANCE NodeSequences
            WITH seqs <- [l \in Lists |-> Forward(pool.slots, lists[l])]

(* Whatever is acquired, linked, unlinked and released in whatever order,  *)
(* the slots are divided between their users and the free list, and every  *)
(* list reads the same in both directions: a one-sided relinking shows     *)
(* here long before a removal trips over it.                               *)
LinksSound ==
  /\ Partitioned(pool, Held)
  /\ \A l \in Lists : Mirrored(pool.slots, lists[l])

(* The pool is a stack of slots, last released first acquired; it never    *)
(* touches an object between the acquire and the release of its slot, and  *)
(* no relinking reaches its free list.                                     *)
ImplementsStack == Stack!Spec

(* The lists behave as sequences under any interleaving of pushes at both  *)
(* ends and removals anywhere: no node is lost, repeated or reordered, no  *)
(* call reaches into another list through a stale link, and acquiring and  *)
(* releasing other nodes changes nothing.                                  *)
ImplementsSequences == Deques!Spec
=============================================================================
