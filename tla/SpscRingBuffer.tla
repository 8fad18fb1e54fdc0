--------------------------- MODULE SpscRingBuffer ---------------------------
(***************************************************************************)
(* containers::SpscRingBuffer (containers/spsc_ring_buffer.hpp): a push()  *)
(* and a pop() running in two threads, each split where the other thread   *)
(* can see a difference: the acquire load of the other side's index, the   *)
(* access to the slot, the release store of the own index.                 *)
(*                                                                         *)
(* An acquire load need not return the latest store: it returns any value  *)
(* of the index's modification order from the last one the thread has seen *)
(* on.  seen_read and seen_write are those last values.                    *)
(***************************************************************************)
EXTENDS Integers, PowersOfTwo

CONSTANTS
  Items,         \* the values of type T that are pushed
  NoItem,        \* T{}, what make_unique fills the buffer with
  RingCapacity,  \* the constructor's argument
  IndexSpan      \* number of values of std::size_t (2^64 in the code)

(* Mutant: the capacity is used as it is given. *)
round_up_not_at_all(n) == IF n <= 1 THEN 1 ELSE n

round_up_to_power_of_two(n) ==
  IF n <= 1 THEN 1 ELSE CHOOSE c \in n .. 2 * n - 1 : IsPowerOfTwo(c)

Capacity == round_up_to_power_of_two(RingCapacity)

ASSUME RingAssumption ==
  /\ RingCapacity \in Nat
  /\ IndexSpan \in Nat /\ IsPowerOfTwo(IndexSpan) /\ IndexSpan > 1
  /\ 2 * RingCapacity <= IndexSpan    \* else the shift overflows
  /\ NoItem \notin Items

VARIABLES
  buffer,       \* buffer_
  write_index,  \* write_index_
  read_index,   \* read_index_
  seen_read,    \* the read_index_ the producer has seen last
  seen_write,   \* the write_index_ the consumer has seen last
  push_pc,      \* where push() is: "idle" (not called), "write", "store"
  pushing,      \* its argument
  pop_pc,       \* where pop() is: "idle", "read", "store"
  out,          \* its local copy of the slot
  taken         \* what the last successful pop() returned

pushVars == <<push_pc, pushing, seen_read, write_index>>
popVars  == <<pop_pc, out, seen_write, read_index, taken>>
ringVars == <<buffer, pushVars, popVars>>

(* Index arithmetic wraps with the width of size_t. *)
Succ(i)    == (i + 1) % IndexSpan
Dist(i, j) == (j - i) % IndexSpan

(* index & mask_, where mask_ = capacity_ - 1. *)
PhysicalSlot(i) == i % Capacity

(* What a load may return: the last value seen, or any stored since. *)
Visible(seen, current) == {(seen + k) % IndexSpan : k \in 0 .. Dist(seen, current)}

RingInit ==
  /\ buffer = [i \in 0 .. Capacity - 1 |-> NoItem]
  /\ write_index = 0 /\ read_index = 0
  /\ seen_read = 0 /\ seen_write = 0
  /\ push_pc = "idle" /\ pushing = NoItem
  /\ pop_pc = "idle" /\ out = NoItem
  /\ taken = NoItem

-----------------------------------------------------------------------------
(* push() *)

(* Mutant: one item more than there are slots. *)
Full_off_by_one(write, read) == Dist(read, write) > Capacity

Full(write, read) == Dist(read, write) >= Capacity

(* The load of read_index_ returns r; a full buffer ends the call. *)
PushLoad(item, r) ==
  /\ push_pc = "idle"
  /\ seen_read' = r
  /\ \/ Full(write_index, r) /\ UNCHANGED <<push_pc, pushing>>
     \/ ~Full(write_index, r) /\ push_pc' = "write" /\ pushing' = item
  /\ UNCHANGED <<buffer, write_index, popVars>>

PushWrite ==
  /\ push_pc = "write"
  /\ buffer' = [buffer EXCEPT ![PhysicalSlot(write_index)] = pushing]
  /\ push_pc' = "store"
  /\ UNCHANGED <<pushing, seen_read, write_index, popVars>>

PushStore ==
  /\ push_pc = "store"
  /\ write_index' = Succ(write_index)
  /\ push_pc' = "idle" /\ pushing' = NoItem
  /\ UNCHANGED <<buffer, seen_read, popVars>>

-----------------------------------------------------------------------------
(* pop() *)

(* The load of write_index_ returns w; an empty buffer ends the call. *)
PopLoad(w) ==
  /\ pop_pc = "idle"
  /\ seen_write' = w
  /\ pop_pc' = IF w = read_index THEN "idle" ELSE "read"
  /\ UNCHANGED <<buffer, out, read_index, taken, pushVars>>

PopRead ==
  /\ pop_pc = "read"
  /\ out' = buffer[PhysicalSlot(read_index)]
  /\ pop_pc' = "store"
  /\ UNCHANGED <<buffer, seen_write, read_index, taken, pushVars>>

PopStore ==
  /\ pop_pc = "store"
  /\ read_index' = Succ(read_index)
  /\ taken' = out
  /\ pop_pc' = "idle" /\ out' = NoItem
  /\ UNCHANGED <<buffer, seen_write, pushVars>>

-----------------------------------------------------------------------------
(* Two threads that keep pushing and popping. *)

Push ==
  \/ \E item \in Items, r \in Visible(seen_read, read_index) : PushLoad(item, r)
  \/ PushWrite
  \/ PushStore

Pop ==
  \/ \E w \in Visible(seen_write, write_index) : PopLoad(w)
  \/ PopRead
  \/ PopStore

RingNext == Push \/ Pop

RingSpec == RingInit /\ [][RingNext]_ringVars

-----------------------------------------------------------------------------
(* Every index is a size_t and every slot holds an item or T{}; there are  *)
(* never more items inside than slots, and what one thread has seen of the *)
(* other's index lags behind by no more than that.                         *)
RingTypeOK ==
  /\ buffer \in [0 .. Capacity - 1 -> Items \cup {NoItem}]
  /\ {write_index, read_index, seen_read, seen_write}
       \subseteq 0 .. IndexSpan - 1
  /\ push_pc \in {"idle", "write", "store"}
  /\ pop_pc \in {"idle", "read", "store"}
  /\ {pushing, out, taken} \subseteq Items \cup {NoItem}
  /\ Dist(read_index, seen_write) <= Dist(read_index, write_index)
  /\ Dist(read_index, write_index) <= Dist(seen_read, write_index)
  /\ Dist(seen_read, write_index) <= Capacity

(* No data race: push() never writes the slot that pop() may be copying    *)
(* from, however stale the index either of them works with is.             *)
RaceFree ==
  ~(/\ push_pc = "write" /\ pop_pc = "read"
    /\ PhysicalSlot(write_index) = PhysicalSlot(read_index))

(* The ring implements a FIFO queue of at most Capacity items: a push      *)
(* takes effect when it stores write_index_, a pop when it stores          *)
(* read_index_, also across the wrap of both indices.                      *)
Inside ==
  [i \in 1 .. Dist(read_index, write_index) |->
     buffer[PhysicalSlot((read_index + i - 1) % IndexSpan)]]

Fifo == INSTANCE BoundedFifo WITH fifo <- Inside, Bound <- Capacity

ImplementsFifo == Fifo!Spec
=============================================================================
