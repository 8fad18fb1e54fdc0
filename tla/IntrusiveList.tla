--------------------------- MODULE IntrusiveList ----------------------------
(***************************************************************************)
(* containers::IntrusiveList (containers/intrusive_list.hpp): several      *)
(* lists that link the same objects through the objects' own prev and next *)
(* members, as the levels of a book link the orders of one pool.           *)
(*                                                                         *)
(* A list value is [head, tail, size]; mem[n] is the object n, a record    *)
(* with members prev and next and possibly others.  Null is nullptr.  The  *)
(* operations are functions of both; PooledLists runs them.                *)
(***************************************************************************)
EXTENDS Integers, Sequences, FiniteSets

CONSTANTS
  Nodes,    \* the objects
  Null      \* nullptr

ASSUME NodesAssumption == Null \notin Nodes /\ IsFiniteSet(Nodes)

EmptyList == [head |-> Null, tail |-> Null, size |-> 0]

(* node->next = to and node->prev = to, skipped for a null node. *)
SetNext(mem, node, to) ==
  IF node = Null THEN mem ELSE [mem EXCEPT ![node].next = to]

SetPrev(mem, node, to) ==
  IF node = Null THEN mem ELSE [mem EXCEPT ![node].prev = to]

(* The operations answer the objects and the list they leave behind. *)
push_back(mem, list, n) ==
  [nodes |-> SetNext([mem EXCEPT ![n].prev = list.tail, ![n].next = Null],
                     list.tail, n),
   list  |-> [head |-> IF list.tail = Null THEN n ELSE list.head,
              tail |-> n,
              size |-> list.size + 1]]

(* Mutant: the old head does not learn of its new neighbour. *)
push_front_one_way(mem, list, n) ==
  [nodes |-> [mem EXCEPT ![n].next = list.head, ![n].prev = Null],
   list  |-> [head |-> n,
              tail |-> IF list.head = Null THEN n ELSE list.tail,
              size |-> list.size + 1]]

push_front(mem, list, n) ==
  [nodes |-> SetPrev([mem EXCEPT ![n].next = list.head, ![n].prev = Null],
                     list.head, n),
   list  |-> [head |-> n,
              tail |-> IF list.head = Null THEN n ELSE list.tail,
              size |-> list.size + 1]]

(* Mutant: the tail is not moved when the last node goes. *)
remove_keeps_tail(mem, list, n) ==
  LET before == mem[n].prev
      after  == mem[n].next
      joined == SetPrev(SetNext(mem, before, after), after, before)
  IN  [nodes |-> [joined EXCEPT ![n].prev = Null, ![n].next = Null],
       list  |-> [head |-> IF before = Null THEN after ELSE list.head,
                  tail |-> list.tail,
                  size |-> list.size - 1]]

remove(mem, list, n) ==
  LET before == mem[n].prev
      after  == mem[n].next
      joined == SetPrev(SetNext(mem, before, after), after, before)
  IN  [nodes |-> [joined EXCEPT ![n].prev = Null, ![n].next = Null],
       list  |-> [head |-> IF before = Null THEN after ELSE list.head,
                  tail |-> IF after = Null THEN before ELSE list.tail,
                  size |-> list.size - 1]]

(* A pointer leads to an object, and not to memory that is something else  *)
(* by now.                                                                 *)
IsNode(mem, n) == n # Null /\ "next" \in DOMAIN mem[n]

(* The nodes an iterator visits from begin() to end(), for every node it   *)
(* could begin at; the walk is cut after one node more than there are, so  *)
(* that a cycle shows.                                                     *)
Forward(mem, list) ==
  LET from[steps \in 0 .. Cardinality(Nodes)] ==
        [n \in Nodes \cup {Null} |->
           IF ~IsNode(mem, n) THEN <<>>
           ELSE <<n>> \o IF steps = 0 THEN <<>> ELSE from[steps - 1][mem[n].next]]
  IN  from[Cardinality(Nodes)][list.head]

(* The same walk along prev, from back(). *)
Backward(mem, list) ==
  LET from[steps \in 0 .. Cardinality(Nodes)] ==
        [n \in Nodes \cup {Null} |->
           IF ~IsNode(mem, n) THEN <<>>
           ELSE <<n>> \o IF steps = 0 THEN <<>> ELSE from[steps - 1][mem[n].prev]]
  IN  from[Cardinality(Nodes)][list.tail]

(* A list read backwards from back() is the reverse of the list read       *)
(* forwards from front(), and size() is its length.                        *)
Mirrored(mem, list) ==
  LET f == Forward(mem, list)
      n == Len(f)
  IN  /\ Backward(mem, list) = [i \in 1 .. n |-> f[n + 1 - i]]
      /\ list.size = n
=============================================================================
