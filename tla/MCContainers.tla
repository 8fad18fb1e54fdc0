---------------------------- MODULE MCContainers ----------------------------
(***************************************************************************)
(* HashMap and PooledLists for TLC, side by side.  They share no state, so *)
(* a behaviour that interleaves them shows nothing that one of them alone  *)
(* does not: each behaviour works on one and leaves the other as it is,    *)
(* the lists under one hash function.                                      *)
(*                                                                         *)
(* The table is a ring: turning it moves the homes of all keys by the same *)
(* amount and changes nothing else, so the home of key 0 is fixed.  The    *)
(* other keys differ in nothing but their homes, so exchanging two of them *)
(* changes nothing either, and their homes are taken in order.             *)
(***************************************************************************)
EXTENDS HashMap, PooledLists

(* Objects that are nothing but their links. *)
MCObjects == [prev : Pointers, next : Pointers]

MCNewNode == [prev |-> Null, next |-> Null]

MCHashes ==
  {h \in Homes : /\ h[0] = 0
                 /\ \A j, k \in Keys \ {0} : j < k => h[j] <= h[k]}

Init == MapInit /\ PooledInit

Next ==
  \/ MapNext /\ PooledInit /\ UNCHANGED pooledVars
  \/ PooledNext /\ map = EmptyMap([k \in Keys |-> 0]) /\ UNCHANGED map

Spec == Init /\ [][Next]_<<map, pooledVars>>
=============================================================================
