----------------------------- MODULE BoundedMap -----------------------------
(***************************************************************************)
(* What containers::OpenAddressingHashMap promises its callers: a partial  *)
(* function from keys to values that refuses a key it already holds, and   *)
(* every new key once Limit keys are live.                                 *)
(***************************************************************************)
EXTENDS Integers, FiniteSets

CONSTANTS Keys, Values, Limit

VARIABLE content    \* the live keys' values

insert_ok(c, key) == key \notin DOMAIN c /\ Cardinality(DOMAIN c) < Limit

erase_ok(c, key) == key \in DOMAIN c

Init == content = [k \in {} |-> 0]

Insert(key, value) ==
  /\ insert_ok(content, key)
  /\ content' = [k \in DOMAIN content \cup {key} |->
                   IF k = key THEN value ELSE content[k]]

Erase(key) ==
  /\ erase_ok(content, key)
  /\ content' = [k \in DOMAIN content \ {key} |-> content[k]]

Next ==
  \/ \E k \in Keys, v \in Values : Insert(k, v)
  \/ \E k \in Keys : Erase(k)

Spec == Init /\ [][Next]_content
=============================================================================
