--------------------------- MODULE NodeSequences ----------------------------
(***************************************************************************)
(* What containers::IntrusiveList promises: each list is a sequence of     *)
(* nodes, a node is in one list at most, and a removal keeps the order of  *)
(* the nodes that stay.                                                    *)
(***************************************************************************)
EXTENDS Integers, Sequences

CONSTANTS Nodes, Lists

VARIABLE seqs

In(n, s) == \E i \in DOMAIN s : s[i] = n

Unlinked(n) == \A l \in Lists : ~In(n, seqs[l])

Init == seqs = [l \in Lists |-> <<>>]

PushBack(l, n) == Unlinked(n) /\ seqs' = [seqs EXCEPT ![l] = Append(@, n)]

PushFront(l, n) == Unlinked(n) /\ seqs' = [seqs EXCEPT ![l] = <<n>> \o @]

Without(s, i) == [j \in 1 .. Len(s) - 1 |-> IF j < i THEN s[j] ELSE s[j + 1]]

Remove(l, n) ==
  \E i \in DOMAIN seqs[l] :
    seqs[l][i] = n /\ seqs' = [seqs EXCEPT ![l] = Without(@, i)]

Next == \E l \in Lists, n \in Nodes :
          PushBack(l, n) \/ PushFront(l, n) \/ Remove(l, n)

Spec == Init /\ [][Next]_seqs
=============================================================================
