---------------------------- MODULE MCLinkedBook ----------------------------
(* LinkedBook for TLC, with two slots and so a hash table of two: the home *)
(* of the first reference is fixed, because turning the table changes      *)
(* nothing; the others are left open.                                      *)
EXTENDS LinkedBook

MCHashes == {h \in [Refs -> 0 .. 1] : h[1] = 0}
=============================================================================
