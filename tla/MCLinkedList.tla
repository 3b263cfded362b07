---------------------------- MODULE MCLinkedList ----------------------------
(***************************************************************************)
(* LinkedList for TLC: a head and up to three more nodes, with values that *)
(* occur twice and with the value that marks the head.                     *)
(***************************************************************************)
EXTENDS LinkedList, TLC

\* One address is as good as another.
Symmetry == Permutations(Addr)

SmallValues == {-1, 4, 5}

=============================================================================
