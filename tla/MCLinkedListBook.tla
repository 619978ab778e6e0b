---------------------------- MODULE MCLinkedListBook ----------------------------
(* A model-checking instance of L3LinkedListBook and of its refinement of L3Book. *)
EXTENDS L3LinkedListBook, L3BookRefines

\* The lists accept any price.
ASSUME AcceptsEveryPrice == Accepted = Price

\* Order ids are only compared for equality.
Symmetry == Permutations(OrderId)
=============================================================================
