--------------------------------- MODULE MCBook ---------------------------------
(* A model-checking instance of L3Book, the contract of the order books. *)
EXTENDS L3Book

\* Order ids are only compared for equality.
Symmetry == Permutations(OrderId)
=============================================================================
