---------------------------- MODULE MCArrayBitsetBook ----------------------------
(* A model-checking instance of L3ArrayBitsetBook and of its refinement of L3Book. *)
EXTENDS L3ArrayBitsetBook, L3BookRefines

\* The arrays accept the prices they have a slot for.
ASSUME AcceptsTickPrices == Accepted = TickPrice

\* Order ids are only compared for equality.
Symmetry == Permutations(OrderId)
=============================================================================
