------------------------------- MODULE MCMapBook -------------------------------
(* Model-checking instances of L3MapBook and of its refinement of L3Book. *)
EXTENDS L3MapBook, L3BookRefines

\* The maps accept any price.
ASSUME AcceptsEveryPrice == Accepted = Price

\* Order ids are only compared for equality.
Symmetry == Permutations(OrderId)
=============================================================================
