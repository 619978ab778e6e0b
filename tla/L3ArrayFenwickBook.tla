--------------------------- MODULE L3ArrayFenwickBook ---------------------------
(* L3ArrayFenwickBook counts the active levels of each side in a Fenwick tree. *)
EXTENDS L3ArrayBook, FenwickTree

EmptyTree == [j \in 1 .. MaxIndex + 1 |-> 0]

TreeMarked(ix, i, active) == Add(ix, i, IF active THEN 1 ELSE -1)

\* Mutant of TreeBest: the lowest active level is taken on both sides.
TreeBestLowest(side, ix, active) ==
  IF SumAll(ix) = 0 THEN -1 ELSE FindByOrder(ix, 1)

\* The best bid is the last active level of the tree, the best ask the first.
TreeBest(side, ix, active) ==
  LET count == SumAll(ix)
  IN  IF count = 0 THEN -1
      ELSE FindByOrder(ix, IF side = "Bid" THEN count ELSE 1)

TreeOfActive(active) == TreeOf(MaxIndex + 1, active)
=============================================================================
