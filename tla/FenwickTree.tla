------------------------------ MODULE FenwickTree ------------------------------
(***************************************************************************)
(* l3detail::FenwickTree.  A tree over n indices is the sequence of n sums *)
(* tree_[1..n]; node j holds the sum of the LowBit[j] indices up to j.     *)
(***************************************************************************)
EXTENDS Integers, Sequences, FiniteSets

\* i & -i
LowBit[i \in Nat \ {0}] == IF i % 2 = 1 THEN 1 ELSE 2 * LowBit[i \div 2]

\* Mutant of NodesAbove: the walk of add() stops short of the last node.
NodesAboveShort(n, i) ==
  LET above[j \in Nat \ {0}] == IF j >= n THEN {} ELSE {j} \cup above[j + LowBit[j]]
  IN  above[i]

\* The nodes that add() visits, starting from node i.
NodesAbove(n, i) ==
  LET above[j \in Nat \ {0}] == IF j > n THEN {} ELSE {j} \cup above[j + LowBit[j]]
  IN  above[i]

\* add(index, delta), with a zero-based index.
Add(tree, index, delta) ==
  LET visited == NodesAbove(Len(tree), index + 1)
  IN  [j \in DOMAIN tree |-> IF j \in visited THEN tree[j] + delta ELSE tree[j]]

SumAll(tree) ==
  LET sum[i \in 0 .. Len(tree)] == IF i = 0 THEN 0 ELSE tree[i] + sum[i - LowBit[i]]
  IN  sum[Len(tree)]

\* The largest power of two that is a node of the tree: where the search starts.
TopBit(n) ==
  LET grown[bit \in Nat] == IF 2 * bit <= n THEN grown[2 * bit] ELSE bit
  IN  grown[1]

\* Mutant of Skips: the search goes past the node that reaches the order.
SkipsReached(tree, next, remaining) == next <= Len(tree) /\ tree[next] <= remaining

\* The index searched for lies behind node next.
Skips(tree, next, remaining) == next <= Len(tree) /\ tree[next] < remaining

\* findByOrder(order): the zero-based index whose prefix sum first reaches order.
FindByOrder(tree, order) ==
  LET found[at \in [bit : Nat, idx : Nat, remaining : Int]] ==
        LET next == at.idx + at.bit
        IN  IF at.bit = 0 THEN at.idx
            ELSE IF Skips(tree, next, at.remaining)
                 THEN found[[bit |-> at.bit \div 2, idx |-> next,
                             remaining |-> at.remaining - tree[next]]]
                 ELSE found[[at EXCEPT !.bit = @ \div 2]]
  IN  found[[bit |-> TopBit(Len(tree)), idx |-> 0, remaining |-> order]]

\* What the tree of a set of zero-based indices should be.
TreeOf(n, indices) ==
  [j \in 1 .. n |-> Cardinality({i \in indices : j - LowBit[j] <= i /\ i < j})]
=============================================================================
