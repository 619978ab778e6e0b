----------------------------- MODULE FenwickCounts -----------------------------
(***************************************************************************)
(* A Fenwick tree as L3ArrayFenwickBook uses it: indices are marked and    *)
(* cleared in any order, never twice in a row.                             *)
(***************************************************************************)
EXTENDS FenwickTree

CONSTANT Size   \* priceRangeSize()

ASSUME SizeAssumption == Size \in Nat \ {0}

VARIABLES
  tree,     \* tree_[1..Size]
  active    \* the indices that are marked

countsVars == <<tree, active>>

Slot == 0 .. Size - 1
-----------------------------------------------------------------------------
\* The tree of Size zeros that the constructor makes.
CountsInit ==
  /\ tree = [j \in 1 .. Size |-> 0]
  /\ active = {}

Mark(i) ==
  /\ i \in Slot \ active
  /\ tree' = Add(tree, i, 1)
  /\ active' = active \cup {i}

Clear(i) ==
  /\ i \in active
  /\ tree' = Add(tree, i, -1)
  /\ active' = active \ {i}

CountsNext == \E i \in Slot : Mark(i) \/ Clear(i)

CountsSpec == CountsInit /\ [][CountsNext]_countsVars
-----------------------------------------------------------------------------
\* Every node holds the number of marked indices of its range, whatever the
\* order in which they were marked and cleared.
TreeExact == tree = TreeOf(Size, active)

\* sumAll() counts the marked indices, and findByOrder() finds each of them by
\* its rank, the lowest first.
FindsEachByOrder ==
  /\ SumAll(tree) = Cardinality(active)
  /\ \A order \in 1 .. Cardinality(active) :
       LET found == FindByOrder(tree, order)
       IN  found \in active /\ Cardinality({i \in active : i < found}) = order - 1
=============================================================================
