SPECIFICATION Spec
CONSTANTS
  OrderId = {o1, o2, o3}
  ZeroId = ZeroId
  MinPriceTick = 1
  MaxPriceTick = 6
  PriceMargin = 0
  MaxQty = 1
  None = None
  Accepted = {1, 2, 3, 4, 5, 6}
  EmptyIndex <- EmptyTree
  Marked <- TreeMarked
  IndexedBest <- TreeBest
  IndexOf <- TreeOfActive
SYMMETRY Symmetry
INVARIANTS RecoverExact IndexExact
PROPERTIES Implements
