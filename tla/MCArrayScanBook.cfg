SPECIFICATION Spec
CONSTANTS
  OrderId = {o1, o2, o3}
  ZeroId = ZeroId
  MinPriceTick = 1
  MaxPriceTick = 3
  PriceMargin = 1
  MaxQty = 2
  None = None
  Accepted = {1, 2, 3}
  EmptyIndex <- NoIndex
  Marked <- NothingMarked
  IndexedBest <- ScannedBest
  IndexOf <- NoIndexOf
SYMMETRY Symmetry
INVARIANTS TypeOK BestExact
PROPERTIES Implements
