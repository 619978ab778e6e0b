SPECIFICATION Spec
CONSTANTS
  OrderId = {o1, o2, o3}
  ZeroId = ZeroId
  MinPriceTick = 1
  MaxPriceTick = 6
  PriceMargin = 0
  MaxQty = 1
  None = None
  Accepted = {1, 2, 3, 4, 5, 6}
  WordBits = 4
  EmptyIndex <- EmptyWords
  Marked <- WordsMarked
  IndexedBest <- WordsBest
  IndexOf <- WordsOf
SYMMETRY Symmetry
INVARIANTS RecoverExact IndexExact
PROPERTIES Implements
