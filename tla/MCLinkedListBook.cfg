SPECIFICATION Spec
CONSTANTS
  OrderId = {o1, o2, o3}
  ZeroId = ZeroId
  MinPriceTick = 1
  MaxPriceTick = 3
  PriceMargin = 0
  MaxQty = 2
  None = None
  Accepted = {1, 2, 3}
SYMMETRY Symmetry
INVARIANTS TypeOK ListExact IteratorsValid BestIsFirst
PROPERTIES Implements StepsRunOut
