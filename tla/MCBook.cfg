SPECIFICATION BookSpec
CONSTANTS
  OrderId = {o1, o2, o3}
  ZeroId = ZeroId
  MinPriceTick = 1
  MaxPriceTick = 3
  PriceMargin = 1
  MaxQty = 3
  None = None
  Accepted = {1, 2, 3}
SYMMETRY Symmetry
INVARIANTS BookTypeOK RestsOnce Uncrossed
PROPERTIES PriorityRespected QuantityConserved PlacesKept
