SPECIFICATION Spec
CONSTANTS
  OrderId = {o1, o2}
  ZeroId = ZeroId
  MinPriceTick = 1
  MaxPriceTick = 2
  PriceMargin = 0
  MaxQty = 2
  None = None
  Accepted = {1, 2}
PROPERTIES Termination
