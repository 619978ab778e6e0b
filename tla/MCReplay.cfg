SPECIFICATION Spec
CONSTANTS
  OrderId = {1, 2, 3, 4}
  ZeroId = 0
  MinPriceTick = 1
  MaxPriceTick = 5
  PriceMargin = 1
  MaxQty = 2
  None = None
  Accepted = {0, 1, 2, 3, 4, 5, 6}
  MidPriceTick = 3
  MinSpreads = {2, 4}
  levels_per_side = 1
  NearDepth = 1
  CrossDepth = 1
  MinLiveFloor = 2
  MaxAttempts = 2
  MaxLive = 3
  MaxStream = 1
  MaxInvalid = 1
CHECK_DEADLOCK FALSE
INVARIANTS TypeOK BooksAgree NoneCrossed LiveRemembered NamesRestingOrder
PROPERTIES FollowsShadow
