-------------------------------- MODULE L3Feed ---------------------------------
(***************************************************************************)
(* L3FeedGenerator: the messages it makes, the shadow book it applies each *)
(* of them to, the ids it remembers as live (some stale, some twice) and   *)
(* the messages it has made but not yet returned.  What next() returns is  *)
(* appended to the stream, as generateStream() does.                       *)
(***************************************************************************)
EXTENDS L3BookOps, L3Wire

CONSTANTS
  MidPriceTick,     \* kDefaultMidPriceTick
  MinSpreads,       \* values of --min-spread-ticks
  levels_per_side,  \* --levels-per-side
  NearDepth,        \* largest distance of a price near the touch (20)
  CrossDepth,       \* how far a crossing order may price through the best (3)
  MinLiveFloor,     \* least number of live ids before other messages are made (100)
  MaxAttempts,      \* attempts of randomLiveOrderId() (20)
  MaxLive,          \* length of live_order_ids (bound)
  MaxStream         \* messages generated and not yet replayed (bound)

\* parseArgs checks the two options only from below; a spread that leaves no
\* price on a side makes uniformInt undefined and is left out.
ASSUME FeedAssumption ==
  /\ ZeroId = 0 /\ IsFiniteSet(OrderId) /\ OrderId = 1 .. Cardinality(OrderId)
  /\ MinSpreads \subseteq Nat \ {0, 1}
  /\ levels_per_side \in Nat \ {0}
  /\ 2 * levels_per_side <= Cardinality(OrderId)   \* each seeded order has an id
  /\ PriceMargin >= 1                  \* and a price, perhaps just outside the range
  /\ MidPriceTick \in Int
  /\ \A spread \in MinSpreads :
       MidPriceTick - spread \div 2 >= MinPriceTick /\ MidPriceTick + spread \div 2 <= MaxPriceTick
  /\ 0 \in Price   \* the price field of a cancel
  /\ MaxAttempts \in Nat \ {0} /\ MaxStream \in Nat \ {0}

VARIABLES
  min_spread_ticks, \* cfg_.min_spread_ticks
  shadow,         \* shadow_book_, a map book
  live,           \* live_order_ids_
  pending,        \* pending_
  next_order_id,  \* next_order_id_
  drawing,        \* the makeModify or makeCancel in progress, or None
  stream          \* the messages generated and not yet replayed, oldest first

feedVars == <<min_spread_ticks, shadow, live, pending, next_order_id, drawing, stream>>
-----------------------------------------------------------------------------
Drawing == [op_code : {"M", "X"}, attempts : 0 .. MaxAttempts]

\* A trade message names no order, every other message names one.
FeedMessage == {msg \in Message : msg.order_id = ZeroId <=> msg.op_code = "T"}

FeedTypeOK ==
  /\ min_spread_ticks \in MinSpreads
  /\ shadow \in [Side -> [Price -> Seq(Order)]]
  /\ live \in Seq(OrderId)
  /\ pending \in Seq(FeedMessage)
  /\ next_order_id \in 1 .. Cardinality(OrderId) + 1
  /\ drawing \in Drawing \cup {None}
  /\ stream \in Seq(FeedMessage)

halfSpread == IF min_spread_ticks \div 2 < 1 THEN 1 ELSE min_spread_ticks \div 2

maxBidPrice == MidPriceTick - halfSpread
minAskPrice == MidPriceTick + halfSpread

liveOrderFloor == IF MinLiveFloor > 2 * levels_per_side THEN MinLiveFloor
                                                        ELSE 2 * levels_per_side

orderMessage(op, side, id, price, qty) ==
  [op_code |-> op, side |-> side, order_id |-> id, price_tick |-> price, quantity |-> qty]

tradeMessage(side, price, qty) == orderMessage("T", side, ZeroId, price, qty)

\* The prices randomPrice() may return, as far as Price reaches.
randomPrices(side, mode) ==
  Price \cap
    CASE mode = "NearTouch" /\ side = "Bid" -> maxBidPrice - NearDepth .. maxBidPrice - 1
      [] mode = "NearTouch" /\ side = "Ask" -> minAskPrice + 1 .. minAskPrice + NearDepth
      [] mode = "Wide" /\ side = "Bid"      -> MinPriceTick .. maxBidPrice
      [] mode = "Wide" /\ side = "Ask"      -> minAskPrice .. MaxPriceTick

\* Apply a message to the shadow book and remember the order if it rests.
applyAndRemember(st, msg) ==
  With(Apply(st.shadow, msg), LAMBDA bk :
    [shadow |-> bk,
     live   |-> IF msg.op_code \in {"N", "M"} /\ Has(bk, msg.order_id)
                THEN Append(st.live, msg.order_id) ELSE st.live])

\* Mutant of swapRemoved: the last id goes, but not into the freed place.
swapRemovedLast(ids, i) == SubSeq(ids, 1, Len(ids) - 1)

\* Entry i removed by moving the last one into its place.
swapRemoved(ids, i) == SubSeq([ids EXCEPT ![i] = ids[Len(ids)]], 1, Len(ids) - 1)

isLive(id) == Has(shadow, id)

EmptyBook == [s \in Side |-> [p \in Price |-> <<>>]]

\* Mutant of seedMessages: order ids start from 0.
seedMessagesFromZero(qty) ==
  [i \in DOMAIN qty |->
     IF i % 2 = 1 THEN orderMessage("N", "Bid", i - 1, maxBidPrice - (i + 1) \div 2, qty[i])
                  ELSE orderMessage("N", "Ask", i - 1, minAskPrice + i \div 2, qty[i])]

\* The messages of seedInitialBook(): a bid and an ask on each level.
seedMessages(qty) ==
  [i \in DOMAIN qty |->
     IF i % 2 = 1 THEN orderMessage("N", "Bid", i, maxBidPrice - (i + 1) \div 2, qty[i])
                  ELSE orderMessage("N", "Ask", i, minAskPrice + i \div 2, qty[i])]

\* min of levels_per_side and the levels there is room for, at least 1.
seedLevels ==
  LET AtLeast1(n) == IF n < 1 THEN 1 ELSE n
  IN  MinOf(levels_per_side, MinOf(AtLeast1(maxBidPrice - MinPriceTick),
                                   AtLeast1(MaxPriceTick - minAskPrice)))

FeedInit ==
  /\ min_spread_ticks \in MinSpreads
  /\ \E qty \in [1 .. 2 * seedLevels -> 1 .. MaxQty] :
       LET seeded == FoldLeft(applyAndRemember, [shadow |-> EmptyBook, live |-> <<>>],
                              seedMessages(qty))
       IN  /\ shadow = seeded.shadow
           /\ live = seeded.live
           /\ pending = seedMessages(qty)
  /\ next_order_id = 2 * seedLevels + 1
  /\ drawing = None
  /\ stream = <<>>
-----------------------------------------------------------------------------
\* Mutant of Ready: messages are made while others are pending.
ReadyAnyway == drawing = None /\ Len(stream) < MaxStream

\* next() is called with nothing pending.
Ready == drawing = None /\ pending = <<>> /\ Len(stream) < MaxStream

\* The message takes effect on the shadow book and is returned.
Emit(msg) ==
  LET after == applyAndRemember([shadow |-> shadow, live |-> live], msg)
  IN  /\ Len(after.live) <= MaxLive
      /\ shadow' = after.shadow
      /\ live' = after.live
      /\ drawing' = None
      /\ stream' = Append(stream, msg)
      /\ UNCHANGED min_spread_ticks

\* A message made earlier is returned.
SendPending ==
  /\ drawing = None /\ pending # <<>> /\ Len(stream) < MaxStream
  /\ stream' = Append(stream, Head(pending))
  /\ pending' = Tail(pending)
  /\ UNCHANGED <<min_spread_ticks, shadow, live, next_order_id, drawing>>

makeNew(mode) ==
  /\ next_order_id \in OrderId
  /\ \E side \in Side, qty \in 1 .. MaxQty : \E price \in randomPrices(side, mode) :
       Emit(orderMessage("N", side, next_order_id, price, qty))
  /\ next_order_id' = next_order_id + 1
  /\ UNCHANGED pending

\* Fewer live ids than the floor, or the roll for a new order.
NewOrder == Ready /\ makeNew("Wide")

\* The roll for a modify or a cancel.
StartDraw ==
  /\ Ready /\ Len(live) >= liveOrderFloor
  /\ \E op \in {"M", "X"} : drawing' = [op_code |-> op, attempts |-> 0]
  /\ UNCHANGED <<min_spread_ticks, shadow, live, pending, next_order_id, stream>>

Attempting == drawing # None /\ drawing.attempts < MaxAttempts

\* The drawn id has left the shadow book.
DropStale ==
  /\ Attempting
  /\ \E i \in DOMAIN live : ~isLive(live[i]) /\ live' = swapRemoved(live, i)
  /\ drawing' = [drawing EXCEPT !.attempts = @ + 1]
  /\ UNCHANGED <<min_spread_ticks, shadow, pending, next_order_id, stream>>

makeCancel ==
  /\ Attempting /\ drawing.op_code = "X"
  /\ \E i \in DOMAIN live :
       /\ isLive(live[i])
       /\ Emit(orderMessage("X", SideOf(shadow, live[i]), live[i], 0, 0))
  /\ UNCHANGED <<pending, next_order_id>>

makeModify ==
  /\ Attempting /\ drawing.op_code = "M"
  /\ \E i \in DOMAIN live, qty \in 1 .. MaxQty, mode \in {"Wide", "NearTouch"} :
       /\ isLive(live[i])
       /\ \E price \in randomPrices(SideOf(shadow, live[i]), mode) :
            Emit(orderMessage("M", SideOf(shadow, live[i]), live[i], price, qty))
  /\ UNCHANGED <<pending, next_order_id>>

\* No live id was drawn: a new order is made instead.
GiveUp ==
  /\ drawing # None
  /\ drawing.attempts = MaxAttempts \/ live = <<>>
  /\ makeNew("Wide")

\* The roll for a crossing order, on a side with nobody opposite: a new order near
\* the touch is made instead, whose side makeNew() rolls again.
CrossNobody ==
  /\ Ready /\ Len(live) >= liveOrderFloor
  /\ \E side \in Side : Best(shadow, Opposite(side)) = None
  /\ makeNew("NearTouch")

\* An order priced at or through the other side's best, and the trade message
\* that reports it: at the best price, for the whole quantity.
makeCrossingNew ==
  /\ Ready /\ Len(live) >= liveOrderFloor
  /\ next_order_id \in OrderId
  /\ \E side \in Side, qty \in 1 .. MaxQty, through \in 0 .. CrossDepth :
       LET best  == Best(shadow, Opposite(side))
           price == IF side = "Bid" THEN best.price + through ELSE best.price - through
       IN  /\ best # None
           /\ price \in Price
           /\ Emit(orderMessage("N", side, next_order_id, price, qty))
           /\ pending' = Append(pending, tradeMessage(side, best.price, qty))
  /\ next_order_id' = next_order_id + 1
=============================================================================
