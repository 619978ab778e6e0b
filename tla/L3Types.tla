-------------------------------- MODULE L3Types --------------------------------
(***************************************************************************)
(* The data shared by every module of this project: sides, prices,         *)
(* quantities, orders, best levels (Common.hpp, L3MarketDataMessage.hpp)   *)
(* and the two price comparisons every order book is built on.             *)
(***************************************************************************)
EXTENDS Integers, SequencesExt

CONSTANTS
  OrderId,        \* the non-zero order ids that occur in the feed
  ZeroId,         \* order id 0, which every book refuses
  MinPriceTick,   \* kDefaultMinPriceTick
  MaxPriceTick,   \* kDefaultMaxPriceTick
  PriceMargin,    \* how far outside the tick range an int32 price may lie (bound)
  MaxQty,         \* largest quantity of one message (bound)
  None            \* std::nullopt, and the missing entry of a map

ASSUME TypesAssumption ==
  /\ ZeroId \notin OrderId
  /\ MinPriceTick \in Int
  /\ MaxPriceTick \in Int
  /\ MinPriceTick <= MaxPriceTick
  /\ PriceMargin \in Nat
  /\ MaxQty \in Nat \ {0}
-----------------------------------------------------------------------------
Side == {"Bid", "Ask"}

Opposite(side) == IF side = "Bid" THEN "Ask" ELSE "Bid"

Price == (MinPriceTick - PriceMargin) .. (MaxPriceTick + PriceMargin)

\* The prices l3wire::parseOne lets through and the array books have a slot for.
TickPrice == MinPriceTick .. MaxPriceTick

\* The quantity of a message; 0 stands for every quantity <= 0.
Qty == 0 .. MaxQty

Order == [id : OrderId, qty : 1 .. MaxQty]

\* Quantity resting in a queue of orders.
QueueQty(queue) == MapThenSumSet(LAMBDA i : queue[i].qty, DOMAIN queue)

\* A best level as the books report it: a price and the level's total quantity.
Level == [price : Price, qty : Int]

ASSUME NoneAssumption ==
  /\ None \notin Level
  /\ None \notin [side : Side, price : Price]
  /\ None \notin Price

\* Price p is a strictly better quote than q on this side.
Better(side, p, q) == IF side = "Bid" THEN p > q ELSE p < q

\* Mutant of Crosses: an order does not trade at its own limit price.
CrossesWithin(side, limit, p) == Better(side, limit, p)

\* An incoming order of this side and limit trades with a resting order at p.
Crosses(side, limit, p) == ~Better(side, p, limit)

\* Best of a set of prices of one side.
BestOf(side, prices) ==
  CHOOSE p \in prices : \A q \in prices : ~Better(side, q, p)

\* What one message adds to the counters of L3BookStats that do not depend on
\* the kind of price-level index.
Tally ==
  [crossing_new_orders : 0 .. 1, crossing_modify_orders : 0 .. 1,
   match_events : Nat, traded_qty : Nat, invalidations : [Side -> Nat]]

ZeroTally ==
  [crossing_new_orders |-> 0, crossing_modify_orders |-> 0, match_events |-> 0,
   traded_qty |-> 0, invalidations |-> [s \in Side |-> 0]]

\* No two orders of the book could trade with each other.
UncrossedBook(bk) ==
  \A b, a \in Price : bk["Bid"][b] # <<>> /\ bk["Ask"][a] # <<>> => b < a

MinOf(a, b) == IF a <= b THEN a ELSE b
=============================================================================
