------------------------------ MODULE L3BookBase ------------------------------
(***************************************************************************)
(* The state and the control that the five book classes of L3OrderBook.hpp *)
(* have in common: FIFO queues of orders per price level, the orderId      *)
(* index, and one call of apply() in progress.  A class module adds its    *)
(* price-level index and completes each operator below with what it does   *)
(* to that index.                                                          *)
(*                                                                         *)
(* apply() runs alone, on one thread, and nobody sees the book before it   *)
(* returns (pc = "idle").  Its loops are modelled one iteration a step:    *)
(*                                                                         *)
(*   "applyNew"  applyNew() entered, order_id possibly still in the book   *)
(*   "match"     the while test of matchIncoming()                         *)
(*   "consume"   the while test of consumeLevel(), on level call.at        *)
(***************************************************************************)
EXTENDS L3Types

VARIABLES
  orders,   \* [Side -> [Price -> Seq(Order)]]: PriceLevel::orders
  total,    \* [Side -> [Price -> Int]]: PriceLevel::total_qty
  refs,     \* [OrderId -> Ref or None]: order_refs_
  pc,       \* where the call of apply() is
  call,     \* the parameters and locals of that call, None when idle
  tally     \* what the last call has added to the L3BookStats counters

baseVars == <<orders, total, refs, pc, call, tally>>
-----------------------------------------------------------------------------
\* OrderRef: the level of an order.  Its order_it is the node of that level's
\* list that holds the order; it dangles when there is no such node.
Ref == [side : Side, price : Price]

\* The parameters of applyNew(), the quantity that remains to be traded and the
\* level being consumed.
Call == [side : Side, id : OrderId \cup {ZeroId}, price : Price, qty : Qty,
         isNew : BOOLEAN, rem : Qty, at : Price]

HasOrder(id) == id \in OrderId /\ refs[id] # None

\* The list node of an order in a level's queue, 0 when there is none.
NodeOf(queue, id) ==
  IF \E i \in DOMAIN queue : queue[i].id = id
  THEN CHOOSE i \in DOMAIN queue : queue[i].id = id
  ELSE 0

\* Mutant of Unlinked: the front of the queue goes, whatever order_it says.
UnlinkedFront(queue, id) == Tail(queue)

\* level.orders.erase(order_it)
Unlinked(queue, id) == RemoveAt(queue, NodeOf(queue, id))

\* Mutant of Traded: the resting order trades whole, whatever the incoming one has.
TradedWhole(queue, rem) == queue[1].qty

\* One pass of consumeLevel's loop over the order at the front.
Traded(queue, rem) == MinOf(rem, queue[1].qty)

\* Mutant of AfterTrade: an order filled in part goes to the back of the queue.
AfterTradeRequeueing(queue, rem) ==
  IF Traded(queue, rem) = queue[1].qty
  THEN Tail(queue)
  ELSE Append(Tail(queue), [queue[1] EXCEPT !.qty = @ - Traded(queue, rem)])

AfterTrade(queue, rem) ==
  IF Traded(queue, rem) = queue[1].qty
  THEN Tail(queue)
  ELSE [queue EXCEPT ![1].qty = @ - Traded(queue, rem)]
-----------------------------------------------------------------------------
(* The control of a call.  Each operator says what it does to baseVars.    *)

BaseInit ==
  /\ orders = [s \in Side |-> [p \in Price |-> <<>>]]
  /\ total = [s \in Side |-> [p \in Price |-> 0]]
  /\ refs = [id \in OrderId |-> None]
  /\ pc = "idle"
  /\ call = None
  /\ tally = ZeroTally

Return == pc' = "idle" /\ call' = None

\* applyNew(side, order_id, price, qty, isNew) is called.
EnterApplyNew(side, id, price, qty, isNew) ==
  /\ pc' = "applyNew"
  /\ call' = [side |-> side, id |-> id, price |-> price, qty |-> qty,
              isNew |-> isNew, rem |-> qty, at |-> price]

\* apply() of an 'N' message.
BeginNew(side, id, price, qty) ==
  /\ pc = "idle"
  /\ EnterApplyNew(side, id, price, qty, TRUE)
  /\ tally' = ZeroTally
  /\ UNCHANGED <<orders, total, refs>>

\* apply() of a message that changes nothing: a trade, or an unknown order id.
BeginNothing ==
  /\ pc = "idle"
  /\ tally' = ZeroTally
  /\ UNCHANGED <<orders, total, refs, pc, call>>

\* if (crossed_before) count_as_new_message ? ++crossing_new : ++crossing_modify
CountCrossing(crosses) ==
  tally' = [tally EXCEPT
              !.crossing_new_orders = @ + (IF crosses /\ call.isNew THEN 1 ELSE 0),
              !.crossing_modify_orders = @ + (IF crosses /\ ~call.isNew THEN 1 ELSE 0)]

\* applyNew() calls matchIncoming().
BeginMatch(crosses) ==
  /\ pc = "applyNew"
  /\ CountCrossing(crosses)
  /\ pc' = "match"
  /\ UNCHANGED <<orders, total, refs, call>>

\* matchIncoming() calls consumeLevel() on the best resting level.
BeginConsume(price) ==
  /\ pc = "match"
  /\ call' = [call EXCEPT !.at = price]
  /\ pc' = "consume"
  /\ UNCHANGED <<orders, total, refs, tally>>

\* The loop test of consumeLevel().
CanFill == call.rem > 0 /\ orders[Opposite(call.side)][call.at] # <<>>

\* The loop body of consumeLevel().
FillFront ==
  LET side   == Opposite(call.side)
      queue  == orders[side][call.at]
      front  == queue[1]
      traded == Traded(queue, call.rem)
  IN  /\ pc = "consume"
      /\ CanFill
      /\ call' = [call EXCEPT !.rem = @ - traded]
      /\ orders' = [orders EXCEPT ![side][call.at] = AfterTrade(queue, call.rem)]
      /\ total' = [total EXCEPT ![side][call.at] = @ - traded]
      /\ refs' = IF traded = front.qty THEN [refs EXCEPT ![front.id] = None] ELSE refs
      /\ tally' = [tally EXCEPT !.match_events = @ + 1, !.traded_qty = @ + traded]
      /\ UNCHANGED pc

\* tally t with one more invalidation of the best level of a side.
Invalidated(t, side) == [t EXCEPT !.invalidations[side] = @ + 1]
-----------------------------------------------------------------------------
(* What every class must keep true between any two steps of a call. *)

BaseTypeOK ==
  /\ orders \in [Side -> [Price -> Seq(Order)]]
  /\ total \in [Side -> [Price -> Int]]
  /\ refs \in [OrderId -> Ref \cup {None}]
  /\ pc \in {"idle", "applyNew", "match", "consume"}
  /\ IF pc = "idle" THEN call = None ELSE call \in Call
  /\ pc \in {"match", "consume"} => call.id \in OrderId
  /\ tally \in Tally

\* order_refs_ and the queues describe the same orders: every order_it points
\* at a node of the level it names, and every node has the one reference to
\* it.  Otherwise eraseByRef() follows a dangling iterator.
RefsSound ==
  /\ \A id \in OrderId :
       refs[id] # None => NodeOf(orders[refs[id].side][refs[id].price], id) # 0
  /\ \A s \in Side, p \in Price : \A i \in DOMAIN orders[s][p] :
       /\ refs[orders[s][p][i].id] = [side |-> s, price |-> p]
       /\ \A j \in DOMAIN orders[s][p] : orders[s][p][j].id = orders[s][p][i].id => j = i

\* No two resting orders could trade with each other, not even half way
\* through a match: crossed() is false whenever it is called.
Uncrossed == UncrossedBook(orders)

\* Decreases with every step of a call on the way to its end, where `left` counts
\* the levels of the side it trades with.
CallVariant(left) ==
  CASE pc = "idle"     -> 0
    [] pc = "applyNew" -> 2 * MaxQty + 2 * (MaxPriceTick - MinPriceTick + 1 + 2 * PriceMargin)
                            + 4 + (IF HasOrder(call.id) THEN 1 ELSE 0)
    [] pc = "match"    -> 2 * call.rem + 2 * left + (IF call.rem > 0 THEN 3 ELSE 1)
    [] pc = "consume"  -> 2 * call.rem + 2 * left + 2

\* The level is being consumed: its orders change before its bookkeeping does.
Consuming(side) == pc = "consume" /\ side = Opposite(call.side)

\* The best level of a side: what bestBid() and bestAsk() should return.
BestLevel(side) ==
  LET active == {p \in Price : orders[side][p] # <<>>}
  IN  IF active = {} THEN None
      ELSE LET p == BestOf(side, active)
           IN  [price |-> p, qty |-> total[side][p]]
=============================================================================
