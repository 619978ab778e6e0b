------------------------------- MODULE L3MapBook -------------------------------
(***************************************************************************)
(* L3MapOrderBook: price levels in two std::map, the best level of each    *)
(* side cached with its quantity.                                          *)
(***************************************************************************)
EXTENDS L3BookBase

VARIABLES
  keys,         \* [Side -> SUBSET Price]: the prices that bids_ and asks_ hold
  cached_best   \* [Side -> Level or None]: cached_best_bid_, cached_best_ask_

vars == <<orders, total, refs, pc, call, tally, keys, cached_best>>
-----------------------------------------------------------------------------
\* Mutant of BestCrosses: matching stops short of the limit price itself.
BestCrossesWithin(side, limit) ==
  LET resting == keys[Opposite(side)]
  IN  resting # {} /\ Better(side, limit, BestOf(Opposite(side), resting))

\* The loop test of matchIncoming(): the best level of the map is within limit.
BestCrosses(side, limit) ==
  LET resting == keys[Opposite(side)]
  IN  resting # {} /\ Crosses(side, limit, BestOf(Opposite(side), resting))

\* wouldCross() asks the cache, not the map.
WouldCross(side, price) ==
  LET best == cached_best[Opposite(side)]
  IN  best # None /\ Crosses(side, price, best.price)

\* Mutant of UpdateCachedLevel: the cached quantity is not refreshed.
UpdateCachedLevelNever(side, price, qty) == cached_best

\* updateCachedLevel()
UpdateCachedLevel(side, price, qty) ==
  IF cached_best[side] # None /\ cached_best[side].price = price
  THEN [cached_best EXCEPT ![side].qty = qty]
  ELSE cached_best

\* Mutant of EraseLevel: an emptied level stays in the map.
EraseLevelNever(side, price, t) == tally' = t /\ UNCHANGED <<keys, cached_best>>

\* A level has just been emptied: it is erased from the map and, when it was
\* the cached best, recoverBestBid/Ask() reads the best of the remaining map.
EraseLevel(side, price, t) ==
  LET left == keys[side] \ {price}
  IN  /\ keys' = [keys EXCEPT ![side] = left]
      /\ IF cached_best[side] # None /\ cached_best[side].price = price
         THEN /\ tally' = Invalidated(t, side)
              /\ cached_best' =
                   [cached_best EXCEPT ![side] =
                      IF left = {} THEN None
                      ELSE LET p == BestOf(side, left)
                           IN  [price |-> p, qty |-> total[side][p]]]
         ELSE tally' = t /\ UNCHANGED cached_best

\* eraseByRef() of an order that has a reference, in a call whose tally is t.
EraseByRef(id, t) ==
  LET ref   == refs[id]
      queue == orders[ref.side][ref.price]
      left  == Unlinked(queue, id)
      qty   == total[ref.side][ref.price] - queue[NodeOf(queue, id)].qty
  IN  /\ refs' = [refs EXCEPT ![id] = None]
      /\ IF ref.price \notin keys[ref.side]
         THEN tally' = t /\ UNCHANGED <<orders, total, keys, cached_best>>
         ELSE /\ orders' = [orders EXCEPT ![ref.side][ref.price] = left]
              /\ total' = [total EXCEPT ![ref.side][ref.price] = qty]
              /\ IF left = <<>>
                 THEN EraseLevel(ref.side, ref.price, t)
                 ELSE /\ cached_best' = UpdateCachedLevel(ref.side, ref.price, qty)
                      /\ tally' = t
                      /\ UNCHANGED keys
-----------------------------------------------------------------------------
New(side, id, price, qty) ==
  /\ BeginNew(side, id, price, qty)
  /\ UNCHANGED <<keys, cached_best>>

Trade ==
  /\ BeginNothing
  /\ UNCHANGED <<keys, cached_best>>

\* cancel() and modify() of an id that is not in order_refs_ return at once.
UnknownOrder(id) ==
  /\ ~HasOrder(id)
  /\ BeginNothing
  /\ UNCHANGED <<keys, cached_best>>

\* cancel(), and modify() with new_qty <= 0, of an order in the book.
Cancel(id) ==
  /\ pc = "idle"
  /\ HasOrder(id)
  /\ EraseByRef(id, ZeroTally)
  /\ UNCHANGED <<pc, call>>

\* modify() with new_qty > 0 erases the order, then calls applyNew().
Modify(id, price, qty) ==
  /\ pc = "idle"
  /\ HasOrder(id)
  /\ qty > 0
  /\ EraseByRef(id, ZeroTally)
  /\ EnterApplyNew(refs[id].side, id, price, qty, FALSE)

\* applyNew() returns at once on qty <= 0 or order_id == 0.
Refuse ==
  /\ pc = "applyNew"
  /\ call.qty = 0 \/ call.id = ZeroId
  /\ Return
  /\ UNCHANGED <<orders, total, refs, tally, keys, cached_best>>

Applicable == pc = "applyNew" /\ call.qty > 0 /\ call.id # ZeroId

\* applyNew() cancels the resting order that has the same id.
Replace ==
  /\ Applicable
  /\ HasOrder(call.id)
  /\ EraseByRef(call.id, tally)
  /\ UNCHANGED <<pc, call>>

StartMatch ==
  /\ Applicable
  /\ ~HasOrder(call.id)
  /\ BeginMatch(WouldCross(call.side, call.price))
  /\ UNCHANGED <<keys, cached_best>>

MatchLevel ==
  /\ pc = "match"
  /\ call.rem > 0
  /\ BestCrosses(call.side, call.price)
  /\ BeginConsume(BestOf(Opposite(call.side), keys[Opposite(call.side)]))
  /\ UNCHANGED <<keys, cached_best>>

Fill ==
  /\ FillFront
  /\ UNCHANGED <<keys, cached_best>>

\* consumeLevel() after its loop.
LeaveLevel ==
  LET side == Opposite(call.side)
  IN  /\ pc = "consume"
      /\ ~CanFill
      /\ IF orders[side][call.at] = <<>>
         THEN EraseLevel(side, call.at, tally)
         ELSE /\ cached_best' = UpdateCachedLevel(side, call.at, total[side][call.at])
              /\ UNCHANGED <<tally, keys>>
      /\ pc' = "match"
      /\ UNCHANGED <<orders, total, refs, call>>

\* matchIncoming() has ended.
Matched == pc = "match" /\ ~(call.rem > 0 /\ BestCrosses(call.side, call.price))

Done ==
  /\ Matched
  /\ call.rem = 0
  /\ Return
  /\ UNCHANGED <<orders, total, refs, tally, keys, cached_best>>

\* insertRestingOrder(): levels[price] makes an empty level when there is none.
Rest ==
  LET side  == call.side
      p     == call.price
      fresh == p \notin keys[side]
      queue == IF fresh THEN <<>> ELSE orders[side][p]
      qty   == call.rem + (IF fresh THEN 0 ELSE total[side][p])
      best  == cached_best[side]
  IN  /\ Matched
      /\ call.rem > 0
      /\ keys' = [keys EXCEPT ![side] = @ \cup {p}]
      /\ total' = [total EXCEPT ![side][p] = qty]
      /\ orders' = [orders EXCEPT ![side][p] =
                      Append(queue, [id |-> call.id, qty |-> call.rem])]
      /\ refs' = [refs EXCEPT ![call.id] = [side |-> side, price |-> p]]
      /\ cached_best' =
           IF best = None \/ Better(side, p, best.price)
           THEN [cached_best EXCEPT ![side] = [price |-> p, qty |-> qty]]
           ELSE UpdateCachedLevel(side, p, qty)
      /\ Return
      /\ UNCHANGED tally
-----------------------------------------------------------------------------
Init ==
  /\ BaseInit
  /\ keys = [s \in Side |-> {}]
  /\ cached_best = [s \in Side |-> None]

\* A message arrives.
Message ==
  \/ \E s \in Side, id \in OrderId \cup {ZeroId}, p \in Price, q \in Qty : New(s, id, p, q)
  \/ \E id \in OrderId \cup {ZeroId} : UnknownOrder(id) \/ Cancel(id)
  \/ \E id \in OrderId, p \in Price, q \in Qty : Modify(id, p, q)
  \/ Trade

\* The call in progress goes on.
Step == Refuse \/ Replace \/ StartMatch \/ MatchLevel \/ Fill \/ LeaveLevel \/ Done \/ Rest

Next == Message \/ Step

\* The caller need not send messages; a call that has begun runs on.
Spec == Init /\ [][Next]_vars /\ WF_vars(Step)
-----------------------------------------------------------------------------
\* The variables keep their types: in particular the quantity left to trade
\* never goes below zero and a call always has an order to apply.
TypeOK ==
  /\ BaseTypeOK
  /\ keys \in [Side -> SUBSET Price]
  /\ cached_best \in [Side -> Level \cup {None}]

\* The maps hold the non-empty levels and no others (during consumeLevel() also
\* the level it may just have emptied), and total_qty is the sum of its queue.
LevelsExact ==
  \A s \in Side :
    /\ \A p \in Price : total[s][p] = QueueQty(orders[s][p])
    /\ keys[s] = {p \in Price : orders[s][p] # <<>>}
                   \cup (IF Consuming(s) THEN {call.at} ELSE {})

\* cached_best_bid_ and cached_best_ask_ are the best levels of the book, price
\* and quantity, whenever wouldCross() or a caller reads them; inside
\* consumeLevel() the quantity lags behind, but not the price.
CacheExact ==
  \A s \in Side :
    IF Consuming(s)
    THEN cached_best[s] # None /\ cached_best[s].price = call.at
    ELSE cached_best[s] = BestLevel(s)

\* matchIncoming() and consumeLevel() terminate: every apply() returns.
Termination == pc # "idle" ~> pc = "idle"
=============================================================================
