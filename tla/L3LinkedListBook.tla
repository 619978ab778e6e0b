---------------------------- MODULE L3LinkedListBook ----------------------------
(***************************************************************************)
(* L3LinkedListOrderBook: the price levels of a side are the nodes of one  *)
(* std::list, best price first, and an iterator points at the best node.   *)
(* A list never holds two nodes of one price, so an iterator is the price  *)
(* of the node it points at, or None for end().                            *)
(***************************************************************************)
EXTENDS L3BookBase

VARIABLES
  levels,   \* [Side -> Seq(Price)]: bid_levels_, ask_levels_
  best      \* [Side -> Price or None]: best_bid_, best_ask_

vars == <<orders, total, refs, pc, call, tally, levels, best>>
-----------------------------------------------------------------------------
\* Mutant of WouldCross: an order does not reach the level at its own limit.
WouldCrossWithin(side, limit) ==
  LET resting == best[Opposite(side)]
  IN  resting # None /\ Better(side, limit, resting)

\* The best opposite level is within the limit: wouldCross(), and the loop test
\* of matchIncoming(), both of which follow the best iterator.
WouldCross(side, limit) ==
  LET resting == best[Opposite(side)]
  IN  resting # None /\ Crosses(side, limit, resting)

\* Where a level_it points: the place of the node of a price, 0 when there is none.
NodeAt(list, price) == SelectInSeq(list, LAMBDA p : p = price)

\* std::next() of the node of a price.
NextNode(list, price) ==
  LET i == NodeAt(list, price)
  IN  IF i = Len(list) THEN None ELSE list[i + 1]

\* Mutant of EraseEmptyLevel: the best iterator moves only when the list is empty.
EraseEmptyLevelKeepingBest(side, price, t) ==
  LET left == RemoveFirst(levels[side], price)
  IN  /\ levels' = [levels EXCEPT ![side] = left]
      /\ tally' = IF best[side] = price THEN Invalidated(t, side) ELSE t
      /\ best' = [best EXCEPT ![side] = IF left = <<>> THEN None ELSE @]

EraseEmptyLevel(side, price, t) ==
  LET list     == levels[side]
      left     == RemoveFirst(list, price)
      was_best == best[side] = price
  IN  /\ levels' = [levels EXCEPT ![side] = left]
      /\ tally' = IF was_best THEN Invalidated(t, side) ELSE t
      /\ best' = [best EXCEPT ![side] =
                    IF left = <<>> THEN None
                    ELSE IF was_best THEN NextNode(list, price) ELSE @]

\* eraseByRef() of an order that has a reference, in a call whose tally is t.
EraseByRef(id, t) ==
  LET ref   == refs[id]
      queue == orders[ref.side][ref.price]
      left  == Unlinked(queue, id)
  IN  /\ refs' = [refs EXCEPT ![id] = None]
      /\ orders' = [orders EXCEPT ![ref.side][ref.price] = left]
      /\ total' = [total EXCEPT ![ref.side][ref.price] = @ - queue[NodeOf(queue, id)].qty]
      /\ IF left = <<>>
         THEN EraseEmptyLevel(ref.side, ref.price, t)
         ELSE tally' = t /\ UNCHANGED <<levels, best>>

\* Mutant of StopsAt: the scan also goes past the node of the price itself.
StopsAtWorseOnly(side, price, p) == Better(side, price, p)

\* Mutant of StopsAt: asks are kept in the order of bids.
StopsAtLower(side, price, p) == p = price \/ p < price

\* findOrInsertLevel() looks no further than a node of this price or a worse one.
StopsAt(side, price, p) == p = price \/ Better(side, price, p)

\* Where findOrInsertLevel() stops: behind the last node when nothing stops it.
SlotOf(side, price) ==
  LET i == SelectInSeq(levels[side], LAMBDA p : StopsAt(side, price, p))
  IN  IF i = 0 THEN Len(levels[side]) + 1 ELSE i

\* The list has a node of this price where the scan stops.
Found(side, price) ==
  LET slot == SlotOf(side, price)
  IN  slot <= Len(levels[side]) /\ levels[side][slot] = price

\* Mutant of BestAfterRest: a level that improves on the best is not noticed.
BestAfterRestWhenEmpty(side, price) ==
  IF best[side] = None THEN [best EXCEPT ![side] = price] ELSE best

\* The best iterators after an order rested at a price.
BestAfterRest(side, price) ==
  IF best[side] = None \/ Better(side, price, best[side])
  THEN [best EXCEPT ![side] = price]
  ELSE best
-----------------------------------------------------------------------------
New(side, id, price, qty) ==
  /\ BeginNew(side, id, price, qty)
  /\ UNCHANGED <<levels, best>>

Trade ==
  /\ BeginNothing
  /\ UNCHANGED <<levels, best>>

\* cancel() and modify() of an id that is not in order_refs_ return at once.
UnknownOrder(id) ==
  /\ ~HasOrder(id)
  /\ BeginNothing
  /\ UNCHANGED <<levels, best>>

\* cancel(), and modify() with qty <= 0, of an order in the book.
Cancel(id) ==
  /\ pc = "idle"
  /\ HasOrder(id)
  /\ EraseByRef(id, ZeroTally)
  /\ UNCHANGED <<pc, call>>

\* modify() with qty > 0 erases the order, then calls applyNew().
Modify(id, price, qty) ==
  /\ pc = "idle"
  /\ HasOrder(id)
  /\ qty > 0
  /\ EraseByRef(id, ZeroTally)
  /\ EnterApplyNew(refs[id].side, id, price, qty, FALSE)

\* applyNew() returns at once on qty <= 0 or order_id == 0.
Refuse ==
  /\ pc = "applyNew"
  /\ call.qty = 0 \/ call.id = ZeroId
  /\ Return
  /\ UNCHANGED <<orders, total, refs, tally, levels, best>>

Applicable == pc = "applyNew" /\ call.qty > 0 /\ call.id # ZeroId

\* applyNew() cancels the resting order that has the same id.
Replace ==
  /\ Applicable
  /\ HasOrder(call.id)
  /\ EraseByRef(call.id, tally)
  /\ UNCHANGED <<pc, call>>

StartMatch ==
  /\ Applicable
  /\ ~HasOrder(call.id)
  /\ BeginMatch(WouldCross(call.side, call.price))
  /\ UNCHANGED <<levels, best>>

MatchLevel ==
  /\ pc = "match"
  /\ call.rem > 0
  /\ WouldCross(call.side, call.price)
  /\ BeginConsume(best[Opposite(call.side)])
  /\ UNCHANGED <<levels, best>>

Fill ==
  /\ FillFront
  /\ UNCHANGED <<levels, best>>

\* consumeLevel() after its loop.
LeaveLevel ==
  LET side == Opposite(call.side)
  IN  /\ pc = "consume"
      /\ ~CanFill
      /\ IF orders[side][call.at] = <<>>
         THEN EraseEmptyLevel(side, call.at, tally)
         ELSE UNCHANGED <<tally, levels, best>>
      /\ pc' = "match"
      /\ UNCHANGED <<orders, total, refs, call>>

\* matchIncoming() has ended.
Matched == pc = "match" /\ ~(call.rem > 0 /\ WouldCross(call.side, call.price))

Done ==
  /\ Matched
  /\ call.rem = 0
  /\ Return
  /\ UNCHANGED <<orders, total, refs, tally, levels, best>>

\* insertRestingOrder(), on the level that findOrInsertLevel() finds or makes.
Rest ==
  LET side  == call.side
      p     == call.price
      found == Found(side, p)
      queue == IF found THEN orders[side][p] ELSE <<>>
      qty   == call.rem + (IF found THEN total[side][p] ELSE 0)
  IN  /\ Matched
      /\ call.rem > 0
      /\ levels' = IF found THEN levels
                   ELSE [levels EXCEPT ![side] = InsertAt(@, SlotOf(side, p), p)]
      /\ total' = [total EXCEPT ![side][p] = qty]
      /\ orders' = [orders EXCEPT ![side][p] =
                      Append(queue, [id |-> call.id, qty |-> call.rem])]
      /\ refs' = [refs EXCEPT ![call.id] = [side |-> side, price |-> p]]
      /\ best' = BestAfterRest(side, p)
      /\ Return
      /\ UNCHANGED tally
-----------------------------------------------------------------------------
Init ==
  /\ BaseInit
  /\ levels = [s \in Side |-> <<>>]
  /\ best = [s \in Side |-> None]

\* A message arrives.
Message ==
  \/ \E s \in Side, id \in OrderId \cup {ZeroId}, p \in Price, q \in Qty : New(s, id, p, q)
  \/ \E id \in OrderId \cup {ZeroId} : UnknownOrder(id) \/ Cancel(id)
  \/ \E id \in OrderId, p \in Price, q \in Qty : Modify(id, p, q)
  \/ Trade

\* The call in progress goes on.
Step == Refuse \/ Replace \/ StartMatch \/ MatchLevel \/ Fill \/ LeaveLevel \/ Done \/ Rest

Next == Message \/ Step

\* The caller need not send messages; a call that has begun runs on.
Spec == Init /\ [][Next]_vars /\ WF_vars(Step)
-----------------------------------------------------------------------------
\* The variables keep their types, and no list holds two nodes of one price.
TypeOK ==
  /\ BaseTypeOK
  /\ levels \in [Side -> Seq(Price)]
  /\ \A s \in Side : IsInjective(levels[s])
  /\ best \in [Side -> Price \cup {None}]

\* The nodes are the non-empty levels and no others (during consumeLevel() also
\* the level it may just have emptied), from the best price to the worst.
ListExact ==
  \A s \in Side :
    /\ ToSet(levels[s]) = {p \in Price : orders[s][p] # <<>>}
                            \cup (IF Consuming(s) THEN {call.at} ELSE {})
    /\ \A i, j \in DOMAIN levels[s] : i < j => Better(s, levels[s][i], levels[s][j])

\* No iterator dangles: level_it of every order, and the best iterator unless
\* it is end(), point at nodes that are still in their list.
IteratorsValid ==
  /\ \A id \in OrderId : refs[id] # None => Contains(levels[refs[id].side], refs[id].price)
  /\ \A s \in Side : best[s] # None => Contains(levels[s], best[s])

\* The best iterator points at the first node, the best level of the book, and
\* is end() only when the side is empty.
BestIsFirst ==
  \A s \in Side : best[s] = IF levels[s] = <<>> THEN None ELSE Head(levels[s])

\* What is left of the call in progress.
Variant == CallVariant(Len(levels[Opposite(call.side)]))

\* Every step of a call in progress brings its end nearer, which bounds the loops
\* of matchIncoming() and consumeLevel(): a level that stays in the list, or that
\* the best iterator still shows, would be consumed again and again.
StepsRunOut == [][pc # "idle" => pc' = "idle" \/ Variant' < Variant]_vars
=============================================================================
