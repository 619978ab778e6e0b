------------------------------ MODULE L3ArrayBook ------------------------------
(***************************************************************************)
(* The three array books of L3OrderBook.hpp: one PriceLevel per price tick *)
(* in an array, and the array index of the best level of each side.  They  *)
(* differ in how recoverBest() finds the next best level: by scanning the  *)
(* array (Scan), through a Fenwick tree (Fenwick) or through a bit set     *)
(* (Bitset) of the active levels.  That index of active levels is a        *)
(* parameter of this module, with a module of its own for each class.      *)
(***************************************************************************)
EXTENDS L3BookBase

CONSTANTS
  EmptyIndex,            \* the index of a side without active levels
  Marked(_, _, _),       \* Marked(ix, i, active): ix with level i marked
  IndexedBest(_, _, _),  \* IndexedBest(side, ix, active): the level recoverBest()
                         \* finds when active is the set of active levels, or -1
  IndexOf(_)             \* IndexOf(active): what ix should be for a set of levels

VARIABLES
  best_index,   \* [Side -> Int]: best_bid_index_, best_ask_index_
  index         \* [Side -> an index of active levels]

vars == <<orders, total, refs, pc, call, tally, best_index, index>>
-----------------------------------------------------------------------------
MaxIndex == MaxPriceTick - MinPriceTick

Index == 0 .. MaxIndex

PriceToIndex(price) == price - MinPriceTick

IndexToPrice(i) == MinPriceTick + i

\* PriceLevel::active()
LevelActive(qty, queue) == qty > 0 /\ queue # <<>>

\* The active levels of a side in the given arrays.
ActiveIn(qtys, queues) ==
  {i \in Index : LevelActive(qtys[IndexToPrice(i)], queues[IndexToPrice(i)])}

\* The best of a set of levels of a side, -1 when it is empty.
BestIndexOf(side, levels) == IF levels = {} THEN -1 ELSE BestOf(side, levels)

\* Mutant of WouldCross: an order does not reach the level at its own limit.
WouldCrossWithin(side, limit) ==
  LET resting == best_index[Opposite(side)]
  IN  resting >= 0 /\ Better(side, limit, IndexToPrice(resting))

\* The best opposite level is within the limit: wouldCross(), and the loop test
\* of matchIncoming(), both of which read best_index.
WouldCross(side, limit) ==
  LET resting == best_index[Opposite(side)]
  IN  resting >= 0 /\ Crosses(side, limit, IndexToPrice(resting))

\* Mutant of ClearLevel: the best level is not recovered.
ClearLevelKeepingBest(side, i, t) ==
  /\ index' = [index EXCEPT ![side] = Marked(@, i, FALSE)]
  /\ tally' = t
  /\ UNCHANGED best_index

\* clearLevel() of level i, emptied by this step: recoverBest() looks at what is
\* active once it is cleared.
ClearLevel(side, i, t) ==
  LET active == ActiveIn(total[side], orders[side]) \ {i}
      marked == Marked(index[side], i, FALSE)
  IN  /\ index' = [index EXCEPT ![side] = marked]
      /\ IF best_index[side] = i
         THEN /\ tally' = Invalidated(t, side)
              /\ best_index' = [best_index EXCEPT ![side] = IndexedBest(side, marked, active)]
         ELSE /\ tally' = t
              /\ UNCHANGED best_index

\* eraseByRef() of an order that has a reference, in a call whose tally is t.
EraseByRef(id, t) ==
  LET side   == refs[id].side
      p      == refs[id].price
      left   == Unlinked(orders[side][p], id)
      qty    == total[side][p] - orders[side][p][NodeOf(orders[side][p], id)].qty
      active == LevelActive(qty, left)
  IN  /\ refs' = [refs EXCEPT ![id] = None]
      /\ orders' = [orders EXCEPT ![side][p] = IF active THEN left ELSE <<>>]
      /\ total' = [total EXCEPT ![side][p] = IF active THEN qty ELSE 0]
      /\ IF active
         THEN tally' = t /\ UNCHANGED <<best_index, index>>
         ELSE ClearLevel(side, PriceToIndex(p), t)

\* Mutant of BestAfterRest: the first level to become active stays the best.
BestAfterRestWhenEmpty(side, i) ==
  IF best_index[side] < 0 THEN [best_index EXCEPT ![side] = i] ELSE best_index

\* The best levels after an order rested on level i.
BestAfterRest(side, i) ==
  IF best_index[side] < 0 \/ Better(side, i, best_index[side])
  THEN [best_index EXCEPT ![side] = i]
  ELSE best_index
-----------------------------------------------------------------------------
New(side, id, price, qty) ==
  /\ BeginNew(side, id, price, qty)
  /\ UNCHANGED <<best_index, index>>

Trade ==
  /\ BeginNothing
  /\ UNCHANGED <<best_index, index>>

\* cancel() and modify() of an id that is not in order_refs_ return at once.
UnknownOrder(id) ==
  /\ ~HasOrder(id)
  /\ BeginNothing
  /\ UNCHANGED <<best_index, index>>

\* cancel(), and modify() with qty <= 0, of an order in the book.
Cancel(id) ==
  /\ pc = "idle"
  /\ HasOrder(id)
  /\ EraseByRef(id, ZeroTally)
  /\ UNCHANGED <<pc, call>>

\* modify() with qty > 0 erases the order, then calls applyNew(): an order moved
\* to a price without a level is lost.
Modify(id, price, qty) ==
  /\ pc = "idle"
  /\ HasOrder(id)
  /\ qty > 0
  /\ EraseByRef(id, ZeroTally)
  /\ EnterApplyNew(refs[id].side, id, price, qty, FALSE)

\* Mutant of Acceptable: the array has a slot for every price.
AcceptableAtAnyPrice == call.qty > 0 /\ call.id # ZeroId

\* applyNew() looks at quantity, id and index before it changes anything.
Acceptable == call.qty > 0 /\ call.id # ZeroId /\ PriceToIndex(call.price) \in Index

Refuse ==
  /\ pc = "applyNew"
  /\ ~Acceptable
  /\ Return
  /\ UNCHANGED <<orders, total, refs, tally, best_index, index>>

\* applyNew() cancels the resting order that has the same id.
Replace ==
  /\ pc = "applyNew"
  /\ Acceptable
  /\ HasOrder(call.id)
  /\ EraseByRef(call.id, tally)
  /\ UNCHANGED <<pc, call>>

StartMatch ==
  /\ pc = "applyNew"
  /\ Acceptable
  /\ ~HasOrder(call.id)
  /\ BeginMatch(WouldCross(call.side, call.price))
  /\ UNCHANGED <<best_index, index>>

MatchLevel ==
  /\ pc = "match"
  /\ call.rem > 0
  /\ WouldCross(call.side, call.price)
  /\ BeginConsume(IndexToPrice(best_index[Opposite(call.side)]))
  /\ UNCHANGED <<best_index, index>>

Fill ==
  /\ FillFront
  /\ UNCHANGED <<best_index, index>>

\* consumeLevel() after its loop.
LeaveLevel ==
  LET side   == Opposite(call.side)
      active == LevelActive(total[side][call.at], orders[side][call.at])
  IN  /\ pc = "consume"
      /\ ~CanFill
      /\ orders' = [orders EXCEPT ![side][call.at] = IF active THEN @ ELSE <<>>]
      /\ total' = [total EXCEPT ![side][call.at] = IF active THEN @ ELSE 0]
      /\ IF active
         THEN UNCHANGED <<tally, best_index, index>>
         ELSE ClearLevel(side, PriceToIndex(call.at), tally)
      /\ pc' = "match"
      /\ UNCHANGED <<refs, call>>

\* matchIncoming() has ended.
Matched == pc = "match" /\ ~(call.rem > 0 /\ WouldCross(call.side, call.price))

Done ==
  /\ Matched
  /\ call.rem = 0
  /\ Return
  /\ UNCHANGED <<orders, total, refs, tally, best_index, index>>

\* insertResting()
Rest ==
  LET side       == call.side
      p          == call.price
      was_active == LevelActive(total[side][p], orders[side][p])
  IN  /\ Matched
      /\ call.rem > 0
      /\ total' = [total EXCEPT ![side][p] = @ + call.rem]
      /\ orders' = [orders EXCEPT ![side][p] = Append(@, [id |-> call.id, qty |-> call.rem])]
      /\ refs' = [refs EXCEPT ![call.id] = [side |-> side, price |-> p]]
      /\ index' = IF was_active THEN index
                  ELSE [index EXCEPT ![side] = Marked(@, PriceToIndex(p), TRUE)]
      /\ best_index' = BestAfterRest(side, PriceToIndex(p))
      /\ Return
      /\ UNCHANGED tally
-----------------------------------------------------------------------------
Init ==
  /\ BaseInit
  /\ best_index = [s \in Side |-> -1]
  /\ index = [s \in Side |-> EmptyIndex]

\* A message arrives.
Message ==
  \/ \E s \in Side, id \in OrderId \cup {ZeroId}, p \in Price, q \in Qty : New(s, id, p, q)
  \/ \E id \in OrderId \cup {ZeroId} : UnknownOrder(id) \/ Cancel(id)
  \/ \E id \in OrderId, p \in Price, q \in Qty : Modify(id, p, q)
  \/ Trade

\* The call in progress goes on.
Step == Refuse \/ Replace \/ StartMatch \/ MatchLevel \/ Fill \/ LeaveLevel \/ Done \/ Rest

Next == Message \/ Step

\* The caller need not send messages; a call that has begun runs on.
Spec == Init /\ [][Next]_vars /\ WF_vars(Step)
-----------------------------------------------------------------------------
\* The levels whose orders a caller can reach, and the one being consumed.
Occupied(side) ==
  {i \in Index : \/ orders[side][IndexToPrice(i)] # <<>>
                 \/ Consuming(side) /\ call.at = IndexToPrice(i)}

\* The variables keep their types, and no level outside the array is touched.
TypeOK ==
  /\ BaseTypeOK
  /\ best_index \in [Side -> Index \cup {-1}]
  /\ \A s \in Side, p \in Price \ TickPrice : orders[s][p] = <<>> /\ total[s][p] = 0

\* best_index is the best level of its side whenever wouldCross(), the loop of
\* matchIncoming() or a caller reads it, and total_qty is the sum of its queue:
\* no level has orders without being active, or is active without orders.
BestExact ==
  \A s \in Side :
    /\ best_index[s] = BestIndexOf(s, Occupied(s))
    /\ \A p \in Price : total[s][p] = QueueQty(orders[s][p])

\* The index of active levels marks the levels that have orders and no others.
\* A level marked twice, or cleared twice, would leave it wrong for good.
IndexExact == \A s \in Side : index[s] = IndexOf(Occupied(s))

\* Whenever recoverBest() were to run, it would find the best level of the book.
RecoverExact ==
  \A s \in Side : IndexedBest(s, index[s], Occupied(s)) = BestIndexOf(s, Occupied(s))

\* What setActive() and recoverBest() promise for any set of levels: marking takes
\* the index of one set to that of another, and its best level is the set's.
IndexContract(empty, mark(_, _, _), best(_, _, _), of(_)) ==
  /\ of({}) = empty
  /\ \A levels \in SUBSET Index, i \in Index :
       /\ i \notin levels => mark(of(levels), i, TRUE) = of(levels \cup {i})
       /\ i \in levels => mark(of(levels), i, FALSE) = of(levels \ {i})
  /\ \A levels \in SUBSET Index, s \in Side :
       best(s, of(levels), levels) = BestIndexOf(s, levels)
=============================================================================
