------------------------------- MODULE L3BookOps -------------------------------
(***************************************************************************)
(* What one message does to an L3 book with price-time priority, stated    *)
(* declaratively: not by the loops of L3OrderBook.hpp but by how much      *)
(* resting quantity has priority over each order.  A book bk is            *)
(* [Side -> [Price -> Seq(Order)]], each queue oldest order first.         *)
(***************************************************************************)
EXTENDS L3Types, FiniteSets

CONSTANT Accepted   \* the prices at which the book accepts a new order

ASSUME AcceptedAssumption == Accepted \subseteq Price
-----------------------------------------------------------------------------
\* f(x), for an x that TLC would otherwise evaluate at every mention of it.
With(x, f(_)) == CHOOSE y \in {f(v) : v \in {x}} : TRUE

\* The orders at the places in `keep`, in their order: what SelectSeq returns, stated
\* by rank, as a proof cannot unfold its recursion.
Kept(queue, keep) ==
  [k \in 1 .. Cardinality(keep) |->
     queue[CHOOSE i \in keep : Cardinality({j \in keep : j < i}) = k - 1]]

Liquidity(bk, side, prices) == MapThenSumSet(LAMBDA p : QueueQty(bk[side][p]), prices)

Active(bk, side) == {p \in Price : bk[side][p] # <<>>}

IdsAt(bk, side, p) == {bk[side][p][i].id : i \in DOMAIN bk[side][p]}

\* bestBid() and bestAsk().
Best(bk, side) ==
  IF Active(bk, side) = {} THEN None
  ELSE LET p == BestOf(side, Active(bk, side))
       IN  [price |-> p, qty |-> QueueQty(bk[side][p])]

Has(bk, id) == \E s \in Side, p \in Price : id \in IdsAt(bk, s, p)

SideOf(bk, id) == CHOOSE s \in Side : \E p \in Price : id \in IdsAt(bk, s, p)

\* No order id rests in two places.
OnePlaceEach(bk) ==
  \A s, t \in Side, p, r \in Price :
    \A i \in DOMAIN bk[s][p], j \in DOMAIN bk[t][r] :
      bk[s][p][i].id = bk[t][r][j].id => s = t /\ p = r /\ i = j

\* The book without one order.
Erased(bk, id) ==
  [s \in Side |-> [p \in Price |->
     Kept(bk[s][p], {i \in DOMAIN bk[s][p] : bk[s][p][i].id # id})]]

\* Place a = <<price, position>> is served before place b: a better price, or
\* the same price and older.
HasPriority(side, a, b) ==
  Better(side, a[1], b[1]) \/ (a[1] = b[1] /\ a[2] < b[2])

\* Mutant of Ahead: a level is served newest order first.
AheadNewestFirst(bk, side, p, i) ==
  LET queue == bk[side][p]
  IN  Liquidity(bk, side, {x \in Price : Better(side, x, p)})
        + QueueQty(SubSeq(queue, i + 1, Len(queue)))

\* Resting quantity that price-time priority serves before order i of level p.
Ahead(bk, side, p, i) ==
  Liquidity(bk, side, {x \in Price : Better(side, x, p)})
    + QueueQty(SubSeq(bk[side][p], 1, i - 1))

\* What order i of level p trades against an incoming order.
FillOf(bk, side, limit, qty, p, i) ==
  LET resting == Opposite(side)
      left    == qty - Ahead(bk, resting, p, i)
  IN  IF Crosses(side, limit, p) /\ left > 0
      THEN MinOf(left, bk[resting][p][i].qty)
      ELSE 0

\* Mutant of MatchedBook: an order filled in part is queued again behind its level.
MatchedRequeueing(bk, side, limit, qty) ==
  LET After(p) ==
        LET queue == bk[Opposite(side)][p]
            rest  == [i \in DOMAIN queue |->
                       [queue[i] EXCEPT !.qty = @ - FillOf(bk, side, limit, qty, p, i)]]
            whole == SelectSeq(queue, LAMBDA o : \E i \in DOMAIN rest : rest[i] = o)
        IN  whole \o SelectSeq(rest, LAMBDA o : o.qty > 0 /\ o \notin ToSet(whole))
  IN  [bk EXCEPT ![Opposite(side)] = [p \in Price |-> After(p)]]

\* The book after matching, without the incoming order.
MatchedBook(bk, side, limit, qty) ==
  LET After(p) ==
        LET queue == bk[Opposite(side)][p]
            rest  == [i \in DOMAIN queue |->
                       [queue[i] EXCEPT !.qty = @ - FillOf(bk, side, limit, qty, p, i)]]
        IN  Kept(rest, {i \in DOMAIN rest : rest[i].qty > 0})
  IN  [bk EXCEPT ![Opposite(side)] = [p \in Price |-> After(p)]]

\* Mutant of Filled: everything within the limit is traded, asked for or not.
FilledBeyondQty(bk, side, limit, qty) ==
  Liquidity(bk, Opposite(side), {p \in Price : Crosses(side, limit, p)})

Filled(bk, side, limit, qty) ==
  MinOf(qty, Liquidity(bk, Opposite(side), {p \in Price : Crosses(side, limit, p)}))

\* Mutant of AfterMatch: the original quantity is rested, not the remaining one.
AfterMatchRestingAll(bk, side, id, limit, qty) ==
  IF qty = Filled(bk, side, limit, qty) THEN MatchedBook(bk, side, limit, qty)
  ELSE [MatchedBook(bk, side, limit, qty) EXCEPT
          ![side][limit] = Append(@, [id |-> id, qty |-> qty])]

\* Matching followed by resting what is left at the back of its level.
AfterMatch(bk, side, id, limit, qty) ==
  LET left    == qty - Filled(bk, side, limit, qty)
      matched == MatchedBook(bk, side, limit, qty)
  IN  IF left = 0 THEN matched
      ELSE [matched EXCEPT ![side][limit] = Append(@, [id |-> id, qty |-> left])]

Refused(id, price, qty) == qty = 0 \/ id = ZeroId \/ price \notin Accepted

\* Mutant of AfterNew: an id that already rests is not erased first.
AfterNewDuplicating(bk, side, id, price, qty) ==
  IF Refused(id, price, qty) THEN bk ELSE AfterMatch(bk, side, id, price, qty)

AfterNew(bk, side, id, price, qty) ==
  IF Refused(id, price, qty) THEN bk
  ELSE With(Erased(bk, id), LAMBDA left : AfterMatch(left, side, id, price, qty))

\* The book after one message of the feed.
Apply(bk, msg) ==
  LET rests == Has(bk, msg.order_id)
  IN  CASE msg.op_code = "N" ->
             AfterNew(bk, msg.side, msg.order_id, msg.price_tick, msg.quantity)
        [] msg.op_code = "T" \/ (msg.op_code \in {"X", "M"} /\ ~rests) -> bk
        [] rests /\ (msg.op_code = "X" \/ (msg.op_code = "M" /\ msg.quantity = 0)) ->
             Erased(bk, msg.order_id)
        [] rests /\ msg.op_code = "M" /\ msg.quantity > 0 ->
             With(Erased(bk, msg.order_id),
                  LAMBDA left : AfterNew(left, SideOf(bk, msg.order_id), msg.order_id,
                                         msg.price_tick, msg.quantity))
-----------------------------------------------------------------------------
(* The counters of L3BookStats that do not depend on the price-level index. *)

\* The counters of two steps together.
Plus(t, u) ==
  With([t |-> t, u |-> u], LAMBDA v :
    [crossing_new_orders    |-> v.t.crossing_new_orders + v.u.crossing_new_orders,
     crossing_modify_orders |-> v.t.crossing_modify_orders + v.u.crossing_modify_orders,
     match_events           |-> v.t.match_events + v.u.match_events,
     traded_qty             |-> v.t.traded_qty + v.u.traded_qty,
     invalidations          |->
       [s \in Side |-> v.t.invalidations[s] + v.u.invalidations[s]]])

\* Erasing the last order of the best level invalidates the best level.
EraseTally(bk, id) ==
  [ZeroTally EXCEPT !.invalidations =
     [s \in Side |->
        IF /\ Active(bk, s) # {}
           /\ IdsAt(bk, s, BestOf(s, Active(bk, s))) = {id}
        THEN 1 ELSE 0]]

\* One match event per order filled, one invalidation per level swept.
MatchTally(bk, side, limit, qty) ==
  LET resting == Opposite(side)
      hit(p)  == {i \in DOMAIN bk[resting][p] : FillOf(bk, side, limit, qty, p, i) > 0}
      swept   == With(MatchedBook(bk, side, limit, qty)[resting],
                      LAMBDA left : {p \in Active(bk, resting) : left[p] = <<>>})
  IN  [ZeroTally EXCEPT
         !.match_events = MapThenSumSet(LAMBDA p : Cardinality(hit(p)), Price),
         !.traded_qty = Filled(bk, side, limit, qty),
         !.invalidations[resting] = Cardinality(swept)]

\* The order would trade at once, counted under the message kind that brought it.
CrossTally(bk, side, limit, isNew) ==
  LET best    == Best(bk, Opposite(side))
      crosses == best # None /\ Crosses(side, limit, best.price)
  IN  [ZeroTally EXCEPT
         !.crossing_new_orders = IF crosses /\ isNew THEN 1 ELSE 0,
         !.crossing_modify_orders = IF crosses /\ ~isNew THEN 1 ELSE 0]

NewTally(bk, side, id, price, qty, isNew) ==
  IF Refused(id, price, qty) THEN ZeroTally
  ELSE With(Erased(bk, id),
            LAMBDA left : Plus(EraseTally(bk, id),
                               Plus(CrossTally(left, side, price, isNew),
                                    MatchTally(left, side, price, qty))))
=============================================================================
