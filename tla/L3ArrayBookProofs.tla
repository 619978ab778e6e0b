--------------------------- MODULE L3ArrayBookProofs ---------------------------
(***************************************************************************)
(* Type correctness of the array books, exactness of best_index and of the *)
(* index of active levels, for any numbers of orders, ticks and quantities *)
(* and for any index that keeps IndexContract; that the three indices, the *)
(* scan, the Fenwick trees and the words of bits, keep it; and that the    *)
(* array books implement L3Book.                                           *)
(***************************************************************************)
EXTENDS L3ArrayScanBook, L3ArrayFenwickBook, L3ArrayBitsetBook, FenwickCounts,
        L3BookBaseProofs

\* The index parameters of this book keep the contract.
IndexSound == IndexContract(EmptyIndex, Marked, IndexedBest, IndexOf)

\* The array indices of a set of prices.
Indices(P) == {i \in Index : IndexToPrice(i) \in P}

\* priceToIndex() and indexToPrice() are inverse to each other on the ticks and the array.
LEMMA IndexFacts ==
  /\ \A i \in Index : /\ i \in Int /\ i >= 0 /\ IndexToPrice(i) \in TickPrice
                      /\ PriceToIndex(IndexToPrice(i)) = i
  /\ \A p \in TickPrice : /\ p \in Price /\ PriceToIndex(p) \in Index
                          /\ IndexToPrice(PriceToIndex(p)) = p
  /\ \A p \in Price : PriceToIndex(p) \in Index => p \in TickPrice
BY TypesAssumption DEF Index, MaxIndex, IndexToPrice, PriceToIndex, TickPrice, Price

\* Better levels are levels with a better price.
LEMMA BetterIndex ==
  ASSUME NEW s \in Side, NEW i \in Index, NEW j \in Index
  PROVE  Better(s, IndexToPrice(i), IndexToPrice(j)) <=> Better(s, i, j)
BY IndexFacts, TypesAssumption DEF Better, IndexToPrice

\* The best of a set of array indices is the index of its best price.
LEMMA BestIndexFacts ==
  ASSUME NEW s \in Side, NEW P \in SUBSET TickPrice
  PROVE  /\ P = {} => BestIndexOf(s, Indices(P)) = -1
         /\ P # {} => BestIndexOf(s, Indices(P)) = PriceToIndex(BestOf(s, P))
<1>1. P = {} => BestIndexOf(s, Indices(P)) = -1
  BY DEF BestIndexOf, Indices
<1>2. ASSUME P # {} PROVE BestIndexOf(s, Indices(P)) = PriceToIndex(BestOf(s, P))
  <2>1. P \in SUBSET Price
    BY IndexFacts
  <2>2. PICK b \in P : b = BestOf(s, P) /\ \A q \in P : ~Better(s, q, b)
    BY <1>2, <2>1, BestOfExists
  <2>3. PICK i \in Index : i = PriceToIndex(b) /\ IndexToPrice(i) = b
    BY <2>2, IndexFacts
  <2>4. i \in Indices(P) /\ \A j \in Indices(P) : ~Better(s, j, i)
    BY <2>2, <2>3, BetterIndex DEF Indices
  <2>5. \A j \in Indices(P) : (\A k \in Indices(P) : ~Better(s, k, j)) => j = i
    <3> SUFFICES ASSUME NEW j \in Indices(P), \A k \in Indices(P) : ~Better(s, k, j)
                 PROVE  j = i
      OBVIOUS
    <3>1. ~Better(s, i, j) /\ ~Better(s, j, i) /\ i \in Int /\ j \in Int
      BY <2>4, IndexFacts DEF Indices
    <3>2. QED
      BY <3>1 DEF Better
  <2>6. BestOf(s, Indices(P)) = i
    BY <2>4, <2>5 DEF BestOf
  <2>7. QED
    BY <2>2, <2>3, <2>4, <2>6 DEF BestIndexOf
<1>3. QED
  BY <1>1, <1>2

\* The best price of a set that gains one.
LEMMA BestWith ==
  ASSUME NEW s \in Side, NEW P \in SUBSET Price, NEW p \in Price
  PROVE  BestOf(s, P \cup {p}) = IF P = {} \/ Better(s, p, BestOf(s, P)) THEN p ELSE BestOf(s, P)
<1> DEFINE Q == P \cup {p}
<1>1. Q \in SUBSET Price /\ p \in Q /\ ~Better(s, p, p)
  BY PriceFacts DEF Better
<1>2. CASE P = {}
  <2>1. \A q \in Q : ~Better(s, q, p)
    BY <1>1, <1>2
  <2>2. BestOf(s, Q) = p
    BY <1>1, <2>1, BestOfUnique
  <2>3. QED
    BY <1>2, <2>2
<1>3. CASE P # {}
  <2>1. PICK b \in P : b = BestOf(s, P) /\ \A q \in P : ~Better(s, q, b)
    BY <1>3, BestOfExists
  <2>2. b \in Int /\ p \in Int /\ \A q \in P : q \in Int
    BY <2>1, PriceFacts
  <2>3. CASE Better(s, p, b)
    <3>1. \A q \in P : ~Better(s, q, p)
      BY <2>1, <2>2, <2>3 DEF Better
    <3>2. \A q \in Q : ~Better(s, q, p)
      BY <1>1, <3>1
    <3>3. BestOf(s, Q) = p
      BY <1>1, <3>2, BestOfUnique
    <3>4. QED
      BY <2>1, <2>3, <3>3
  <2>4. CASE ~Better(s, p, b)
    <3>1. b \in Q /\ \A q \in Q : ~Better(s, q, b)
      BY <2>1, <2>4
    <3>2. BestOf(s, Q) = b
      BY <1>1, <3>1, BestOfUnique
    <3>3. QED
      BY <1>3, <2>1, <2>4, <3>2
  <2>5. QED
    BY <2>3, <2>4
<1>4. QED
  BY <1>2, <1>3
-----------------------------------------------------------------------------
(* The inductive invariant. *)

\* Only the levels of the array are used, and only orders for one of them match.
TicksOnly ==
  /\ \A s \in Side : Standing(s) \subseteq TickPrice
  /\ pc \in {"match", "consume"} => call.price \in TickPrice

\* The index marks the standing levels.
MarksExact == index = [s \in Side |-> IndexOf(Indices(Standing(s)))]

BestSound == best_index = [s \in Side |-> BestIndexOf(s, Indices(Standing(s)))]

IInv ==
  /\ BaseInv
  /\ TicksOnly
  /\ MarksExact
  /\ BestSound

\* best_index of a side is that of its best standing level, or -1.
LEMMA BestLevelIs ==
  ASSUME IInv, NEW s \in Side
  PROVE  /\ Standing(s) \in SUBSET TickPrice
         /\ Standing(s) = {} => best_index[s] = -1
         /\ Standing(s) # {} => /\ best_index[s] \in Index /\ best_index[s] >= 0
                               /\ IndexToPrice(best_index[s]) = BestOf(s, Standing(s))
                               /\ BestOf(s, Standing(s)) \in TickPrice
<1>1. Standing(s) \in SUBSET TickPrice /\ best_index[s] = BestIndexOf(s, Indices(Standing(s)))
  BY DEF IInv, TicksOnly, BestSound
<1>2. Standing(s) = {} => best_index[s] = -1
  BY <1>1, BestIndexFacts
<1>3. ASSUME Standing(s) # {}
      PROVE  /\ best_index[s] = PriceToIndex(BestOf(s, Standing(s)))
             /\ BestOf(s, Standing(s)) \in TickPrice
  <2>1. best_index[s] = PriceToIndex(BestOf(s, Standing(s)))
    BY <1>1, <1>3, BestIndexFacts
  <2>2. Standing(s) \in SUBSET Price
    BY DEF Standing
  <2>3. BestOf(s, Standing(s)) \in Standing(s)
    BY <1>3, <2>2, BestOfExists
  <2>4. QED
    BY <1>1, <2>1, <2>3
<1>4. QED
  BY <1>1, <1>2, <1>3, IndexFacts

\* PriceLevel::active() of a level is that it has orders.
LEMMA ActiveFacts ==
  ASSUME BaseInv, NEW s \in Side
  PROVE  \A p \in Price : LevelActive(total[s][p], orders[s][p]) <=> orders[s][p] # <<>>
BY QueueQtyFacts DEF BaseInv, BaseTypeOK, TotalsExact, LevelActive
-----------------------------------------------------------------------------
(* Erasing a level and erasing an order, wherever in a call that happens. *)

\* Clearing an emptied level leaves the best index and the marks right about the
\* levels that stand without it.
LEMMA ClearLevelFacts ==
  ASSUME IndexSound, IInv, NEW s \in Side, NEW p \in Standing(s), NEW t \in Tally,
         Consuming(s) => call.at = p, ClearLevel(s, PriceToIndex(p), t),
         NEW rest, rest = Indices(Standing(s) \ {p})
  PROVE  /\ index' = [index EXCEPT ![s] = IndexOf(rest)]
         /\ best_index' = [best_index EXCEPT ![s] = BestIndexOf(s, rest)]
         /\ tally' \in Tally
         /\ tally'.crossing_new_orders = t.crossing_new_orders
         /\ tally'.crossing_modify_orders = t.crossing_modify_orders
<1>1. PICK i \in Index : i = PriceToIndex(p) /\ IndexToPrice(i) = p
  BY BestLevelIs, IndexFacts
<1>2. PICK S \in SUBSET TickPrice : S = Standing(s)
  BY BestLevelIs
<1>3. /\ Indices(S) \in SUBSET Index /\ i \in Indices(S)
      /\ rest \in SUBSET Index /\ rest = Indices(S) \ {i}
  BY <1>1, <1>2, IndexFacts DEF Indices
<1>4. index[s] = IndexOf(Indices(S)) /\ best_index[s] = BestIndexOf(s, Indices(S))
  BY <1>2 DEF IInv, MarksExact, BestSound
<1>5. Marked(index[s], i, FALSE) = IndexOf(rest)
  BY <1>3, <1>4, ZenonT(30) DEF IndexSound, IndexContract
<1>6. ActiveIn(total[s], orders[s]) \ {i} = rest
  <2>1. \A j \in Index : LevelActive(total[s][IndexToPrice(j)], orders[s][IndexToPrice(j)])
                           <=> orders[s][IndexToPrice(j)] # <<>>
    BY ActiveFacts, IndexFacts DEF IInv
  <2>2. \A j \in Index : j # i => IndexToPrice(j) # p
    BY <1>1, IndexFacts
  <2>3. \A j \in Index : j # i => (orders[s][IndexToPrice(j)] # <<>> <=> j \in Indices(S))
    BY <1>2, <2>2, IndexFacts DEF Standing, Indices
  <2>4. QED
    BY <1>3, <2>1, <2>3 DEF ActiveIn
<1>7. IndexedBest(s, IndexOf(rest), rest) = BestIndexOf(s, rest)
  BY <1>3 DEF IndexSound, IndexContract
<1>8. index' = [index EXCEPT ![s] = IndexOf(rest)]
  BY <1>1, <1>5 DEF ClearLevel
<1>9. CASE best_index[s] = i
  <2>1. /\ tally' = Invalidated(t, s)
        /\ best_index' = [best_index EXCEPT ![s] = BestIndexOf(s, rest)]
    BY <1>1, <1>5, <1>6, <1>7, <1>9 DEF ClearLevel
  <2>2. QED
    BY <1>8, <2>1, TallyFacts
<1>10. CASE best_index[s] # i
  <2>1. tally' = t /\ best_index' = best_index
    BY <1>1, <1>10 DEF ClearLevel
  <2>2. S \in SUBSET Price /\ S # {}
    BY <1>2, IndexFacts
  <2>3. PICK b \in S : b = BestOf(s, S) /\ \A q \in S : ~Better(s, q, b)
    BY <2>2, BestOfExists
  <2>4. best_index[s] = PriceToIndex(b)
    BY <1>4, <2>2, <2>3, BestIndexFacts
  <2>5. b # p
    BY <1>1, <1>10, <2>4
  <2>6. PICK R \in SUBSET TickPrice : R = S \ {p}
    OBVIOUS
  <2>7. b \in R /\ R \in SUBSET Price /\ \A q \in R : ~Better(s, q, b)
    BY <2>2, <2>3, <2>5, <2>6
  <2>8. BestOf(s, R) = b
    BY <2>7, BestOfUnique
  <2>9. BestIndexOf(s, rest) = best_index[s]
    BY <1>2, <2>4, <2>6, <2>7, <2>8, BestIndexFacts
  <2>10. best_index = [best_index EXCEPT ![s] = best_index[s]]
    BY DEF IInv, BestSound
  <2>11. QED
    BY <1>8, <2>1, <2>9, <2>10
<1>11. QED
  BY <1>9, <1>10

\* Marks and best levels after one side's levels became those of a set.
LEMMA SideChanges ==
  ASSUME MarksExact, BestSound, NEW s \in Side, NEW L,
         L = Indices(Standing(s)'), \A r \in Side : r # s => Standing(r)' = Standing(r),
         index' = [index EXCEPT ![s] = IndexOf(L)],
         best_index' = [best_index EXCEPT ![s] = BestIndexOf(s, L)]
  PROVE  MarksExact' /\ BestSound'
<1>1. \A r \in Side : Indices(Standing(r))' = IF r = s THEN L ELSE Indices(Standing(r))
  BY DEF Indices, Index, MaxIndex, IndexToPrice
<1>2. MarksExact'
  BY <1>1 DEF MarksExact
<1>3. BestSound'
  BY <1>1 DEF BestSound
<1>4. QED
  BY <1>2, <1>3

\* Steps that leave the index and the set of standing levels alone.
LEMMA LevelsKept ==
  ASSUME IInv, UNCHANGED <<best_index, index>>, BaseInv',
         \A s \in Side : Standing(s)' = Standing(s),
         pc' \in {"match", "consume"} => call'.price \in TickPrice
  PROVE  IInv'
<1>1. \A s \in Side : Indices(Standing(s))' = Indices(Standing(s))
  BY DEF Indices, Index, MaxIndex, IndexToPrice
<1>2. MarksExact' /\ BestSound'
  BY <1>1 DEF IInv, MarksExact, BestSound
<1>3. TicksOnly'
  BY DEF IInv, TicksOnly
<1>4. QED
  BY <1>2, <1>3 DEF IInv

\* Erasing an order through its reference keeps queues, marks and best levels in step.
LEMMA EraseByRefKeeps ==
  ASSUME IndexSound, IInv, NEW id \in OrderId, NEW t \in Tally, refs[id] # None,
         EraseByRef(id, t), t.crossing_new_orders = 0, t.crossing_modify_orders = 0,
         ErasingCall(id, refs[id].side)
  PROVE  IInv'
<1>1. PICK s \in Side, p \in Price : RefIs(id, s, p)
  BY RefExists DEF IInv
<1>2. PICK left : left = Unlinked(orders[s][p], id)
  OBVIOUS
<1>3. /\ refs[id].side = s /\ refs[id].price = p /\ p \in Standing(s)
      /\ QueueQty(left) = total[s][p] - orders[s][p][NodeOf(orders[s][p], id)].qty
      /\ orders[s][p] \in Seq(Order) /\ DistinctIds(orders[s][p]) /\ Holds(orders[s][p], id)
  BY <1>1, <1>2, RefFacts DEF IInv
<1>4. left \in Seq(Order)
  BY <1>2, <1>3, UnlinkedFacts
<1>5. /\ LevelActive(QueueQty(left), left) <=> left # <<>>
      /\ left = <<>> => QueueQty(left) = 0
  BY <1>4, QueueQtyFacts DEF LevelActive
<1>6. /\ RefDropped(id)
      /\ LevelBecomes(s, p, left)
      /\ left = <<>> => ClearLevel(s, PriceToIndex(p), t)
      /\ left # <<>> => tally' = t /\ UNCHANGED <<best_index, index>>
  BY <1>2, <1>3, <1>5 DEF EraseByRef, LevelBecomes, RefDropped
<1>7. /\ \A o \in Side : ~Consuming(o)
      /\ pc' \notin {"match", "consume"}
  BY DEF ErasingCall, Consuming, EnterApplyNew
<1>8. PICK rest : rest = Indices(Standing(s) \ {p})
  OBVIOUS
<1>9. left = <<>> =>
        /\ index' = [index EXCEPT ![s] = IndexOf(rest)]
        /\ best_index' = [best_index EXCEPT ![s] = BestIndexOf(s, rest)]
        /\ tally' \in Tally
        /\ tally'.crossing_new_orders = t.crossing_new_orders
        /\ tally'.crossing_modify_orders = t.crossing_modify_orders
  BY <1>3, <1>6, <1>7, <1>8, ClearLevelFacts
<1>10. /\ tally' \in Tally
       /\ tally'.crossing_new_orders = 0 /\ tally'.crossing_modify_orders = 0
  BY <1>6, <1>9
<1>11. /\ BaseInv'
       /\ Standing(s)' = IF left = <<>> THEN Standing(s) \ {p} ELSE Standing(s)
       /\ \A r \in Side : r # s => Standing(r)' = Standing(r)
  <2>1. BaseInv /\ ErasingCall(id, s)
    BY <1>3 DEF IInv
  <2>2. QED
    BY <1>1, <1>2, <1>6, <1>10, <2>1, EraseKeeps
<1>12. CASE left = <<>>
  <2>1. TicksOnly'
    BY <1>7, <1>11, <1>12 DEF IInv, TicksOnly
  <2>2. MarksExact' /\ BestSound'
    <3>1. rest = Indices(Standing(s)')
      BY <1>8, <1>11, <1>12
    <3>2. MarksExact /\ BestSound
      BY DEF IInv
    <3>3. QED
      BY <1>9, <1>11, <1>12, <3>1, <3>2, SideChanges
  <2>3. QED
    BY <1>11, <2>1, <2>2 DEF IInv
<1>13. CASE left # <<>>
  <2>1. \A r \in Side : Standing(r)' = Standing(r)
    BY <1>11, <1>13
  <2>2. QED
    BY <1>6, <1>7, <1>11, <1>13, <2>1, LevelsKept
<1>14. QED
  BY <1>12, <1>13
-----------------------------------------------------------------------------
(* Every step keeps the invariant: first the steps that leave the levels alone. *)

\* A message that starts a new order keeps the invariant (apply, case New).
LEMMA NewStep ==
  ASSUME IInv, NEW s \in Side, NEW id \in OrderId \cup {ZeroId}, NEW p \in Price,
         NEW q \in Qty, New(s, id, p, q)
  PROVE  IInv'
<1>1. BeginNew(s, id, p, q) /\ UNCHANGED <<best_index, index>> /\ pc' = "applyNew"
  BY DEF New, BeginNew, EnterApplyNew
<1>2. BaseInv' /\ \A r \in Side : Standing(r)' = Standing(r)
  BY <1>1, BeginNewKeeps DEF IInv
<1>3. QED
  BY <1>1, <1>2, LevelsKept

\* A message that changes nothing keeps the invariant: a trade, a cancel or modify of an
\* unknown order.
LEMMA NothingStep ==
  ASSUME IInv, BeginNothing, UNCHANGED <<best_index, index>>
  PROVE  IInv'
<1>1. BaseInv' /\ \A r \in Side : Standing(r)' = Standing(r)
  BY BeginNothingKeeps DEF IInv
<1>2. pc' = "idle"
  BY DEF BeginNothing
<1>3. QED
  BY <1>1, <1>2, LevelsKept

\* A call that returns, refused or with nothing left to do, keeps the invariant.
LEMMA ReturnStep ==
  ASSUME IInv, Refuse \/ Done
  PROVE  IInv'
<1>1. /\ pc \in {"applyNew", "match"} /\ Return /\ pc' = "idle"
      /\ UNCHANGED <<orders, total, refs, tally, best_index, index>>
  BY DEF Refuse, Done, Matched, Return
<1>2. BaseInv' /\ \A r \in Side : Standing(r)' = Standing(r)
  BY <1>1, ReturnKeeps DEF IInv
<1>3. QED
  BY <1>1, <1>2, LevelsKept

\* Only an order whose price has a slot in the array goes on to match.
LEMMA StartMatchStep ==
  ASSUME IInv, StartMatch
  PROVE  IInv'
<1>1. PICK crosses \in BOOLEAN : crosses = WouldCross(call.side, call.price)
  BY DEF WouldCross
<1>2. /\ BeginMatch(crosses) /\ call.id # ZeroId /\ ~HasOrder(call.id)
      /\ UNCHANGED <<best_index, index>> /\ call' = call
      /\ PriceToIndex(call.price) \in Index /\ pc = "applyNew"
  BY <1>1 DEF StartMatch, Acceptable, BeginMatch
<1>3. BaseInv' /\ \A r \in Side : Standing(r)' = Standing(r)
  BY <1>2, BeginMatchKeeps DEF IInv
<1>4. call'.price \in TickPrice
  <2>1. call.price \in Price
    BY <1>2 DEF IInv, BaseInv, BaseTypeOK, Call
  <2>2. QED
    BY <1>2, <2>1, IndexFacts
<1>5. QED
  BY <1>2, <1>3, <1>4, LevelsKept
-----------------------------------------------------------------------------
(* The steps that erase one order. *)

\* eraseOrder() for a cancel keeps the invariant.
LEMMA CancelStep ==
  ASSUME IndexSound, IInv, NEW id, Cancel(id)
  PROVE  IInv'
<1>1. /\ pc = "idle" /\ UNCHANGED <<pc, call>>
      /\ id \in OrderId /\ refs[id] # None /\ EraseByRef(id, ZeroTally)
  BY DEF Cancel, HasOrder
<1>2. QED
  BY <1>1, EraseByRefKeeps, TallyFacts DEF ErasingCall

\* The erasure with which a modify begins keeps the invariant.
LEMMA ModifyStep ==
  ASSUME IndexSound, IInv, NEW id \in OrderId, NEW p \in Price, NEW q \in Qty,
         Modify(id, p, q)
  PROVE  IInv'
<1>1. /\ pc = "idle" /\ EnterApplyNew(refs[id].side, id, p, q, FALSE)
      /\ refs[id] # None /\ EraseByRef(id, ZeroTally)
  BY DEF Modify, HasOrder
<1>2. QED
  BY <1>1, EraseByRefKeeps, TallyFacts DEF ErasingCall

\* applyNew() of an id that rests in the book, which erases it first, keeps the invariant.
LEMMA ReplaceStep ==
  ASSUME IndexSound, IInv, Replace
  PROVE  IInv'
<1>1. /\ pc = "applyNew" /\ UNCHANGED <<pc, call>>
      /\ call.id \in OrderId /\ refs[call.id] # None /\ EraseByRef(call.id, tally)
      /\ tally \in Tally /\ tally.crossing_new_orders = 0 /\ tally.crossing_modify_orders = 0
  BY DEF IInv, BaseInv, BaseTypeOK, CallSound, Replace, HasOrder
<1>2. PICK id \in OrderId : id = call.id
  BY <1>1
<1>3. PICK t \in Tally : t = tally
  BY <1>1
<1>4. ErasingCall(id, refs[id].side)
  BY <1>1 DEF ErasingCall
<1>5. QED
  BY <1>1, <1>2, <1>3, <1>4, EraseByRefKeeps
-----------------------------------------------------------------------------
(* The steps of matchIncoming() and consumeLevel(). *)

\* Turning to the best opposite level keeps the invariant.
LEMMA MatchLevelStep ==
  ASSUME IInv, MatchLevel
  PROVE  IInv'
<1>1. PICK r \in Side : r = Opposite(call.side)
  BY SideFacts DEF IInv, BaseInv, BaseTypeOK, Call, MatchLevel, BeginConsume
<1>2. /\ best_index[r] >= 0 /\ BeginConsume(IndexToPrice(best_index[r])) /\ pc = "match"
      /\ UNCHANGED <<best_index, index>>
  BY <1>1 DEF MatchLevel, WouldCross
<1>3. Standing(r) # {} /\ IndexToPrice(best_index[r]) = BestOf(r, Standing(r))
  BY <1>2, BestLevelIs
<1>4. BaseInv' /\ \A s \in Side : Standing(s)' = Standing(s)
  BY <1>1, <1>2, <1>3, BeginConsumeKeeps DEF IInv
<1>5. call'.price \in TickPrice
  BY <1>2 DEF IInv, BaseInv, BaseTypeOK, TicksOnly, BeginConsume, Call
<1>6. QED
  BY <1>2, <1>4, <1>5, LevelsKept

\* One iteration of consumeLevel() keeps the invariant.
LEMMA FillStep ==
  ASSUME IInv, Fill
  PROVE  IInv'
<1>1. BaseInv' /\ \A s \in Side : Standing(s)' = Standing(s)
  BY FillFrontKeeps DEF IInv, Fill
<1>2. call'.price \in TickPrice
  BY DEF IInv, BaseInv, BaseTypeOK, TicksOnly, Fill, FillFront, Call
<1>3. QED
  BY <1>1, <1>2, LevelsKept DEF Fill

\* Leaving consumeLevel(), which erases a level it has emptied, keeps the invariant.
LEMMA LeaveLevelStep ==
  ASSUME IndexSound, IInv, LeaveLevel
  PROVE  IInv'
<1>1. PICK r, p : r = Opposite(call.side) /\ p = call.at
  OBVIOUS
<1>2. PICK t \in Tally : t = tally
  BY DEF IInv, BaseInv, BaseTypeOK
<1>3. pc = "consume" /\ pc' = "match" /\ UNCHANGED <<refs, call>> /\ call.price \in TickPrice
  BY DEF LeaveLevel, IInv, TicksOnly
<1>4. r \in Side /\ p \in Standing(r) /\ p \in Price
  BY <1>1, <1>3, ConsumeFacts DEF IInv
<1>5. LevelActive(total[r][p], orders[r][p]) <=> orders[r][p] # <<>>
  BY <1>4, ActiveFacts DEF IInv
<1>6. orders[r][p] = <<>> => total[r][p] = 0
  BY <1>4, QueueQtyFacts DEF IInv, BaseInv, TotalsExact
<1>7. UNCHANGED <<orders, total>>
  <2>1. /\ orders \in [Side -> [Price -> Seq(Order)]] /\ total \in [Side -> [Price -> Int]]
    BY DEF IInv, BaseInv, BaseTypeOK
  <2>2. /\ orders' = [orders EXCEPT ![r][p] = orders[r][p]]
        /\ total' = [total EXCEPT ![r][p] = total[r][p]]
    BY <1>1, <1>5, <1>6 DEF LeaveLevel
  <2>3. QED
    BY <2>1, <2>2
<1>8. PICK rest : rest = Indices(Standing(r) \ {p})
  OBVIOUS
<1>9. CASE orders[r][p] = <<>>
  <2>1. ClearLevel(r, PriceToIndex(p), t)
    BY <1>1, <1>2, <1>5, <1>9 DEF LeaveLevel
  <2>2. /\ index' = [index EXCEPT ![r] = IndexOf(rest)]
        /\ best_index' = [best_index EXCEPT ![r] = BestIndexOf(r, rest)]
        /\ tally' \in Tally
    BY <1>1, <1>4, <1>8, <2>1, ClearLevelFacts
  <2>3. /\ BaseInv'
        /\ Standing(r)' = Standing(r) \ {p}
        /\ \A s \in Side : s # r => Standing(s)' = Standing(s)
    BY <1>1, <1>3, <1>7, <1>9, <2>2, LeaveKeeps DEF IInv
  <2>4. TicksOnly'
    BY <1>3, <2>3 DEF IInv, TicksOnly
  <2>5. MarksExact' /\ BestSound'
    <3>1. rest = Indices(Standing(r)')
      BY <1>8, <2>3
    <3>2. MarksExact /\ BestSound
      BY DEF IInv
    <3>3. QED
      BY <1>4, <2>2, <2>3, <3>1, <3>2, SideChanges
  <2>6. QED
    BY <2>3, <2>4, <2>5 DEF IInv
<1>10. CASE orders[r][p] # <<>>
  <2>1. UNCHANGED <<tally, best_index, index>>
    BY <1>1, <1>5, <1>10 DEF LeaveLevel
  <2>2. BaseInv' /\ \A s \in Side : Standing(s)' = Standing(s)
    BY <1>1, <1>2, <1>3, <1>7, <1>10, <2>1, LeaveKeeps DEF IInv
  <2>3. QED
    BY <1>3, <2>1, <2>2, LevelsKept
<1>11. QED
  BY <1>9, <1>10

\* Resting what is left: matching has ended because the best opposite level is
\* out of reach, so the order's level crosses none.
LEMMA RestStep ==
  ASSUME IndexSound, IInv, Rest
  PROVE  IInv'
<1>1. /\ pc = "match" /\ call \in Call /\ call.rem > 0 /\ Return /\ tally' = tally
      /\ ~WouldCross(call.side, call.price) /\ call.price \in TickPrice
      /\ BaseInv /\ MarksExact /\ BestSound
  BY DEF IInv, BaseInv, BaseTypeOK, TicksOnly, Rest, Matched
<1>2. PICK s \in Side : s = call.side
  BY <1>1 DEF Call
<1>3. PICK p \in TickPrice : p = call.price
  BY <1>1
<1>4. PICK S \in SUBSET TickPrice : S = Standing(s)
  BY BestLevelIs
<1>5. PICK i \in Index : i = PriceToIndex(p) /\ IndexToPrice(i) = p /\ p \in Price
  BY IndexFacts
<1>6. S \in SUBSET Price /\ (p \in S <=> orders[s][p] # <<>>)
  BY <1>1, <1>4, <1>5 DEF Standing, Consuming
<1>7. LevelActive(total[s][p], orders[s][p]) <=> p \in S
  BY <1>1, <1>5, <1>6, ActiveFacts
<1>8. /\ OrderRests(s, p)
      /\ index' = IF p \in S THEN index ELSE [index EXCEPT ![s] = Marked(index[s], i, TRUE)]
      /\ best_index' = IF best_index[s] < 0 \/ Better(s, i, best_index[s])
                       THEN [best_index EXCEPT ![s] = i] ELSE best_index
  BY <1>1, <1>2, <1>3, <1>5, <1>7 DEF Rest, OrderRests, RefBecomes, BestAfterRest
<1>9. \A x \in Standing(Opposite(call.side)) : ~Crosses(call.side, call.price, x)
  <2>1. CASE Standing(Opposite(s)) = {}
    BY <1>2, <2>1
  <2>2. CASE Standing(Opposite(s)) # {}
    <3>1. ~Crosses(s, p, BestOf(Opposite(s), Standing(Opposite(s))))
      BY <1>1, <1>2, <1>3, <2>2, SideFacts, BestLevelIs DEF WouldCross
    <3>2. Standing(Opposite(s)) \in SUBSET Price
      BY DEF Standing
    <3>3. QED
      BY <1>2, <1>3, <1>5, <2>2, <3>1, <3>2, NoneCrosses
  <2>3. QED
    BY <2>1, <2>2
<1>10. /\ BaseInv'
       /\ Standing(s)' = S \cup {p}
       /\ \A r \in Side : r # s => Standing(r)' = Standing(r)
  BY <1>1, <1>2, <1>3, <1>4, <1>5, <1>8, <1>9, RestKeeps
<1>11. TicksOnly'
  BY <1>1, <1>4, <1>10 DEF IInv, TicksOnly, Return
<1>12. PICK T \in SUBSET TickPrice : T = S \cup {p}
  OBVIOUS
<1>13. PICK L : L = Indices(T)
  OBVIOUS
<1>14. L = Indices(S) \cup {i} /\ (i \in Indices(S) <=> p \in S) /\ Indices(S) \in SUBSET Index
  BY <1>5, <1>12, <1>13, IndexFacts DEF Indices
<1>15. index' = [index EXCEPT ![s] = IndexOf(L)]
  <2>1. index[s] = IndexOf(Indices(S)) /\ index = [index EXCEPT ![s] = index[s]]
    BY <1>1, <1>4 DEF MarksExact
  <2>2. CASE p \in S
    <3>1. L = Indices(S)
      BY <1>14, <2>2
    <3>2. QED
      BY <1>8, <2>1, <2>2, <3>1
  <2>3. CASE p \notin S
    <3>1. Marked(IndexOf(Indices(S)), i, TRUE) = IndexOf(L)
      BY <1>14, <2>3 DEF IndexSound, IndexContract
    <3>2. QED
      BY <1>8, <2>1, <2>3, <3>1
  <2>4. QED
    BY <2>2, <2>3
<1>16. best_index' = [best_index EXCEPT ![s] = BestIndexOf(s, L)]
  <2>1. best_index = [best_index EXCEPT ![s] = best_index[s]]
    BY <1>1 DEF BestSound
  <2>2. BestIndexOf(s, L) = PriceToIndex(BestOf(s, T))
    BY <1>12, <1>13, BestIndexFacts
  <2>3. BestOf(s, T) = IF S = {} \/ Better(s, p, BestOf(s, S)) THEN p ELSE BestOf(s, S)
    BY <1>5, <1>6, <1>12, BestWith
  <2>4. CASE S = {}
    <3>1. best_index[s] < 0
      <4>1. best_index[s] = -1
        BY <1>4, <2>4, BestLevelIs
      <4>2. QED
        BY <4>1
    <3>2. QED
      BY <1>5, <1>8, <2>2, <2>3, <2>4, <3>1
  <2>5. CASE S # {}
    <3>1. PICK j \in Index : j = best_index[s] /\ ~(j < 0) /\ IndexToPrice(j) = BestOf(s, S)
      BY <1>4, <2>5, BestLevelIs, IndexFacts
    <3>2. Better(s, p, BestOf(s, S)) <=> Better(s, i, j)
      BY <1>5, <3>1, BetterIndex
    <3>3. PriceToIndex(BestOf(s, S)) = j
      BY <3>1, IndexFacts
    <3>4. CASE Better(s, i, j)
      BY <1>5, <1>8, <2>2, <2>3, <3>1, <3>2, <3>4
    <3>5. CASE ~Better(s, i, j)
      BY <1>8, <2>1, <2>2, <2>3, <2>5, <3>1, <3>2, <3>3, <3>5
    <3>6. QED
      BY <3>4, <3>5
  <2>6. QED
    BY <2>4, <2>5
<1>17. MarksExact' /\ BestSound'
  <2>1. L = Indices(Standing(s)')
    BY <1>10, <1>12, <1>13
  <2>2. QED
    BY <1>1, <1>10, <1>15, <1>16, <2>1, SideChanges
<1>18. QED
  BY <1>10, <1>11, <1>17 DEF IInv
-----------------------------------------------------------------------------
(* The invariant, and what follows from it. *)

\* The invariant holds of an empty book.
LEMMA InitInv == IndexSound /\ Init => IInv
<1> SUFFICES ASSUME IndexSound, Init PROVE IInv
  OBVIOUS
<1>1. BaseInv /\ (\A s \in Side : Standing(s) = {}) /\ pc = "idle"
  BY BaseInitInv DEF Init, BaseInit
<1>2. \A s \in Side : Indices(Standing(s)) = {}
  BY <1>1 DEF Indices
<1>3. BestSound
  BY <1>2 DEF Init, BestSound, BestIndexOf
<1>4. MarksExact
  BY <1>2 DEF Init, MarksExact, IndexSound, IndexContract
<1>5. TicksOnly
  BY <1>1 DEF TicksOnly
<1>6. QED
  BY <1>1, <1>3, <1>4, <1>5 DEF IInv

\* Every step keeps the invariant.
LEMMA NextInv == IndexSound /\ IInv /\ [Next]_vars => IInv'
<1> SUFFICES ASSUME IndexSound, IInv, [Next]_vars PROVE IInv'
  OBVIOUS
<1>1. ASSUME NEW s \in Side, NEW id \in OrderId \cup {ZeroId}, NEW p \in Price,
             NEW q \in Qty, New(s, id, p, q)
      PROVE  IInv'
  BY <1>1, NewStep
<1>2. ASSUME NEW id \in OrderId \cup {ZeroId}, UnknownOrder(id) PROVE IInv'
  BY <1>2, NothingStep DEF UnknownOrder
<1>3. ASSUME NEW id \in OrderId \cup {ZeroId}, Cancel(id) PROVE IInv'
  BY <1>3, CancelStep
<1>4. ASSUME NEW id \in OrderId, NEW p \in Price, NEW q \in Qty, Modify(id, p, q) PROVE IInv'
  BY <1>4, ModifyStep
<1>5. ASSUME Trade PROVE IInv'
  BY <1>5, NothingStep DEF Trade
<1>6. ASSUME Refuse \/ Done PROVE IInv'
  BY <1>6, ReturnStep
<1>7. ASSUME Replace PROVE IInv'
  BY <1>7, ReplaceStep
<1>8. ASSUME StartMatch PROVE IInv'
  BY <1>8, StartMatchStep
<1>9. ASSUME MatchLevel PROVE IInv'
  BY <1>9, MatchLevelStep
<1>10. ASSUME Fill PROVE IInv'
  BY <1>10, FillStep
<1>11. ASSUME LeaveLevel PROVE IInv'
  BY <1>11, LeaveLevelStep
<1>12. ASSUME Rest PROVE IInv'
  BY <1>12, RestStep
<1>13. ASSUME UNCHANGED vars PROVE IInv'
  <2>1. BaseInv' /\ \A r \in Side : Standing(r)' = Standing(r)
    BY <1>13, StutterKeeps DEF IInv, vars, baseVars
  <2>2. pc' \in {"match", "consume"} => call'.price \in TickPrice
    BY <1>13 DEF vars, IInv, TicksOnly
  <2>3. QED
    BY <1>13, <2>1, <2>2, LevelsKept DEF vars
<1>14. QED
  BY <1>1, <1>2, <1>3, <1>4, <1>5, <1>6, <1>7, <1>8, <1>9, <1>10, <1>11, <1>12, <1>13
  DEF Next, Message, Step

\* The inductive invariant holds of every reachable state of a book whose index
\* keeps the contract: queues, orderId index, marks and best levels agree at
\* every step of every apply().
THEOREM Invariance == IndexSound => (Spec => []IInv)
<1> SUFFICES ASSUME IndexSound PROVE Spec => []IInv
  OBVIOUS
<1>1. Init => IInv
  BY InitInv
<1>2. IInv /\ [Next]_vars => IInv'
  BY NextInv
<1>3. QED
  BY <1>1, <1>2, PTL DEF Spec

\* The index of a level in the array is the index of its price.
LEMMA OccupiedIs == \A s \in Side : Occupied(s) = Indices(Standing(s))
BY IndexFacts DEF Occupied, Indices, Standing

\* Types: best_index is -1 or a slot of the array, and an order whose price has
\* no slot leaves no trace in the book.
THEOREM TypeCorrect == IndexSound => (Spec => []TypeOK)
<1> SUFFICES ASSUME IndexSound PROVE Spec => []TypeOK
  OBVIOUS
<1>1. IInv => TypeOK
  <2> SUFFICES ASSUME IInv PROVE TypeOK
    OBVIOUS
  <2>1. best_index \in [Side -> Index \cup {-1}]
    <3>1. \A s \in Side : best_index[s] \in Index \cup {-1}
      BY BestLevelIs
    <3>2. QED
      BY <3>1 DEF IInv, BestSound
  <2>2. ASSUME NEW s \in Side, NEW p \in Price \ TickPrice
        PROVE  orders[s][p] = <<>> /\ total[s][p] = 0
    <3>1. p \notin Standing(s)
      BY DEF IInv, TicksOnly
    <3>2. orders[s][p] = <<>>
      BY <3>1 DEF Standing
    <3>3. QED
      BY <3>2, QueueQtyFacts DEF IInv, BaseInv, TotalsExact
  <2>3. QED
    BY <2>1, <2>2 DEF IInv, BaseInv, TypeOK
<1>2. Spec => []IInv
  BY Invariance
<1>3. QED
  BY <1>1, <1>2, PTL

\* best_index is the best level with orders, or -1, whenever wouldCross(), the
\* loop of matchIncoming() or a caller reads it, and every total_qty is the sum
\* of its queue.
THEOREM BestIsExact == IndexSound => (Spec => []BestExact)
<1> SUFFICES ASSUME IndexSound PROVE Spec => []BestExact
  OBVIOUS
<1>1. IInv => BestExact
  BY OccupiedIs DEF IInv, BaseInv, TotalsExact, BestSound, BestExact
<1>2. Spec => []IInv
  BY Invariance
<1>3. QED
  BY <1>1, <1>2, PTL

\* The Fenwick tree or the words of bits mark the levels with orders and no
\* others: no call marks a level twice, clears one twice or forgets one.
THEOREM IndexIsExact == IndexSound => (Spec => []IndexExact)
<1> SUFFICES ASSUME IndexSound PROVE Spec => []IndexExact
  OBVIOUS
<1>1. IInv => IndexExact
  BY OccupiedIs DEF IInv, MarksExact, IndexExact
<1>2. Spec => []IInv
  BY Invariance
<1>3. QED
  BY <1>1, <1>2, PTL

\* Whenever recoverBest() were to run, it would find the best level of the book.
THEOREM RecoverIsExact == IndexSound => (Spec => []RecoverExact)
<1> SUFFICES ASSUME IndexSound PROVE Spec => []RecoverExact
  OBVIOUS
<1>1. IInv => RecoverExact
  <2> SUFFICES ASSUME IInv, NEW s \in Side
               PROVE  IndexedBest(s, index[s], Occupied(s)) = BestIndexOf(s, Occupied(s))
    BY DEF RecoverExact
  <2>1. Occupied(s) \in SUBSET Index /\ index[s] = IndexOf(Occupied(s))
    BY OccupiedIs DEF IInv, MarksExact, Indices
  <2>2. QED
    BY <2>1 DEF IndexSound, IndexContract
<1>2. Spec => []IInv
  BY Invariance
<1>3. QED
  BY <1>1, <1>2, PTL

\* No OrderRef of order_refs_ ever dangles, and no order rests without its
\* reference or twice.
THEOREM RefsAreSound == IndexSound => (Spec => []RefsSound)
<1> SUFFICES ASSUME IndexSound PROVE Spec => []RefsSound
  OBVIOUS
<1>1. IInv => RefsSound
  BY BaseRefsSound DEF IInv
<1>2. Spec => []IInv
  BY Invariance
<1>3. QED
  BY <1>1, <1>2, PTL

\* No resting bid ever reaches a resting ask, not even between two steps of a match.
THEOREM NeverCrossed == IndexSound => (Spec => []Uncrossed)
<1> SUFFICES ASSUME IndexSound PROVE Spec => []Uncrossed
  OBVIOUS
<1>1. IInv => Uncrossed
  BY BaseUncrossed DEF IInv
<1>2. Spec => []IInv
  BY Invariance
<1>3. QED
  BY <1>1, <1>2, PTL
-----------------------------------------------------------------------------
(* The three indices keep the contract. *)

\* Every non-empty bounded set of naturals has a best element, on either side.
LEMMA BestOfBounded ==
  ASSUME NEW s \in Side, NEW n \in Nat, NEW P \in SUBSET (0 .. n), P # {}
  PROVE  /\ BestOf(s, P) \in P
         /\ \A q \in P : ~Better(s, q, BestOf(s, P))
         /\ \A x \in P : (\A q \in P : ~Better(s, q, x)) => x = BestOf(s, P)
<1>0. \A x \in P : x \in Nat /\ x \in Int /\ n - x \in Nat
  OBVIOUS
<1>1. \E x \in P : \A q \in P : ~Better(s, q, x)
  <2>1. CASE s = "Bid"
    <3> DEFINE T == {n - x : x \in P}
    <3>1. T \in SUBSET Nat
      BY <1>0, Zenon
    <3>2. T # {}
      BY Zenon
    <3>3. PICK m \in T : \A k \in T : m <= k
      BY <3>1, <3>2, SmallestNat, Zenon
    <3>4. PICK x \in P : m = n - x
      BY <3>3
    <3>5. ASSUME NEW q \in P PROVE ~(q > x)
      <4>1. n - q \in T
        BY <3>5
      <4>2. n - x <= n - q
        BY <3>3, <3>4, <4>1
      <4> HIDE DEF T
      <4>3. QED
        BY <1>0, <4>2, <3>4
    <3>6. QED
      BY <2>1, <3>4, <3>5, Zenon DEF Better
  <2>2. CASE s = "Ask"
    <3>1. P \in SUBSET Nat
      BY <1>0
    <3>2. PICK x \in P : \A q \in P : x <= q
      BY <3>1, SmallestNat
    <3>3. \A q \in P : ~(q < x)
      BY <1>0, <3>2
    <3>4. QED
      BY <2>2, <3>2, <3>3 DEF Better
  <2>3. QED
    BY <2>1, <2>2 DEF Side
<1>2. /\ BestOf(s, P) \in P
      /\ \A q \in P : ~Better(s, q, BestOf(s, P))
  BY <1>1, Zenon DEF BestOf
<1>3. ASSUME NEW x \in P, \A q \in P : ~Better(s, q, x) PROVE x = BestOf(s, P)
  <2>1. ~Better(s, x, BestOf(s, P)) /\ ~Better(s, BestOf(s, P), x)
    BY <1>2, <1>3
  <2>2. x \in Int /\ BestOf(s, P) \in Int
    BY <1>0, <1>2
  <2>3. QED
    BY <2>1, <2>2 DEF Better
<1>4. QED
  BY <1>2, <1>3

\* The scan visits the slots one by one: what it finds with k slots left to look at.
LEMMA ScanSteps ==
  ASSUME NEW s \in Side, NEW ix, NEW levels \in SUBSET Index
  PROVE  \E f :
           /\ \A k \in Nat : f[k] = IF k = 0 THEN -1
                                    ELSE IF SlotWith(s, k) \in levels THEN SlotWith(s, k)
                                    ELSE f[k - 1]
           /\ ScannedBest(s, ix, levels) = f[MaxIndex + 1]
<1> DEFINE B == {k \in Nat : k = 0 \/ SlotWith(s, k) \in levels}
           e == [k \in Nat |-> IF k = 0 THEN -1 ELSE SlotWith(s, k)]
           p == [k \in Nat |-> IF k = 0 THEN 0 ELSE k - 1]
           h == [x \in Nat \X Int |-> x[2]]
           rank == [k \in Nat |-> k]
           Scans(f) == f = [left \in Nat |->
                              IF left = 0 THEN -1
                              ELSE IF SlotWith(s, left) \in levels THEN SlotWith(s, left)
                              ELSE f[left - 1]]
           scan == CHOOSE f : Scans(f)
<1>1. \E f \in [Nat -> Int] : Unfolds(f, Nat, B, e, p, h)
  <2>1. MaxIndex \in Int
    BY TypesAssumption DEF MaxIndex
  <2>2. \A k \in Nat : SlotWith(s, k) \in Int
    BY <2>1 DEF SlotWith
  <2>3. B \in SUBSET Nat /\ e \in [Nat -> Int] /\ p \in [Nat -> Nat] /\ rank \in [Nat -> Nat]
    BY <2>2
  <2>4. h \in [Nat \X Int -> Int]
    OBVIOUS
  <2>5. \A k \in Nat \ B : rank[p[k]] < rank[k]
    OBVIOUS
  <2> HIDE DEF B, e, p, h, rank
  <2>6. QED
    BY <2>3, <2>4, <2>5, RecursionExists
<1>2. PICK f \in [Nat -> Int] : Unfolds(f, Nat, B, e, p, h)
  BY <1>1
<1>3. \A k \in Nat : f[k] = IF k = 0 THEN -1
                            ELSE IF SlotWith(s, k) \in levels THEN SlotWith(s, k)
                            ELSE f[k - 1]
  <2>1. \A k \in Nat : f[k] = IF k \in B THEN e[k] ELSE h[<<k, f[p[k]]>>]
    BY <1>2 DEF Unfolds
  <2>2. \A k \in Nat : k # 0 => p[k] = k - 1 /\ k - 1 \in Nat /\ f[k - 1] \in Int
    OBVIOUS
  <2>3. \A k \in Nat : k # 0 => h[<<k, f[p[k]]>>] = f[k - 1]
    BY <2>2
  <2> HIDE DEF p, h
  <2>4. QED
    BY <2>1, <2>3
<1>4. Scans(f)
  BY <1>3
<1>5. Scans(scan)
  BY <1>4
<1>6. ScannedBest(s, ix, levels) = scan[MaxIndex + 1]
  BY DEF ScannedBest
<1>7. \A k \in Nat : scan[k] = IF k = 0 THEN -1
                               ELSE IF SlotWith(s, k) \in levels THEN SlotWith(s, k)
                               ELSE scan[k - 1]
  <2> HIDE DEF scan
  <2>1. QED
    BY <1>5
<1>8. QED
  BY <1>6, <1>7

\* The scan of recoverBest() finds the best active level, or -1 if there is none.
LEMMA ScanFinds ==
  ASSUME NEW s \in Side, NEW ix, NEW levels \in SUBSET Index
  PROVE  ScannedBest(s, ix, levels) = BestIndexOf(s, levels)
<1>1. PICK f : /\ \A k \in Nat : f[k] = IF k = 0 THEN -1
                                        ELSE IF SlotWith(s, k) \in levels THEN SlotWith(s, k)
                                        ELSE f[k - 1]
               /\ ScannedBest(s, ix, levels) = f[MaxIndex + 1]
  BY ScanSteps
<1>2. PICK m \in Nat : m = MaxIndex /\ Index = 0 .. m
  BY TypesAssumption DEF MaxIndex, Index
<1>3. CASE levels = {}
  <2> DEFINE T == {k \in Nat : f[k] # -1}
  <2>1. ASSUME T # {} PROVE FALSE
    <3>1. PICK t \in T : \A u \in T : t <= u
      BY <2>1, SmallestNat
    <3>2. t \in Nat /\ f[t] # -1
      OBVIOUS
    <3>3. t # 0 /\ f[t] = f[t - 1]
      BY <1>1, <1>3, <3>2
    <3>4. t - 1 \in Nat /\ f[t - 1] = -1
      BY <3>1, <3>2, <3>3
    <3>5. QED
      BY <3>2, <3>3, <3>4
  <2>2. f[m + 1] = -1
    BY <2>1
  <2>3. QED
    BY <1>1, <1>2, <1>3, <2>2 DEF BestIndexOf
<1>4. CASE levels # {}
  <2>1. PICK x : x = BestOf(s, levels) /\ x \in levels /\ \A q \in levels : ~Better(s, q, x)
    BY <1>2, <1>4, BestOfBounded
  <2>2. x \in 0 .. m
    BY <1>2, <2>1
  <2>3. PICK j : j = IF s = "Bid" THEN x + 1 ELSE m + 1 - x
    OBVIOUS
  <2>4. j \in 1 .. m + 1 /\ SlotWith(s, j) = x
    BY <1>2, <2>2, <2>3 DEF SlotWith
  <2>5. f[j] = x
    BY <1>1, <2>1, <2>4
  <2>6. ASSUME NEW k \in Nat, j < k, k <= m + 1 PROVE SlotWith(s, k) \notin levels
    <3>1. SlotWith(s, k) \in Int /\ x \in Int
      BY <1>2, <2>2 DEF SlotWith
    <3>2. Better(s, SlotWith(s, k), x)
      BY <1>2, <2>2, <2>3, <2>6 DEF SlotWith, Better, Side
    <3>3. QED
      BY <2>1, <3>2
  <2> DEFINE T == {k \in Nat : j <= k /\ k <= m + 1 /\ f[k] # x}
  <2>7. ASSUME T # {} PROVE FALSE
    <3>1. PICK t \in T : \A u \in T : t <= u
      BY <2>7, SmallestNat
    <3>2. t \in Nat /\ j < t /\ t <= m + 1 /\ f[t] # x
      BY <2>4, <2>5
    <3>3. t # 0 /\ SlotWith(s, t) \notin levels
      BY <2>4, <2>6, <3>2
    <3>4. f[t] = f[t - 1]
      BY <1>1, <3>2, <3>3
    <3>5. t - 1 \in Nat /\ j <= t - 1 /\ t - 1 <= m + 1 /\ ~(t <= t - 1)
      BY <2>4, <3>2
    <3>6. f[t - 1] = x
      BY <3>1, <3>5
    <3>7. QED
      BY <3>2, <3>4, <3>6
  <2>8. m + 1 \in Nat /\ j <= m + 1
    BY <2>4
  <2>9. f[m + 1] = x
    BY <2>7, <2>8
  <2>10. QED
    BY <1>1, <1>2, <1>4, <2>1, <2>9 DEF BestIndexOf
<1>5. QED
  BY <1>3, <1>4

\* Scanning the array, slot by slot from the best end, keeps the contract of an index although
\* nothing is kept: the first active level met is the best one.
THEOREM ScanKeepsContract == IndexContract(NoIndex, NothingMarked, ScannedBest, NoIndexOf)
BY ScanFinds, Zenon DEF IndexContract, NoIndex, NothingMarked, NoIndexOf

\* The quotient and the remainder of a division by a positive number.
LEMMA DivFacts ==
  ASSUME NEW w \in Nat \ {0}
  PROVE  /\ \A i \in Nat : i \div w \in Nat /\ i % w \in 0 .. w - 1
         /\ \A i \in Nat : i = (i \div w) * w + (i % w)
         /\ \A i \in Nat, n \in Nat : i <= n => i \div w <= n \div w
         /\ \A n \in Nat : (n + 1 + w - 1) \div w = n \div w + 1
         /\ \A a \in Nat, b \in Nat, x \in 0 .. w - 1, y \in 0 .. w - 1 :
              a < b => a * w + x < b * w + y
<1>1. \A i \in Nat : i \div w \in Nat /\ i % w \in 0 .. w - 1
  OBVIOUS
<1>2. ASSUME NEW i \in Nat PROVE i = (i \div w) * w + (i % w)
  <2>1. w > 0 /\ i \in Int
    OBVIOUS
  <2>2. PICK q \in Int : q = i \div w
    BY <1>1
  <2>3. i % w = i - q * w
    BY <2>1, <2>2, Z3
  <2>4. q * w \in Int
    BY <2>1
  <2>5. \A a \in Int : i = a + (i - a)
    OBVIOUS
  <2>6. i = q * w + (i % w)
    <3>1. i = q * w + (i - q * w)
      BY <2>4, <2>5, Zenon
    <3>2. QED
      BY <2>3, <3>1, Zenon
  <2>7. QED
    BY <2>2, <2>6, Zenon
<1>3. ASSUME NEW a \in Nat, NEW b \in Nat, NEW x \in 0 .. w - 1, NEW y \in 0 .. w - 1, a < b
      PROVE  a * w + x < b * w + y
  <2>1. PICK d \in Nat : b = a + 1 + d
    BY <1>3
  <2>2. b * w = a * w + w + d * w /\ d * w \in Nat /\ a * w \in Nat
    BY <2>1
  <2>3. QED
    BY <2>2
<1>4. ASSUME NEW i \in Nat, NEW n \in Nat, i <= n PROVE i \div w <= n \div w
  <2>1. i \div w \in Nat /\ n \div w \in Nat /\ i % w \in 0 .. w - 1 /\ n % w \in 0 .. w - 1
    BY <1>1
  <2>2. SUFFICES ASSUME n \div w < i \div w PROVE FALSE
    BY <2>1
  <2>3. (n \div w) * w + (n % w) < (i \div w) * w + (i % w)
    <3>1. PICK a \in Nat : a = n \div w
      BY <2>1
    <3>2. PICK b \in Nat : b = i \div w
      BY <2>1
    <3>3. a < b
      BY <2>2, <3>1, <3>2
    <3>4. a * w + (n % w) < b * w + (i % w)
      BY <1>3, <2>1, <3>3, Zenon
    <3>5. QED
      BY <3>1, <3>2, <3>4, Zenon
  <2>4. i = (i \div w) * w + (i % w) /\ n = (n \div w) * w + (n % w)
    BY <1>2
  <2>5. QED
    BY <1>4, <2>3, <2>4
<1>5. ASSUME NEW n \in Nat PROVE (n + 1 + w - 1) \div w = n \div w + 1
  <2>1. n + 1 + w - 1 = n + w
    OBVIOUS
  <2>2. (n + w) \div w = n \div w + 1
    OBVIOUS
  <2>3. QED
    BY <2>1, <2>2
<1>6. QED
  BY <1>1, <1>2, <1>3, <1>4, <1>5

\* The word and the bit of a level.
LEMMA BitFacts ==
  /\ \A i \in Index : /\ i \in Nat /\ i \div WordBits \in Word
                      /\ i % WordBits \in 0 .. WordBits - 1
                      /\ i = (i \div WordBits) * WordBits + (i % WordBits)
  /\ \A w \in Word : w \in Nat
  /\ \A a \in Nat, b \in Nat, x \in 0 .. WordBits - 1, y \in 0 .. WordBits - 1 :
        a < b => a * WordBits + x < b * WordBits + y
  /\ MaxIndex \in Nat /\ WordBits \in Nat \ {0}
<1>1. MaxIndex \in Nat /\ WordBits \in Nat \ {0}
  BY TypesAssumption, WordBitsAssumption DEF MaxIndex
<1>2. ASSUME NEW i \in Index
      PROVE  i \in Nat /\ i \div WordBits \in Nat /\ i \div WordBits <= MaxIndex \div WordBits
  <2>1. i \in Nat /\ i <= MaxIndex
    BY <1>1 DEF Index
  <2>2. QED
    BY <1>1, <2>1, DivFacts
<1>3. (MaxIndex + 1 + WordBits - 1) \div WordBits = MaxIndex \div WordBits + 1
  BY <1>1, DivFacts
<1>4. PICK m \in Nat : m = MaxIndex \div WordBits
  BY <1>1, DivFacts
<1>5. Word = 0 .. m
  BY <1>3, <1>4 DEF Word
<1>6. \A i \in Index : i \div WordBits \in Word
  BY <1>2, <1>4, <1>5
<1>7. \A w \in Word : w \in Nat
  BY <1>5
<1>8. QED
  BY <1>1, <1>2, <1>6, <1>7, DivFacts

\* The bits of a word of the index of a set of levels are those of its levels.
LEMMA WordsOfFacts ==
  ASSUME NEW levels \in SUBSET Index, NEW w \in Word
  PROVE  /\ WordsOf(levels)[w] \in SUBSET (0 .. WordBits - 1)
         /\ \A x : x \in WordsOf(levels)[w] <=>
                  \E j \in levels : j \div WordBits = w /\ x = j % WordBits
         /\ \A j \in Index : (j \div WordBits = w /\ j % WordBits \in WordsOf(levels)[w])
                               => j \in levels
<1>1. \A x : x \in WordsOf(levels)[w] <=>
               \E j \in levels : j \div WordBits = w /\ x = j % WordBits
  <2>1. WordsOf(levels)[w] = {i % WordBits : i \in {j \in levels : j \div WordBits = w}}
    BY DEF WordsOf
  <2>2. QED
    BY <2>1
<1>2. WordsOf(levels)[w] \in SUBSET (0 .. WordBits - 1)
  BY <1>1, BitFacts
<1>3. ASSUME NEW j \in Index, j \div WordBits = w, j % WordBits \in WordsOf(levels)[w]
      PROVE  j \in levels
  <2>1. PICK k \in levels : k \div WordBits = w /\ j % WordBits = k % WordBits
    BY <1>1, <1>3
  <2>2. j = k
    BY <1>3, <2>1, BitFacts
  <2>3. QED
    BY <2>1, <2>2
<1>4. QED
  BY <1>1, <1>2, <1>3

\* setActive() changes the bit of the level and no other.
LEMMA WordsMarkedFacts ==
  ASSUME NEW levels \in SUBSET Index, NEW i \in Index
  PROVE  /\ i \notin levels => WordsMarked(WordsOf(levels), i, TRUE) = WordsOf(levels \cup {i})
         /\ i \in levels => WordsMarked(WordsOf(levels), i, FALSE) = WordsOf(levels \ {i})
<1> DEFINE v == i \div WordBits
<1>1. v \in Word
  BY BitFacts
<1>2. levels \cup {i} \in SUBSET Index /\ levels \ {i} \in SUBSET Index
  OBVIOUS
<1>3. \A L \in SUBSET Index : WordsOf(L) = [w \in Word |-> WordsOf(L)[w]]
  BY DEF WordsOf
<1>4. ASSUME NEW w \in Word
      PROVE  WordsMarked(WordsOf(levels), i, TRUE)[w] = WordsOf(levels \cup {i})[w]
  <2>1. WordsMarked(WordsOf(levels), i, TRUE)[w] =
          IF w = v THEN WordsOf(levels)[w] \cup {i % WordBits} ELSE WordsOf(levels)[w]
    BY <1>3 DEF WordsMarked
  <2>2. \A x : x \in WordsMarked(WordsOf(levels), i, TRUE)[w] <=>
               x \in WordsOf(levels \cup {i})[w]
    <3>1. \A x : x \in WordsOf(levels)[w] <=>
                   \E j \in levels : j \div WordBits = w /\ x = j % WordBits
      BY WordsOfFacts
    <3>2. \A x : x \in WordsOf(levels \cup {i})[w] <=>
                   \E j \in levels \cup {i} : j \div WordBits = w /\ x = j % WordBits
      BY <1>2, WordsOfFacts
    <3> HIDE DEF v
    <3>3. \A x : x \in WordsMarked(WordsOf(levels), i, TRUE)[w] <=>
                   (x \in WordsOf(levels)[w] \/ (w = v /\ x = i % WordBits))
      BY <2>1
    <3>4. QED
      BY <3>1, <3>2, <3>3 DEF v
  <2>3. QED
    BY <2>2
<1>5. ASSUME NEW w \in Word
      PROVE  WordsMarked(WordsOf(levels), i, FALSE)[w] = WordsOf(levels \ {i})[w]
  <2>1. WordsMarked(WordsOf(levels), i, FALSE)[w] =
          IF w = v THEN WordsOf(levels)[w] \ {i % WordBits} ELSE WordsOf(levels)[w]
    BY <1>3 DEF WordsMarked
  <2>2. \A j \in levels : (j \div WordBits = v /\ j % WordBits = i % WordBits) => j = i
    BY BitFacts
  <2>3. \A x : x \in WordsMarked(WordsOf(levels), i, FALSE)[w] <=>
               x \in WordsOf(levels \ {i})[w]
    <3>1. \A x : x \in WordsOf(levels)[w] <=>
                   \E j \in levels : j \div WordBits = w /\ x = j % WordBits
      BY WordsOfFacts
    <3>2. \A x : x \in WordsOf(levels \ {i})[w] <=>
                   \E j \in levels \ {i} : j \div WordBits = w /\ x = j % WordBits
      BY <1>2, WordsOfFacts
    <3> HIDE DEF v
    <3>3. \A x : x \in WordsMarked(WordsOf(levels), i, FALSE)[w] <=>
                   (x \in WordsOf(levels)[w] /\ ~(w = v /\ x = i % WordBits))
      BY <2>1
    <3>4. QED
      BY <2>2, <3>1, <3>2, <3>3 DEF v
  <2>4. QED
    BY <2>3
<1>6. \A b \in BOOLEAN : WordsMarked(WordsOf(levels), i, b) =
                        [w \in Word |-> WordsMarked(WordsOf(levels), i, b)[w]]
  BY <1>3 DEF WordsMarked
<1>7. QED
  BY <1>2, <1>3, <1>4, <1>5, <1>6

\* recoverBest() of the bit set finds the best active level.
LEMMA WordsBestFacts ==
  ASSUME NEW levels \in SUBSET Index, NEW s \in Side
  PROVE  WordsBest(s, WordsOf(levels), levels) = BestIndexOf(s, levels)
<1> DEFINE ix == WordsOf(levels)
           LevelOf(w) == w * WordBits + EndBit(s, ix[w])
           found == {w \in Word : ix[w] # {} /\ LevelOf(w) \in Index}
<1>0. WordsBest(s, ix, levels) = IF found = {} THEN -1 ELSE LevelOf(BestOf(s, found))
  BY DEF WordsBest
<1>1. ASSUME NEW w \in Word, ix[w] # {}
      PROVE  /\ LevelOf(w) \in levels /\ LevelOf(w) \div WordBits = w
             /\ \A j \in levels : j \div WordBits = w => ~Better(s, j, LevelOf(w))
  <2>1. ix[w] \in SUBSET (0 .. WordBits - 1) /\ WordBits - 1 \in Nat
    BY WordsOfFacts, BitFacts
  <2>2. /\ BestOf(s, ix[w]) \in ix[w]
        /\ \A x \in ix[w] : ~Better(s, x, BestOf(s, ix[w]))
    BY <1>1, <2>1, BestOfBounded
  <2>3. PICK k \in levels : k \div WordBits = w /\ BestOf(s, ix[w]) = k % WordBits
    BY <2>2, WordsOfFacts
  <2>4. LevelOf(w) = k
    BY <2>3, BitFacts DEF EndBit
  <2> HIDE DEF ix, LevelOf, found
  <2>5. ASSUME NEW j \in levels, j \div WordBits = w
        PROVE  ~Better(s, j, LevelOf(w))
    <3>1. j % WordBits \in ix[w]
      BY <2>5, WordsOfFacts DEF ix
    <3>2. ~Better(s, j % WordBits, k % WordBits)
      BY <2>2, <2>3, <3>1
    <3>3. /\ j = w * WordBits + (j % WordBits) /\ k = w * WordBits + (k % WordBits)
          /\ j % WordBits \in 0 .. WordBits - 1 /\ k % WordBits \in 0 .. WordBits - 1
          /\ w \in Nat
      BY <2>3, <2>5, BitFacts
    <3>4. PICK x \in Int : x = j % WordBits
      BY <3>3
    <3>5. PICK y \in Int : y = k % WordBits
      BY <3>3
    <3>6. PICK z \in Int : z = w * WordBits
      BY <3>3, BitFacts
    <3>7. j = z + x /\ k = z + y
      BY <3>3, <3>4, <3>5, <3>6
    <3>8. ~Better(s, j, k)
      BY <3>2, <3>4, <3>5, <3>7 DEF Better
    <3>9. QED
      BY <3>8, <2>4
  <2>6. QED
    BY <2>3, <2>4, <2>5
<1>2. \A w \in Word : w \in found <=> ix[w] # {}
  BY <1>1
<1>3. \A j \in levels : j \div WordBits \in found
  BY <1>2, WordsOfFacts, BitFacts
<1>4. found # {} => \E w \in Word : ix[w] # {}
  BY <1>2
<1> HIDE DEF ix, LevelOf
<1>5. CASE levels = {}
  <2>1. found = {}
    BY <1>1, <1>2, <1>5
  <2>2. QED
    BY <1>0, <1>5, <2>1 DEF ix, BestIndexOf
<1>6. CASE levels # {}
  <2>1. found # {}
    BY <1>3, <1>6
  <2>2. PICK m \in Nat : Word \in SUBSET (0 .. m)
    BY BitFacts DEF Word
  <2>3. found \in SUBSET (0 .. m) /\ found \in SUBSET Word
    BY <2>2
  <2> HIDE DEF found
  <2> DEFINE b == BestOf(s, found)
  <2>4. b \in found /\ \A w \in found : ~Better(s, w, b)
    BY <2>1, <2>3, BestOfBounded
  <2>5. b \in Word /\ ix[b] # {} /\ b \in Nat
    BY <1>2, <2>3, <2>4, BitFacts
  <2> HIDE DEF b
  <2>6. /\ LevelOf(b) \in levels /\ LevelOf(b) \div WordBits = b
        /\ \A j \in levels : j \div WordBits = b => ~Better(s, j, LevelOf(b))
    BY <1>1, <2>5
  <2>7. ASSUME NEW j \in levels PROVE ~Better(s, j, LevelOf(b))
    <3> DEFINE a == j \div WordBits
               x == j % WordBits
               y == LevelOf(b) % WordBits
    <3>1. a \in found /\ ~Better(s, a, b) /\ a \in Nat
      BY <1>3, <2>3, <2>4, BitFacts
    <3>2. x \in 0 .. WordBits - 1 /\ y \in 0 .. WordBits - 1
      BY <2>6, BitFacts
    <3>3. j = a * WordBits + x /\ LevelOf(b) = b * WordBits + y
      BY <2>6, BitFacts
    <3>4. j \in Nat /\ LevelOf(b) \in Nat
      BY <2>6, BitFacts
    <3>5. CASE a = b
      BY <2>6, <3>5
    <3> HIDE DEF a, x, y
    <3>6. CASE a < b
      <4>1. j < LevelOf(b)
        BY <2>5, <3>1, <3>2, <3>3, <3>6, BitFacts
      <4>2. s = "Bid"
        BY <2>5, <3>1, <3>6 DEF Better, Side
      <4>3. QED
        BY <3>4, <4>1, <4>2 DEF Better
    <3>7. CASE b < a
      <4>1. LevelOf(b) < j
        BY <2>5, <3>1, <3>2, <3>3, <3>7, BitFacts
      <4>2. s = "Ask"
        BY <2>5, <3>1, <3>7 DEF Better, Side
      <4>3. QED
        BY <3>4, <4>1, <4>2 DEF Better
    <3>8. QED
      BY <2>5, <3>1, <3>5, <3>6, <3>7
  <2>8. levels \in SUBSET (0 .. MaxIndex) /\ MaxIndex \in Nat
    BY BitFacts DEF Index
  <2>9. LevelOf(b) = BestOf(s, levels)
    BY <1>6, <2>6, <2>7, <2>8, BestOfBounded
  <2>10. QED
    BY <1>0, <1>6, <2>1, <2>9 DEF ix, b, BestIndexOf
<1>7. QED
  BY <1>5, <1>6 DEF ix

\* The words keep the contract of an index: they say which levels are active,
\* and their first end bit is the best of them.
THEOREM BitsetKeepsContract == IndexContract(EmptyWords, WordsMarked, WordsBest, WordsOf)
<1>1. WordsOf({}) = EmptyWords
  BY DEF WordsOf, EmptyWords
<1>2. QED
  BY <1>1, WordsMarkedFacts, WordsBestFacts, Zenon DEF IndexContract

\* The tree of counts keeps the contract of an index.
THEOREM TreeKeepsContract == IndexContract(EmptyTree, TreeMarked, TreeBest, TreeOfActive)
<1> DEFINE n == MaxIndex + 1
<1>1. n \in Nat \ {0} /\ n \in Nat /\ MaxIndex \in Nat /\ Index = 0 .. n - 1
  BY TypesAssumption DEF MaxIndex, Index
<1>2. TreeOfActive({}) = EmptyTree
  <2>1. \A j \in 1 .. n : Cardinality({i \in {} : j - LowBit[j] <= i /\ i < j}) = 0
    BY FS_EmptySet
  <2>2. QED
    BY <2>1 DEF TreeOfActive, EmptyTree, TreeOf
<1> HIDE DEF n
<1>3. ASSUME NEW levels \in SUBSET Index, NEW i \in Index
      PROVE  /\ i \notin levels => TreeMarked(TreeOfActive(levels), i, TRUE) = TreeOfActive(levels \cup {i})
             /\ i \in levels => TreeMarked(TreeOfActive(levels), i, FALSE) = TreeOfActive(levels \ {i})
  <2>1. levels \in SUBSET (0 .. n - 1) /\ i \in 0 .. n - 1
    BY <1>1
  <2>2. i \notin levels => Add(TreeOf(n, levels), i, 1) = TreeOf(n, levels \cup {i})
    BY <1>1, <2>1, AddMarks
  <2>3. i \in levels => Add(TreeOf(n, levels), i, -1) = TreeOf(n, levels \ {i})
    BY <1>1, <2>1, AddClears
  <2>4. QED
    BY <2>2, <2>3 DEF TreeMarked, TreeOfActive, n
<1>4. ASSUME NEW levels \in SUBSET Index, NEW s \in Side
      PROVE  TreeBest(s, TreeOfActive(levels), levels) = BestIndexOf(s, levels)
  <2> DEFINE sums == TreeOf(n, levels)
             count == Cardinality(levels)
  <2>1. levels \in SUBSET (0 .. n - 1) /\ levels \in SUBSET (0 .. MaxIndex)
    BY <1>1 DEF Index
  <2>2. SumAll(sums) = count
    BY <1>1, <2>1, SumAllCounts
  <2>3. count \in Nat /\ (count = 0 <=> levels = {}) /\ \A i \in levels : i \in Nat
    <3>1. IsFiniteSet(levels) /\ count \in Nat
      BY <1>1, <2>1, BelowFacts
    <3>2. \A i \in levels : i \in 0 .. MaxIndex
      BY <2>1, Zenon
    <3>3. count = 0 <=> levels = {}
      BY <3>1, FS_EmptySet
    <3>4. QED
      BY <1>1, <3>1, <3>2, <3>3
  <2>4. TreeOfActive(levels) = sums
    BY DEF TreeOfActive, n
  <2>5. TreeBest(s, sums, levels) =
          IF count = 0 THEN -1 ELSE FindByOrder(sums, IF s = "Bid" THEN count ELSE 1)
    BY <2>2 DEF TreeBest
  <2> HIDE DEF sums, count
  <2>6. CASE levels = {}
    BY <2>3, <2>4, <2>5, <2>6 DEF BestIndexOf
  <2>7. CASE levels # {} /\ s = "Bid"
    <3>1. PICK x \in levels : x = FindByOrder(sums, count) /\ \A i \in levels : i <= x
      BY <1>1, <2>1, <2>7, FindsEnds DEF sums, count
    <3>2. \A i \in levels : ~Better(s, i, x)
      BY <2>3, <2>7, <3>1 DEF Better
    <3>3. x = BestOf(s, levels)
      BY <1>1, <2>1, <2>7, <3>2, BestOfBounded
    <3>4. QED
      BY <2>3, <2>4, <2>5, <2>7, <3>1, <3>3 DEF BestIndexOf
  <2>8. CASE levels # {} /\ s = "Ask"
    <3>1. PICK x \in levels : x = FindByOrder(sums, 1) /\ \A i \in levels : x <= i
      BY <1>1, <2>1, <2>8, FindsEnds, ZenonT(30) DEF sums
    <3>2. \A i \in levels : ~Better(s, i, x)
      BY <2>3, <2>8, <3>1 DEF Better
    <3>3. x = BestOf(s, levels)
      BY <1>1, <2>1, <2>8, <3>2, BestOfBounded
    <3>4. QED
      BY <2>3, <2>4, <2>5, <2>8, <3>1, <3>3 DEF BestIndexOf
  <2>9. QED
    BY <2>6, <2>7, <2>8 DEF Side
<1>5. QED
  BY <1>2, <1>3, <1>4, Zenon DEF IndexContract
-----------------------------------------------------------------------------
(* A tree by itself, of any size. *)

\* The tree is exact for a set of indices that it has nodes for.
CountsExact ==
  /\ active \subseteq Slot
  /\ TreeExact

\* The indices are 0 to Size - 1.
LEMMA SizeFacts == Size \in Nat \ {0} /\ Size \in Nat /\ Slot = 0 .. Size - 1
BY SizeAssumption DEF Slot

\* A tree of zeros counts the empty set.
LEMMA CountsInitHolds == CountsInit => CountsExact
<1> SUFFICES ASSUME CountsInit PROVE CountsExact
  OBVIOUS
<1>1. \A j \in 1 .. Size : Cardinality({i \in {} : j - LowBit[j] <= i /\ i < j}) = 0
  BY FS_EmptySet
<1>2. TreeOf(Size, {}) = [j \in 1 .. Size |-> 0]
  BY <1>1 DEF TreeOf
<1>3. QED
  BY <1>2 DEF CountsInit, CountsExact, TreeExact

\* add() keeps the tree exact.
LEMMA CountsNextKeeps == CountsExact /\ [CountsNext]_countsVars => CountsExact'
<1> SUFFICES ASSUME CountsExact, [CountsNext]_countsVars PROVE CountsExact'
  OBVIOUS
<1> USE SizeFacts
<1>1. active \in SUBSET (0 .. Size - 1) /\ tree = TreeOf(Size, active)
  BY DEF CountsExact, TreeExact
<1>2. ASSUME NEW i \in Slot, Mark(i) PROVE CountsExact'
  <2>1. tree' = TreeOf(Size, active \cup {i})
    BY <1>1, <1>2, AddMarks DEF Mark
  <2>2. QED
    BY <1>1, <1>2, <2>1 DEF Mark, CountsExact, TreeExact
<1>3. ASSUME NEW i \in Slot, Clear(i) PROVE CountsExact'
  <2>1. tree' = TreeOf(Size, active \ {i})
    BY <1>1, <1>3, AddClears DEF Clear
  <2>2. QED
    BY <1>1, <1>3, <2>1 DEF Clear, CountsExact, TreeExact
<1>4. CASE UNCHANGED countsVars
  BY <1>4 DEF countsVars, CountsExact, TreeExact
<1>5. QED
  BY <1>2, <1>3, <1>4 DEF CountsNext

\* The tree is exact after any sequence of updates.
LEMMA CountsInvariance == CountsSpec => []CountsExact
BY CountsInitHolds, CountsNextKeeps, PTL DEF CountsSpec

\* The nodes of the tree hold the counts of their ranges, whatever the order in
\* which the levels of the book became active and inactive (FenwickTree::add).
THEOREM TreeIsExact == CountsSpec => []TreeExact
<1>1. CountsExact => TreeExact
  BY DEF CountsExact
<1>2. QED
  BY <1>1, CountsInvariance, PTL

\* sumAll() is the number of marked indices, and findByOrder() finds each of
\* them by its rank, for a tree of any size.
THEOREM FindsByOrder == CountsSpec => []FindsEachByOrder
<1>1. CountsExact => FindsEachByOrder
  <2> SUFFICES ASSUME CountsExact PROVE FindsEachByOrder
    OBVIOUS
  <2> USE SizeFacts
  <2>1. active \in SUBSET (0 .. Size - 1) /\ tree = TreeOf(Size, active)
    BY DEF CountsExact, TreeExact
  <2>2. SumAll(tree) = Cardinality(active)
    BY <2>1, SumAllCounts
  <2>3. \A order \in 1 .. Cardinality(active) :
          /\ FindByOrder(tree, order) \in active
          /\ Cardinality({i \in active : i < FindByOrder(tree, order)}) = order - 1
    BY <2>1, FindsRank, SMTT(30) DEF Below
  <2>4. QED
    BY <2>2, <2>3 DEF FindsEachByOrder
<1>2. QED
  BY <1>1, CountsInvariance, PTL
-----------------------------------------------------------------------------
(* The class implements the contract. *)

\* best_index is the slot of a standing level just if that level is the best.
LEMMA BestSlot ==
  ASSUME IInv, NEW s \in Side, NEW p \in Standing(s)
  PROVE  best_index[s] = PriceToIndex(p) <=> p = BestOf(s, Standing(s))
<1>1. /\ best_index[s] \in Index /\ IndexToPrice(best_index[s]) = BestOf(s, Standing(s))
      /\ p \in TickPrice
  BY BestLevelIs
<1>2. QED
  BY <1>1, IndexFacts

\* eraseByRef() takes the order out of the queue that its reference names, and counts an
\* invalidation when the order was all there was of the best level.
LEMMA EraseByRefErases ==
  ASSUME IInv, pc # "consume", NEW id \in OrderId, NEW t \in Tally, refs[id] # None,
         EraseByRef(id, t)
  PROVE  \E s \in Side, p \in Price : OrderErased(id, s, p, t) /\ refs[id].side = s
<1>1. PICK s \in Side, p \in Price : RefIs(id, s, p)
  BY RefExists DEF IInv
<1>2. PICK left : left = Unlinked(orders[s][p], id)
  OBVIOUS
<1>3. /\ refs[id].side = s /\ refs[id].price = p /\ p \in Standing(s)
      /\ QueueQty(left) = total[s][p] - orders[s][p][NodeOf(orders[s][p], id)].qty
      /\ orders[s][p] \in Seq(Order) /\ DistinctIds(orders[s][p]) /\ Holds(orders[s][p], id)
  BY <1>1, <1>2, RefFacts DEF IInv
<1>4. LevelActive(QueueQty(left), left) <=> left # <<>>
  <2>1. left \in Seq(Order)
    BY <1>2, <1>3, UnlinkedFacts
  <2>2. QED
    BY <2>1, QueueQtyFacts DEF LevelActive
<1>5. /\ orders' = [orders EXCEPT ![s][p] = left]
      /\ left = <<>> => ClearLevel(s, PriceToIndex(p), t)
      /\ left # <<>> => tally' = t
  BY <1>2, <1>3, <1>4 DEF EraseByRef
<1>6. /\ left = <<>> /\ p = BestOf(s, Standing(s)) => tally' = Invalidated(t, s)
      /\ ~(left = <<>> /\ p = BestOf(s, Standing(s))) => tally' = t
  BY <1>3, <1>5, BestSlot DEF ClearLevel
<1>7. QED
  BY <1>1, <1>2, <1>3, <1>5, <1>6 DEF OrderErased

\* eraseByRef() of a cancel is the contract's Cancel.
LEMMA CancelImplements ==
  ASSUME IInv, NEW id, Cancel(id)
  PROVE  StepRefines
<1>1. /\ pc = "idle" /\ UNCHANGED <<pc, call>> /\ id \in OrderId /\ refs[id] # None
      /\ EraseByRef(id, ZeroTally) /\ BaseInv
  BY DEF Cancel, HasOrder, IInv
<1>2. PICK s \in Side, p \in Price : OrderErased(id, s, p, ZeroTally)
  BY <1>1, EraseByRefErases, TallyFacts
<1>3. Contract!Cancel(id) /\ CallExact'
  BY <1>1, <1>2, CancelRefines
<1>4. QED
  BY <1>1, <1>3, ActionRefines

\* eraseByRef() and the call of applyNew() are the contract's Modify.
LEMMA ModifyImplements ==
  ASSUME IInv, NEW id \in OrderId, NEW x \in Price, NEW q \in Qty, Modify(id, x, q)
  PROVE  StepRefines
<1>1. /\ pc = "idle" /\ refs[id] # None /\ q > 0 /\ EraseByRef(id, ZeroTally) /\ BaseInv
      /\ EnterApplyNew(refs[id].side, id, x, q, FALSE)
  BY DEF Modify, HasOrder, IInv
<1>2. PICK s \in Side, p \in Price : OrderErased(id, s, p, ZeroTally) /\ refs[id].side = s
  BY <1>1, EraseByRefErases, TallyFacts
<1>3. EnterApplyNew(s, id, x, q, FALSE)
  BY <1>1, <1>2
<1>4. Contract!Modify(id, x, q) /\ CallExact'
  BY <1>1, <1>2, <1>3, ModifyRefines
<1>5. QED
  BY <1>4, ActionRefines

\* applyNew() refuses what the contract refuses.
LEMMA AppliesAccepted ==
  ASSUME Accepted = TickPrice, IInv, pc = "applyNew"
  PROVE  Acceptable <=> ~Refused(call.id, call.price, call.qty)
<1>1. call.price \in Price /\ call.qty \in Nat
  BY CallIs DEF IInv
<1>2. PriceToIndex(call.price) \in Index <=> call.price \in TickPrice
  BY <1>1, IndexFacts
<1>3. QED
  BY <1>1, <1>2 DEF Acceptable, Refused

\* The erasure with which applyNew() begins is part of the contract's New or Modify.
LEMMA ReplaceImplements ==
  ASSUME Accepted = TickPrice, IInv, CallExact, Replace
  PROVE  StepRefines
<1>1. /\ pc = "applyNew" /\ UNCHANGED <<pc, call>> /\ BaseInv /\ tally \in Tally
      /\ call.id \in OrderId /\ refs[call.id] # None /\ EraseByRef(call.id, tally)
      /\ Acceptable
  BY CallIs DEF IInv, Replace, HasOrder
<1>2. ~Refused(call.id, call.price, call.qty)
  BY <1>1, AppliesAccepted
<1>3. PICK id \in OrderId, t \in Tally : id = call.id /\ t = tally
  BY <1>1
<1>4. PICK s \in Side, p \in Price : OrderErased(id, s, p, tally)
  BY <1>1, <1>3, EraseByRefErases
<1>5. QED
  BY <1>1, <1>2, <1>3, <1>4, ReplaceRefines, KeptRefines

\* wouldCross() asks what the contract asks of the whole book.
LEMMA StartMatchImplements ==
  ASSUME Accepted = TickPrice, IInv, CallExact, StartMatch
  PROVE  StepRefines
<1>1. /\ pc = "applyNew" /\ BaseInv /\ ~HasOrder(call.id) /\ Acceptable
      /\ BeginMatch(WouldCross(call.side, call.price))
  BY DEF IInv, StartMatch
<1>2. ~Refused(call.id, call.price, call.qty)
  BY <1>1, AppliesAccepted, CallIs
<1>3. PICK r \in Side : r = Opposite(call.side)
  BY <1>1, CallIs, SideFacts
<1>4. PICK c \in BOOLEAN : c = WouldCross(call.side, call.price)
  BY DEF WouldCross
<1>5. c <=> Standing(r) # {} /\ Crosses(call.side, call.price, BestOf(r, Standing(r)))
  <2>1. WouldCross(call.side, call.price) <=>
          best_index[r] >= 0 /\ Crosses(call.side, call.price, IndexToPrice(best_index[r]))
    BY <1>3 DEF WouldCross
  <2>2. CASE Standing(r) = {}
    <3>1. best_index[r] = -1
      BY <1>3, <2>2, BestLevelIs
    <3>2. QED
      BY <1>4, <2>1, <2>2, <3>1
  <2>3. CASE Standing(r) # {}
    <3>1. best_index[r] >= 0 /\ IndexToPrice(best_index[r]) = BestOf(r, Standing(r))
      BY <1>3, <2>3, BestLevelIs
    <3>2. QED
      BY <1>4, <2>1, <2>3, <3>1, Zenon
  <2>4. QED
    BY <2>2, <2>3
<1>6. BeginMatch(c)
  BY <1>1, <1>4
<1>7. QED
  BY <1>1, <1>2, <1>3, <1>5, <1>6, StartMatchRefines, KeptRefines

\* Turning to the best level is nothing to the contract.
LEMMA MatchLevelImplements ==
  ASSUME IInv, MatchLevel
  PROVE  StepRefines
<1>1. pc = "match" /\ BaseInv /\ pc # "idle"
  BY DEF IInv, MatchLevel
<1>2. PICK r \in Side : r = Opposite(call.side)
  BY <1>1, CallIs, SideFacts
<1>3. /\ Standing(r) # {} /\ Standing(r) \in SUBSET Price
      /\ IndexToPrice(best_index[r]) = BestOf(r, Standing(r))
  BY <1>2, BestLevelIs DEF MatchLevel, WouldCross, Standing
<1>4. PICK b \in Price : b \in Standing(r) /\ b = IndexToPrice(best_index[r])
  BY <1>3, BestOfExists
<1>5. BeginConsume(b) /\ Crosses(call.side, call.price, b)
  BY <1>2, <1>4 DEF MatchLevel, WouldCross
<1>6. orders[Opposite(call.side)][b] # <<>>
  BY <1>1, <1>2, <1>4 DEF Standing, Consuming
<1>7. QED
  BY <1>1, <1>5, <1>6, MatchLevelRefines, KeptRefines

\* An emptied level is erased as the contract counts it.
LEMMA LeaveLevelImplements ==
  ASSUME IInv, CallExact, LeaveLevel
  PROVE  StepRefines
<1>1. /\ pc = "consume" /\ pc' = "match" /\ call' = call /\ BaseInv
      /\ orders \in [Side -> [Price -> Seq(Order)]]
  BY DEF IInv, LeaveLevel, BaseInv, BaseTypeOK
<1>2. PICK r \in Side, p \in Price : r = Opposite(call.side) /\ p = call.at
  BY <1>1, CallIs, SideFacts
<1>3. p \in Standing(r) /\ p = BestOf(r, Standing(r))
  BY <1>1, <1>2, ConsumeFacts
<1>4. LevelActive(total[r][p], orders[r][p]) <=> orders[r][p] # <<>>
  BY <1>1, ActiveFacts
<1>5. orders' = orders
  <2>1. orders' = [orders EXCEPT ![r][p] = orders[r][p]]
    BY <1>2, <1>4 DEF LeaveLevel
  <2>2. QED
    BY <1>1, <2>1
<1>6. tally' = IF orders[r][call.at] = <<>> THEN Invalidated(tally, r) ELSE tally
  BY <1>2, <1>3, <1>4, BestSlot DEF LeaveLevel, ClearLevel
<1>7. QED
  BY <1>1, <1>2, <1>5, <1>6, LeaveLevelRefines, KeptRefines

\* Resting what is left ends the call the contract has already applied.
LEMMA RestImplements ==
  ASSUME IInv, Rest
  PROVE  StepRefines
<1>1. /\ pc = "match" /\ BaseInv /\ call.rem > 0 /\ UNCHANGED tally
      /\ ~WouldCross(call.side, call.price)
  BY DEF IInv, Rest, Matched
<1>2. PICK s \in Side, p \in Price, r \in Side : s = call.side /\ p = call.price /\ r = Opposite(s)
  BY <1>1, CallIs, SideFacts
<1>3. Standing(r) \in SUBSET Price /\ ~Consuming(s)
  BY <1>1 DEF Standing, Consuming
<1>4. \A x \in Standing(Opposite(call.side)) : ~Crosses(call.side, call.price, x)
  BY <1>1, <1>2, <1>3, BestLevelIs, NoneCrosses DEF WouldCross
<1>5. OrderRests(call.side, call.price)
  BY <1>2 DEF Rest, OrderRests, RefBecomes
<1>6. Contract!Return /\ CallExact'
  BY <1>1, <1>4, <1>5, RestRefines
<1>7. QED
  BY <1>6, ActionRefines

\* Every step of the class is one of the contract's, or nothing to it.
LEMMA NextImplements ==
  ASSUME Accepted = TickPrice
  PROVE  IInv /\ CallExact /\ [Next]_vars => StepRefines
<1> SUFFICES ASSUME IInv, CallExact, [Next]_vars PROVE StepRefines
  OBVIOUS
<1> BaseInv
  BY DEF IInv
<1>1. ASSUME NEW s \in Side, NEW id \in OrderId \cup {ZeroId}, NEW p \in Price,
             NEW q \in Qty, New(s, id, p, q)
      PROVE  StepRefines
  BY <1>1, NewRefines, ActionRefines DEF New
<1>2. ASSUME BeginNothing PROVE StepRefines
  BY <1>2, NothingRefines, ActionRefines
<1>3. ASSUME NEW id \in OrderId \cup {ZeroId}, UnknownOrder(id) \/ Trade PROVE StepRefines
  BY <1>2, <1>3 DEF UnknownOrder, Trade
<1>4. ASSUME NEW id \in OrderId \cup {ZeroId}, Cancel(id) PROVE StepRefines
  BY <1>4, CancelImplements
<1>5. ASSUME NEW id \in OrderId, NEW p \in Price, NEW q \in Qty, Modify(id, p, q)
      PROVE  StepRefines
  BY <1>5, ModifyImplements
<1>6. ASSUME Refuse PROVE StepRefines
  <2>1. /\ pc = "applyNew" /\ Return /\ UNCHANGED <<orders, tally>>
        /\ Refused(call.id, call.price, call.qty)
    BY <1>6, AppliesAccepted DEF Refuse
  <2>2. QED
    BY <2>1, RefuseRefines, ActionRefines
<1>7. ASSUME Replace PROVE StepRefines
  BY <1>7, ReplaceImplements
<1>8. ASSUME StartMatch PROVE StepRefines
  BY <1>8, StartMatchImplements
<1>9. ASSUME MatchLevel PROVE StepRefines
  BY <1>9, MatchLevelImplements
<1>10. ASSUME Fill PROVE StepRefines
  BY <1>10, FillRefines, KeptRefines DEF Fill
<1>11. ASSUME LeaveLevel PROVE StepRefines
  BY <1>11, LeaveLevelImplements
<1>12. ASSUME Done PROVE StepRefines
  <2>1. pc = "match" /\ call.rem = 0 /\ Return /\ UNCHANGED <<orders, tally>>
    BY <1>12 DEF Done, Matched
  <2>2. QED
    BY <2>1, DoneRefines, ActionRefines
<1>13. ASSUME Rest PROVE StepRefines
  BY <1>13, RestImplements
<1>14. ASSUME UNCHANGED vars PROVE StepRefines
  BY <1>14, StutterRefines, KeptRefines DEF vars, baseVars
<1>15. QED
  BY <1>1, <1>2, <1>3, <1>4, <1>5, <1>6, <1>7, <1>8, <1>9, <1>10, <1>11, <1>12, <1>13, <1>14
  DEF Next, Message, Step, Trade

\* The class implements the contract: every call of apply() has exactly the effect on the
\* queues and the counters that price-time priority gives its message, with any index that keeps its
\* contract and for the prices that have a slot.
THEOREM ImplementsContract == IndexSound /\ Accepted = TickPrice => (Spec => Implements)
<1> SUFFICES ASSUME IndexSound, Accepted = TickPrice PROVE Spec => Implements
  OBVIOUS
<1>1. Init => Contract!BookInit /\ CallExact
  BY InitRefines DEF Init
<1>2. IInv /\ CallExact /\ [Next]_vars => CallExact' /\ [Contract!BookNext]_(Contract!bookVars)
  BY NextImplements DEF StepRefines
<1>3. Spec => []IInv
  BY Invariance
<1>4. QED
  BY <1>1, <1>2, <1>3, PTL DEF Spec, Implements, Contract!BookSpec

\* The book is built with the index whose four operators are given.
BuiltWith(empty, mark(_, _, _), best(_, _, _), of(_)) ==
  /\ EmptyIndex = empty
  /\ \A ix, i, on : Marked(ix, i, on) = mark(ix, i, on)
  /\ \A side, ix, levels : IndexedBest(side, ix, levels) = best(side, ix, levels)
  /\ \A levels : IndexOf(levels) = of(levels)

\* The book is one of the three classes: L3ArrayScanOrderBook, L3ArrayFenwickBook or
\* L3ArrayBitsetBook.
OneOfTheClasses ==
  \/ BuiltWith(NoIndex, NothingMarked, ScannedBest, NoIndexOf)
  \/ BuiltWith(EmptyTree, TreeMarked, TreeBest, TreeOfActive)
  \/ BuiltWith(EmptyWords, WordsMarked, WordsBest, WordsOf)

\* Whichever of the three classes the book is, setActive() and recoverBest() keep the contract
\* that the theorems about the array books assume of them.
THEOREM ClassesKeepContract == OneOfTheClasses => IndexSound
<1>1. BuiltWith(NoIndex, NothingMarked, ScannedBest, NoIndexOf) => IndexSound
  <2> SUFFICES ASSUME BuiltWith(NoIndex, NothingMarked, ScannedBest, NoIndexOf) PROVE IndexSound
    OBVIOUS
  <2>1. IndexOf({}) = EmptyIndex
    BY ScanKeepsContract DEF BuiltWith, IndexContract
  <2>2. ASSUME NEW levels \in SUBSET Index, NEW i \in Index
        PROVE  /\ i \notin levels => Marked(IndexOf(levels), i, TRUE) = IndexOf(levels \cup {i})
               /\ i \in levels => Marked(IndexOf(levels), i, FALSE) = IndexOf(levels \ {i})
    <3>1. /\ i \notin levels => NothingMarked(NoIndexOf(levels), i, TRUE) = NoIndexOf(levels \cup {i})
          /\ i \in levels => NothingMarked(NoIndexOf(levels), i, FALSE) = NoIndexOf(levels \ {i})
      BY ScanKeepsContract DEF IndexContract
    <3>2. QED
      BY <3>1 DEF BuiltWith
  <2>3. ASSUME NEW levels \in SUBSET Index, NEW s \in Side
        PROVE  IndexedBest(s, IndexOf(levels), levels) = BestIndexOf(s, levels)
    BY ScanKeepsContract DEF BuiltWith, IndexContract
  <2>4. QED
    BY <2>1, <2>2, <2>3 DEF IndexSound, IndexContract
<1>2. BuiltWith(EmptyTree, TreeMarked, TreeBest, TreeOfActive) => IndexSound
  <2> SUFFICES ASSUME BuiltWith(EmptyTree, TreeMarked, TreeBest, TreeOfActive) PROVE IndexSound
    OBVIOUS
  <2>1. IndexOf({}) = EmptyIndex
    BY TreeKeepsContract DEF BuiltWith, IndexContract
  <2>2. ASSUME NEW levels \in SUBSET Index, NEW i \in Index
        PROVE  /\ i \notin levels => Marked(IndexOf(levels), i, TRUE) = IndexOf(levels \cup {i})
               /\ i \in levels => Marked(IndexOf(levels), i, FALSE) = IndexOf(levels \ {i})
    <3>1. /\ i \notin levels => TreeMarked(TreeOfActive(levels), i, TRUE) = TreeOfActive(levels \cup {i})
          /\ i \in levels => TreeMarked(TreeOfActive(levels), i, FALSE) = TreeOfActive(levels \ {i})
      BY TreeKeepsContract DEF IndexContract
    <3>2. QED
      BY <3>1 DEF BuiltWith
  <2>3. ASSUME NEW levels \in SUBSET Index, NEW s \in Side
        PROVE  IndexedBest(s, IndexOf(levels), levels) = BestIndexOf(s, levels)
    BY TreeKeepsContract DEF BuiltWith, IndexContract
  <2>4. QED
    BY <2>1, <2>2, <2>3 DEF IndexSound, IndexContract
<1>3. BuiltWith(EmptyWords, WordsMarked, WordsBest, WordsOf) => IndexSound
  <2> SUFFICES ASSUME BuiltWith(EmptyWords, WordsMarked, WordsBest, WordsOf) PROVE IndexSound
    OBVIOUS
  <2>1. IndexOf({}) = EmptyIndex
    BY BitsetKeepsContract DEF BuiltWith, IndexContract
  <2>2. ASSUME NEW levels \in SUBSET Index, NEW i \in Index
        PROVE  /\ i \notin levels => Marked(IndexOf(levels), i, TRUE) = IndexOf(levels \cup {i})
               /\ i \in levels => Marked(IndexOf(levels), i, FALSE) = IndexOf(levels \ {i})
    <3>1. /\ i \notin levels => WordsMarked(WordsOf(levels), i, TRUE) = WordsOf(levels \cup {i})
          /\ i \in levels => WordsMarked(WordsOf(levels), i, FALSE) = WordsOf(levels \ {i})
      BY BitsetKeepsContract DEF IndexContract
    <3>2. QED
      BY <3>1 DEF BuiltWith
  <2>3. ASSUME NEW levels \in SUBSET Index, NEW s \in Side
        PROVE  IndexedBest(s, IndexOf(levels), levels) = BestIndexOf(s, levels)
    BY BitsetKeepsContract DEF BuiltWith, IndexContract
  <2>4. QED
    BY <2>1, <2>2, <2>3 DEF IndexSound, IndexContract
<1>4. QED
  BY <1>1, <1>2, <1>3 DEF OneOfTheClasses

\* Each of the three array classes implements the contract: apply() leaves the queues and the
\* counters that price-time priority gives the message, for the prices that have a slot.
THEOREM ClassesImplementContract == OneOfTheClasses /\ Accepted = TickPrice => (Spec => Implements)
BY ClassesKeepContract, ImplementsContract

\* Every invariant of the array books holds of each of the three classes, at every step of every
\* call: above all best_bid_index_ and best_ask_index_ are the best active levels, recoverBest()
\* finds them, no order_it dangles and the book is never crossed.
THEOREM ClassesAreExact ==
  OneOfTheClasses =>
    (Spec => [](TypeOK /\ RefsSound /\ Uncrossed /\ BestExact /\ RecoverExact /\ IndexExact))
<1> SUFFICES ASSUME OneOfTheClasses
             PROVE  Spec => [](TypeOK /\ RefsSound /\ Uncrossed /\ BestExact /\ RecoverExact
                                 /\ IndexExact)
  OBVIOUS
<1>1. /\ Spec => []TypeOK
      /\ Spec => []RefsSound
      /\ Spec => []Uncrossed
      /\ Spec => []BestExact
      /\ Spec => []RecoverExact
      /\ Spec => []IndexExact
  BY ClassesKeepContract, TypeCorrect, RefsAreSound, NeverCrossed, BestIsExact, RecoverIsExact,
     IndexIsExact
<1>2. QED
  BY <1>1, PTL
=============================================================================
