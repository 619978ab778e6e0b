---------------------------- MODULE L3MapBookProofs ----------------------------
(***************************************************************************)
(* Type correctness, soundness of order_refs_, exactness of the levels and *)
(* of the best-level cache, the absence of crossed levels in               *)
(* L3MapOrderBook, and its refinement of L3Book, for any numbers of orders,*)
(* prices and quantities.                                                  *)
(***************************************************************************)
EXTENDS L3MapBook, L3BookBaseProofs

\* The maps hold the standing levels.
KeysExact == \A s \in Side : keys[s] = Standing(s)

\* The cache of side s is its best level, whose quantity it has unless the level
\* is being consumed.
CacheOf(s) ==
  /\ keys[s] = {} => cached_best[s] = None
  /\ keys[s] # {} => /\ cached_best[s] # None
                     /\ cached_best[s].price = BestOf(s, keys[s])

CacheQtyOf(s) ==
  keys[s] # {} /\ ~Consuming(s) => cached_best[s].qty = total[s][BestOf(s, keys[s])]

CacheSound == \A s \in Side : CacheOf(s) /\ CacheQtyOf(s)

IInv ==
  /\ BaseInv
  /\ keys \in [Side -> SUBSET Price]
  /\ cached_best \in [Side -> Level \cup {None}]
  /\ KeysExact
  /\ CacheSound
-----------------------------------------------------------------------------
(* Erasing a level and erasing an order, wherever in a call that happens. *)

\* Erasing an emptied level leaves the cache right about the rest of the map.
LEMMA EraseLevelFacts ==
  ASSUME IInv, NEW s \in Side, NEW p \in keys[s], NEW t \in Tally, EraseLevel(s, p, t)
  PROVE  /\ keys' \in [Side -> SUBSET Price]
         /\ keys'[s] = keys[s] \ {p}
         /\ \A o \in Side : o # s => keys'[o] = keys[o]
         /\ cached_best' \in [Side -> Level \cup {None}]
         /\ CacheOf(s)'
         /\ keys'[s] # {} =>
              \/ cached_best'[s] = cached_best[s]
              \/ cached_best'[s].qty = total[s][BestOf(s, keys'[s])]
         /\ \A o \in Side : o # s => cached_best'[o] = cached_best[o]
         /\ tally' \in Tally
         /\ tally'.crossing_new_orders = t.crossing_new_orders
         /\ tally'.crossing_modify_orders = t.crossing_modify_orders
<1> DEFINE left == keys[s] \ {p}
<1>1. /\ keys \in [Side -> SUBSET Price] /\ cached_best \in [Side -> Level \cup {None}]
      /\ total \in [Side -> [Price -> Int]] /\ CacheOf(s)
  BY DEF IInv, BaseInv, BaseTypeOK, CacheSound
<1>2. keys' = [keys EXCEPT ![s] = left]
  BY DEF EraseLevel
<1>3. /\ keys' \in [Side -> SUBSET Price] /\ keys'[s] = left /\ left \in SUBSET Price
      /\ \A o \in Side : o # s => keys'[o] = keys[o]
  BY <1>1, <1>2
<1>4. cached_best[s] # None /\ cached_best[s].price = BestOf(s, keys[s])
  BY <1>1 DEF CacheOf
<1>5. CASE cached_best[s].price = p
  <2>1. /\ tally' = Invalidated(t, s)
        /\ cached_best' = [cached_best EXCEPT ![s] =
                             IF left = {} THEN None
                             ELSE [price |-> BestOf(s, left), qty |-> total[s][BestOf(s, left)]]]
    BY <1>4, <1>5 DEF EraseLevel
  <2>2. left # {} => BestOf(s, left) \in Price /\ total[s][BestOf(s, left)] \in Int
    <3>1. left # {} => BestOf(s, left) \in Price
      BY <1>3, BestOfExists
    <3>2. \A x \in Price : total[s][x] \in Int
      BY <1>1
    <3>3. QED
      BY <3>1, <3>2
  <2>3. left # {} => [price |-> BestOf(s, left), qty |-> total[s][BestOf(s, left)]] \in Level
    BY <2>2 DEF Level
  <2>4. /\ cached_best' \in [Side -> Level \cup {None}]
        /\ \A o \in Side : o # s => cached_best'[o] = cached_best[o]
        /\ left = {} => cached_best'[s] = None
        /\ left # {} => cached_best'[s] =
                          [price |-> BestOf(s, left), qty |-> total[s][BestOf(s, left)]]
    BY <1>1, <2>1, <2>3
  <2>5. left # {} => /\ cached_best'[s] # None
                     /\ cached_best'[s].price = BestOf(s, left)
                     /\ cached_best'[s].qty = total[s][BestOf(s, left)]
    BY <2>3, <2>4, NoneFacts
  <2>6. QED
    BY <1>3, <2>1, <2>4, <2>5, TallyFacts DEF CacheOf
<1>6. CASE cached_best[s].price # p
  <2>1. tally' = t /\ cached_best' = cached_best
    BY <1>6 DEF EraseLevel
  <2>2. BestOf(s, keys[s]) \in left /\ \A q \in left : ~Better(s, q, BestOf(s, keys[s]))
    BY <1>1, <1>4, <1>6, BestOfExists
  <2>3. BestOf(s, left) = BestOf(s, keys[s])
    BY <1>3, <2>2, BestOfUnique
  <2>4. QED
    BY <1>1, <1>3, <1>4, <2>1, <2>2, <2>3 DEF CacheOf
<1>7. QED
  BY <1>5, <1>6

\* Refreshing the cached quantity of a level changes nothing else in the cache.
LEMMA UpdateCachedLevelFacts ==
  ASSUME IInv, NEW s \in Side, NEW p \in Price, NEW qty \in Int, keys[s] # {},
         NEW new, new = UpdateCachedLevel(s, p, qty)
  PROVE  /\ new \in [Side -> Level \cup {None}]
         /\ new[s] # None
         /\ new[s].price = BestOf(s, keys[s])
         /\ new[s].qty = IF BestOf(s, keys[s]) = p THEN qty ELSE cached_best[s].qty
         /\ \A o \in Side : o # s => new[o] = cached_best[o]
<1>1. /\ cached_best \in [Side -> Level \cup {None}]
      /\ cached_best[s] # None
      /\ cached_best[s].price = BestOf(s, keys[s])
  BY DEF IInv, CacheSound, CacheOf
<1>2. CASE BestOf(s, keys[s]) = p
  <2> DEFINE level == [cached_best[s] EXCEPT !.qty = qty]
  <2>1. new = [cached_best EXCEPT ![s] = level]
    BY <1>1, <1>2 DEF UpdateCachedLevel
  <2>2. level \in Level /\ level.price = cached_best[s].price /\ level.qty = qty
    BY <1>1 DEF Level
  <2> HIDE DEF level
  <2>3. QED
    BY <1>1, <1>2, <2>1, <2>2, NoneFacts
<1>3. CASE BestOf(s, keys[s]) # p
  <2>1. new = cached_best
    BY <1>1, <1>3 DEF UpdateCachedLevel
  <2>2. QED
    BY <1>1, <1>3, <2>1
<1>4. QED
  BY <1>2, <1>3

\* The cache of a side that the step leaves alone.
LEMMA CacheKept ==
  ASSUME IInv, NEW o \in Side, ~Consuming(o),
         keys'[o] = keys[o], cached_best'[o] = cached_best[o],
         \A x \in Price : total'[o][x] = total[o][x]
  PROVE  CacheOf(o)' /\ CacheQtyOf(o)'
<1>1. CacheOf(o) /\ CacheQtyOf(o) /\ keys[o] \in SUBSET Price
  BY DEF IInv, CacheSound
<1>2. keys[o] # {} => total'[o][BestOf(o, keys[o])] = total[o][BestOf(o, keys[o])]
  BY <1>1, BestOfExists
<1>3. QED
  BY <1>1, <1>2 DEF CacheOf, CacheQtyOf

\* Erasing an order through its reference keeps queues, maps and cache in step.
LEMMA EraseByRefKeeps ==
  ASSUME IInv, NEW id \in OrderId, NEW t \in Tally, refs[id] # None, EraseByRef(id, t),
         t.crossing_new_orders = 0, t.crossing_modify_orders = 0,
         ErasingCall(id, refs[id].side)
  PROVE  IInv'
<1>1. PICK s \in Side, p \in Price : RefIs(id, s, p)
  BY RefExists DEF IInv
<1>2. PICK left : left = Unlinked(orders[s][p], id)
  OBVIOUS
<1>3. /\ refs[id].side = s /\ refs[id].price = p /\ p \in Standing(s)
      /\ QueueQty(left) = total[s][p] - orders[s][p][NodeOf(orders[s][p], id)].qty
      /\ orders[s][p] \in Seq(Order)
      /\ DistinctIds(orders[s][p]) /\ Holds(orders[s][p], id)
  BY <1>1, <1>2, RefFacts DEF IInv
<1>4. /\ p \in keys[s] /\ left \in Seq(Order) /\ QueueQty(left) \in Int
      /\ keys \in [Side -> SUBSET Price] /\ \A o \in Side : CacheOf(o) /\ CacheQtyOf(o)
  BY <1>2, <1>3, UnlinkedFacts, QueueQtyFacts DEF IInv, KeysExact, CacheSound
<1>5. /\ RefDropped(id)
      /\ LevelBecomes(s, p, left)
      /\ left = <<>> => EraseLevel(s, p, t)
      /\ left # <<>> => /\ cached_best' = UpdateCachedLevel(s, p, QueueQty(left))
                        /\ tally' = t
                        /\ UNCHANGED keys
  BY <1>2, <1>3, <1>4 DEF EraseByRef, LevelBecomes, RefDropped
<1>6. /\ tally' \in Tally
      /\ tally'.crossing_new_orders = 0 /\ tally'.crossing_modify_orders = 0
  BY <1>3, <1>4, <1>5, EraseLevelFacts
<1>7. /\ BaseInv'
      /\ Standing(s)' = IF left = <<>> THEN Standing(s) \ {p} ELSE Standing(s)
      /\ \A r \in Side : r # s => Standing(r)' = Standing(r)
      /\ \A r \in Side, x \in Price : r # s \/ x # p =>
           orders'[r][x] = orders[r][x] /\ total'[r][x] = total[r][x]
  <2>1. BaseInv /\ ErasingCall(id, s)
    BY <1>3 DEF IInv
  <2>2. QED
    BY <1>1, <1>2, <1>5, <1>6, <2>1, EraseKeeps
<1>8. total'[s][p] = QueueQty(left)
  BY <1>3, <1>5 DEF IInv, BaseInv, BaseTypeOK, LevelBecomes
<1>9. \A o \in Side : ~Consuming(o)
  BY DEF ErasingCall, Consuming
<1>10. CASE left = <<>>
  <2>1. /\ keys' \in [Side -> SUBSET Price]
        /\ keys'[s] = keys[s] \ {p}
        /\ \A o \in Side : o # s => keys'[o] = keys[o]
        /\ cached_best' \in [Side -> Level \cup {None}]
        /\ CacheOf(s)'
        /\ keys'[s] # {} =>
             \/ cached_best'[s] = cached_best[s]
             \/ cached_best'[s].qty = total[s][BestOf(s, keys'[s])]
        /\ \A o \in Side : o # s => cached_best'[o] = cached_best[o]
    BY <1>3, <1>4, <1>5, <1>10, EraseLevelFacts
  <2>2. KeysExact'
    BY <1>7, <1>10, <2>1 DEF IInv, KeysExact
  <2>3. CacheQtyOf(s)'
    <3> SUFFICES ASSUME keys'[s] # {}
                 PROVE  cached_best'[s].qty = total'[s][BestOf(s, keys'[s])]
      BY DEF CacheQtyOf
    <3>1. BestOf(s, keys'[s]) \in keys'[s] /\ BestOf(s, keys'[s]) \in Price
      BY <1>3, <2>1, BestOfExists
    <3>2. total'[s][BestOf(s, keys'[s])] = total[s][BestOf(s, keys'[s])]
      BY <1>3, <1>4, <1>7, <2>1, <3>1
    <3>3. cached_best'[s].price = BestOf(s, keys'[s])
      BY <2>1 DEF CacheOf
    <3>4. cached_best[s].price = BestOf(s, keys[s])
          /\ cached_best[s].qty = total[s][BestOf(s, keys[s])]
      BY <1>3, <1>4, <1>9 DEF CacheOf, CacheQtyOf
    <3>5. QED
      BY <2>1, <3>2, <3>3, <3>4
  <2>4. CacheSound'
    <3>1. ASSUME NEW o \in Side, o # s PROVE CacheOf(o)' /\ CacheQtyOf(o)'
      BY <1>7, <1>9, <2>1, <3>1, CacheKept
    <3>2. QED
      BY <2>1, <2>3, <3>1 DEF CacheSound
  <2>5. QED
    BY <1>7, <2>1, <2>2, <2>4 DEF IInv
<1>11. CASE left # <<>>
  <2>1. PICK qty \in Int : qty = QueueQty(left)
    BY <1>4
  <2>2. cached_best' = UpdateCachedLevel(s, p, qty) /\ keys' = keys /\ keys[s] # {}
    BY <1>4, <1>5, <1>11, <2>1
  <2>3. /\ cached_best' \in [Side -> Level \cup {None}]
        /\ cached_best'[s] # None
        /\ cached_best'[s].price = BestOf(s, keys[s])
        /\ cached_best'[s].qty = IF BestOf(s, keys[s]) = p THEN qty ELSE cached_best[s].qty
        /\ \A o \in Side : o # s => cached_best'[o] = cached_best[o]
    BY <1>3, <2>2, UpdateCachedLevelFacts
  <2>4. KeysExact'
    BY <1>7, <1>11, <2>2 DEF IInv, KeysExact
  <2>5. CacheOf(s)' /\ CacheQtyOf(s)'
    <3>1. BestOf(s, keys[s]) \in Price
      BY <1>3, <1>4, <2>2, BestOfExists
    <3>2. cached_best[s].qty = total[s][BestOf(s, keys[s])]
      BY <1>3, <1>4, <1>9, <2>2 DEF CacheQtyOf
    <3>3. cached_best'[s].qty = total'[s][BestOf(s, keys[s])]
      BY <1>3, <1>7, <1>8, <2>1, <2>3, <3>1, <3>2
    <3>4. QED
      BY <2>2, <2>3, <3>3 DEF CacheOf, CacheQtyOf
  <2>6. CacheSound'
    <3>1. ASSUME NEW o \in Side, o # s PROVE CacheOf(o)' /\ CacheQtyOf(o)'
      BY <1>7, <1>9, <2>2, <2>3, <3>1, CacheKept
    <3>2. QED
      BY <2>5, <3>1 DEF CacheSound
  <2>7. QED
    BY <1>4, <1>7, <2>2, <2>3, <2>4, <2>6 DEF IInv
<1>12. QED
  BY <1>10, <1>11
-----------------------------------------------------------------------------
(* Every step keeps the invariant: first the steps that leave the maps alone. *)

\* A step that touches neither the maps nor the standing levels keeps the invariant.
LEMMA MapsKept ==
  ASSUME IInv, UNCHANGED <<total, keys, cached_best>>, BaseInv',
         \A s \in Side : Standing(s)' = Standing(s) /\ ~Consuming(s)
  PROVE  IInv'
<1>1. KeysExact'
  BY DEF IInv, KeysExact
<1>2. CacheSound'
  BY CacheKept DEF CacheSound
<1>3. QED
  BY <1>1, <1>2 DEF IInv

\* A message that starts a new order keeps the invariant (apply, case New).
LEMMA NewStep ==
  ASSUME IInv, NEW s \in Side, NEW id \in OrderId \cup {ZeroId}, NEW p \in Price,
         NEW q \in Qty, New(s, id, p, q)
  PROVE  IInv'
<1>1. pc = "idle" /\ BeginNew(s, id, p, q) /\ UNCHANGED <<total, keys, cached_best>>
  BY DEF New, BeginNew
<1>2. BaseInv' /\ \A r \in Side : Standing(r)' = Standing(r) /\ ~Consuming(r)
  BY <1>1, BeginNewKeeps DEF IInv, Consuming
<1>3. QED
  BY <1>1, <1>2, MapsKept

\* A message that changes nothing keeps the invariant: a trade, a cancel or modify of an
\* unknown order.
LEMMA NothingStep ==
  ASSUME IInv, BeginNothing, UNCHANGED <<keys, cached_best>>
  PROVE  IInv'
<1>1. pc = "idle" /\ UNCHANGED <<total, keys, cached_best>>
  BY DEF BeginNothing
<1>2. BaseInv' /\ \A r \in Side : Standing(r)' = Standing(r) /\ ~Consuming(r)
  BY <1>1, BeginNothingKeeps DEF IInv, Consuming
<1>3. QED
  BY <1>1, <1>2, MapsKept

\* A call that returns, refused or with nothing left to do, keeps the invariant.
LEMMA ReturnStep ==
  ASSUME IInv, Refuse \/ Done
  PROVE  IInv'
<1>1. /\ pc \in {"applyNew", "match"} /\ Return
      /\ UNCHANGED <<orders, total, refs, tally, keys, cached_best>>
  BY DEF Refuse, Done, Matched
<1>2. BaseInv' /\ \A r \in Side : Standing(r)' = Standing(r) /\ ~Consuming(r)
  BY <1>1, ReturnKeeps DEF IInv, Consuming
<1>3. QED
  BY <1>1, <1>2, MapsKept

\* Entering matchIncoming() keeps the invariant.
LEMMA StartMatchStep ==
  ASSUME IInv, StartMatch
  PROVE  IInv'
<1>1. PICK crosses \in BOOLEAN : crosses = WouldCross(call.side, call.price)
  BY DEF WouldCross
<1>2. /\ pc = "applyNew" /\ BeginMatch(crosses) /\ call.id # ZeroId /\ ~HasOrder(call.id)
      /\ UNCHANGED <<total, keys, cached_best>>
  BY <1>1 DEF StartMatch, Applicable, BeginMatch
<1>3. BaseInv' /\ \A r \in Side : Standing(r)' = Standing(r) /\ ~Consuming(r)
  BY <1>2, BeginMatchKeeps DEF IInv, Consuming
<1>4. QED
  BY <1>2, <1>3, MapsKept
-----------------------------------------------------------------------------
(* The steps that erase one order. *)

\* eraseOrder() for a cancel keeps the invariant.
LEMMA CancelStep ==
  ASSUME IInv, NEW id, Cancel(id)
  PROVE  IInv'
<1>1. /\ pc = "idle" /\ UNCHANGED <<pc, call>>
      /\ id \in OrderId /\ refs[id] # None /\ EraseByRef(id, ZeroTally)
  BY DEF Cancel, HasOrder
<1>2. QED
  BY <1>1, EraseByRefKeeps, TallyFacts DEF ErasingCall

\* The erasure with which a modify begins keeps the invariant.
LEMMA ModifyStep ==
  ASSUME IInv, NEW id \in OrderId, NEW p \in Price, NEW q \in Qty, Modify(id, p, q)
  PROVE  IInv'
<1>1. /\ pc = "idle" /\ EnterApplyNew(refs[id].side, id, p, q, FALSE)
      /\ refs[id] # None /\ EraseByRef(id, ZeroTally)
  BY DEF Modify, HasOrder
<1>2. QED
  BY <1>1, EraseByRefKeeps, TallyFacts DEF ErasingCall

\* applyNew() of an id that rests in the book, which erases it first, keeps the invariant.
LEMMA ReplaceStep ==
  ASSUME IInv, Replace
  PROVE  IInv'
<1>1. /\ pc = "applyNew" /\ UNCHANGED <<pc, call>>
      /\ call.id \in OrderId /\ refs[call.id] # None /\ EraseByRef(call.id, tally)
      /\ tally \in Tally /\ tally.crossing_new_orders = 0 /\ tally.crossing_modify_orders = 0
  BY DEF IInv, BaseInv, BaseTypeOK, CallSound, Replace, Applicable, HasOrder
<1>2. PICK id \in OrderId : id = call.id
  BY <1>1
<1>3. PICK t \in Tally : t = tally
  BY <1>1
<1>4. ErasingCall(id, refs[id].side)
  BY <1>1 DEF ErasingCall
<1>5. QED
  BY <1>1, <1>2, <1>3, <1>4, EraseByRefKeeps
-----------------------------------------------------------------------------
(* The steps of matchIncoming() and consumeLevel(). *)

\* Turning to the best opposite level keeps the invariant.
LEMMA MatchLevelStep ==
  ASSUME IInv, MatchLevel
  PROVE  IInv'
<1>1. PICK r \in Side : r = Opposite(call.side)
  BY SideFacts DEF IInv, BaseInv, BaseTypeOK, Call, MatchLevel, BeginConsume
<1>2. PICK b : b = BestOf(r, Standing(r))
  OBVIOUS
<1>3. /\ pc = "match" /\ Standing(r) # {} /\ BeginConsume(b)
      /\ UNCHANGED <<total, keys, cached_best>>
  BY <1>1, <1>2 DEF IInv, KeysExact, MatchLevel, BestCrosses, BeginConsume
<1>4. BaseInv' /\ \A s \in Side : Standing(s)' = Standing(s) /\ ~Consuming(s)
  BY <1>1, <1>2, <1>3, BeginConsumeKeeps DEF IInv, Consuming
<1>5. QED
  BY <1>3, <1>4, MapsKept

\* One iteration of consumeLevel() keeps the invariant.
LEMMA FillStep ==
  ASSUME IInv, Fill
  PROVE  IInv'
<1>1. PICK r, p : r = Opposite(call.side) /\ p = call.at
  OBVIOUS
<1>2. /\ BaseInv'
      /\ \A s \in Side : Standing(s)' = Standing(s) /\ (Consuming(s)' <=> s = r)
      /\ \A s \in Side, x \in Price : s # r \/ x # p =>
           orders'[s][x] = orders[s][x] /\ total'[s][x] = total[s][x]
  BY <1>1, FillFrontKeeps DEF IInv, Fill
<1>3. UNCHANGED <<keys, cached_best>> /\ pc = "consume"
  BY DEF Fill, FillFront
<1>4. KeysExact'
  BY <1>2, <1>3 DEF IInv, KeysExact
<1>5. CacheSound'
  <2>1. ASSUME NEW o \in Side PROVE CacheOf(o)'
    BY <1>3 DEF IInv, CacheSound, CacheOf
  <2>2. ASSUME NEW o \in Side, o # r PROVE CacheQtyOf(o)'
    BY <1>1, <1>2, <1>3, <2>2, CacheKept DEF Consuming
  <2>3. QED
    BY <1>2, <2>1, <2>2 DEF CacheSound, CacheQtyOf
<1>6. QED
  BY <1>2, <1>3, <1>4, <1>5 DEF IInv

\* Leaving consumeLevel(), which erases a level it has emptied, keeps the invariant.
LEMMA LeaveLevelStep ==
  ASSUME IInv, LeaveLevel
  PROVE  IInv'
<1>1. PICK r, p : r = Opposite(call.side) /\ p = call.at
  OBVIOUS
<1>2. PICK t \in Tally : t = tally
  BY DEF IInv, BaseInv, BaseTypeOK
<1>3. pc = "consume" /\ pc' = "match" /\ UNCHANGED <<orders, total, refs, call>>
  BY DEF LeaveLevel
<1>4. /\ r \in Side /\ p \in Price /\ p \in keys[r] /\ p = BestOf(r, keys[r])
      /\ \A s \in Side : Consuming(s) <=> s = r
      /\ \A s \in Side : CacheOf(s) /\ CacheQtyOf(s)
  BY <1>1, <1>3, ConsumeFacts DEF IInv, KeysExact, CacheSound
<1>5. CASE orders[r][p] = <<>>
  <2>1. EraseLevel(r, p, t)
    BY <1>1, <1>2, <1>5 DEF LeaveLevel
  <2>2. /\ keys' \in [Side -> SUBSET Price]
        /\ keys'[r] = keys[r] \ {p}
        /\ \A o \in Side : o # r => keys'[o] = keys[o]
        /\ cached_best' \in [Side -> Level \cup {None}]
        /\ CacheOf(r)'
        /\ keys'[r] # {} =>
             \/ cached_best'[r] = cached_best[r]
             \/ cached_best'[r].qty = total[r][BestOf(r, keys'[r])]
        /\ \A o \in Side : o # r => cached_best'[o] = cached_best[o]
        /\ tally' \in Tally
    BY <1>4, <2>1, EraseLevelFacts
  <2>3. /\ BaseInv'
        /\ Standing(r)' = Standing(r) \ {p}
        /\ \A s \in Side : s # r => Standing(s)' = Standing(s)
    BY <1>1, <1>3, <1>5, <2>2, LeaveKeeps DEF IInv
  <2>4. KeysExact'
    BY <2>2, <2>3 DEF IInv, KeysExact
  <2>5. CacheQtyOf(r)'
    <3> SUFFICES ASSUME keys'[r] # {}
                 PROVE  cached_best'[r].qty = total'[r][BestOf(r, keys'[r])]
      BY DEF CacheQtyOf
    <3>1. BestOf(r, keys'[r]) # p
      BY <1>4, <2>2, BestOfExists
    <3>2. cached_best'[r].price # cached_best[r].price
      BY <1>4, <2>2, <3>1 DEF CacheOf
    <3>3. QED
      BY <1>3, <2>2, <3>2
  <2>6. CacheSound'
    <3>1. ASSUME NEW o \in Side, o # r PROVE CacheOf(o)' /\ CacheQtyOf(o)'
      BY <1>3, <1>4, <2>2, <3>1, CacheKept
    <3>2. QED
      BY <2>2, <2>5, <3>1 DEF CacheSound
  <2>7. QED
    BY <2>2, <2>3, <2>4, <2>6 DEF IInv
<1>6. CASE orders[r][p] # <<>>
  <2>1. cached_best' = UpdateCachedLevel(r, p, total[r][p]) /\ tally' = tally /\ keys' = keys
    BY <1>1, <1>6 DEF LeaveLevel
  <2>2. PICK qty \in Int : qty = total[r][p]
    BY <1>4 DEF IInv, BaseInv, BaseTypeOK
  <2>3. /\ cached_best' \in [Side -> Level \cup {None}]
        /\ cached_best'[r] # None
        /\ cached_best'[r].price = BestOf(r, keys[r])
        /\ cached_best'[r].qty = qty
        /\ \A o \in Side : o # r => cached_best'[o] = cached_best[o]
    BY <1>4, <2>1, <2>2, UpdateCachedLevelFacts
  <2>4. BaseInv' /\ \A s \in Side : Standing(s)' = Standing(s)
    BY <1>1, <1>2, <1>3, <1>6, <2>1, LeaveKeeps DEF IInv
  <2>5. KeysExact'
    BY <2>1, <2>4 DEF IInv, KeysExact
  <2>6. CacheSound'
    <3>1. CacheOf(r)' /\ CacheQtyOf(r)'
      BY <1>3, <1>4, <2>1, <2>2, <2>3 DEF CacheOf, CacheQtyOf
    <3>2. ASSUME NEW o \in Side, o # r PROVE CacheOf(o)' /\ CacheQtyOf(o)'
      BY <1>3, <1>4, <2>1, <2>3, <3>2, CacheKept
    <3>3. QED
      BY <3>1, <3>2 DEF CacheSound
  <2>7. QED
    BY <2>1, <2>3, <2>4, <2>5, <2>6 DEF IInv
<1>7. QED
  BY <1>5, <1>6

\* Resting what is left: matching has ended because the best opposite level is
\* out of reach, so the order's level crosses none.
LEMMA RestStep ==
  ASSUME IInv, Rest
  PROVE  IInv'
<1>1. /\ pc = "match" /\ call \in Call /\ call.rem > 0 /\ Return /\ tally' = tally
      /\ ~BestCrosses(call.side, call.price)
      /\ keys \in [Side -> SUBSET Price] /\ cached_best \in [Side -> Level \cup {None}]
      /\ \A o \in Side : keys[o] = Standing(o) /\ ~Consuming(o) /\ CacheOf(o) /\ CacheQtyOf(o)
  BY DEF IInv, BaseInv, BaseTypeOK, KeysExact, CacheSound, Consuming, Rest, Matched
<1>2. PICK s \in Side : s = call.side
  BY <1>1 DEF Call
<1>3. PICK p \in Price : p = call.price
  BY <1>1 DEF Call
<1> DEFINE fresh == p \notin keys[s]
           queue == IF fresh THEN <<>> ELSE orders[s][p]
           best == cached_best[s]
<1>4. queue = orders[s][p] /\ (fresh => total[s][p] = 0)
  <2>1. fresh => orders[s][p] = <<>>
    BY <1>1 DEF Standing
  <2>2. fresh => total[s][p] = 0
    BY <2>1, QueueQtyFacts DEF IInv, BaseInv, TotalsExact
  <2>3. QED
    BY <2>1, <2>2
<1>5. PICK qty \in Int : qty = total[s][p] + call.rem
  <2>1. total[s][p] \in Int /\ call.rem \in Int
    BY <1>1, TypesAssumption DEF IInv, BaseInv, BaseTypeOK, Call, Qty
  <2>2. QED
    BY <2>1
<1>6. call.rem + (IF fresh THEN 0 ELSE total[s][p]) = qty
  <2>1. total[s][p] \in Int /\ call.rem \in Int
    BY <1>1, TypesAssumption DEF IInv, BaseInv, BaseTypeOK, Call, Qty
  <2>2. QED
    BY <1>4, <1>5, <2>1
<1>7. /\ keys' = [keys EXCEPT ![s] = @ \cup {p}]
      /\ OrderRests(s, p)
      /\ cached_best' =
           IF best = None \/ Better(s, p, best.price)
           THEN [cached_best EXCEPT ![s] = [price |-> p, qty |-> qty]]
           ELSE UpdateCachedLevel(s, p, qty)
  BY <1>1, <1>2, <1>3, <1>4, <1>5, <1>6 DEF Rest, OrderRests, RefBecomes
<1> HIDE DEF fresh, queue
<1>8. \A x \in Standing(Opposite(call.side)) : ~Crosses(call.side, call.price, x)
  <2>1. CASE Standing(Opposite(s)) = {}
    BY <1>2, <2>1
  <2>2. CASE Standing(Opposite(s)) # {}
    <3>1. ~Crosses(s, p, BestOf(Opposite(s), Standing(Opposite(s))))
      BY <1>1, <1>2, <1>3, <2>2, SideFacts DEF BestCrosses
    <3>2. Standing(Opposite(s)) \in SUBSET Price
      BY DEF Standing
    <3>3. QED
      BY <1>2, <1>3, <2>2, <3>1, <3>2, NoneCrosses
  <2>3. QED
    BY <2>1, <2>2
<1>9. /\ BaseInv'
      /\ Standing(s)' = Standing(s) \cup {p}
      /\ \A r \in Side : r # s => Standing(r)' = Standing(r)
      /\ \A r \in Side, x \in Price : r # s \/ x # p =>
           orders'[r][x] = orders[r][x] /\ total'[r][x] = total[r][x]
  BY <1>1, <1>2, <1>3, <1>7, <1>8, RestKeeps DEF IInv
<1>10. /\ keys' \in [Side -> SUBSET Price]
       /\ keys'[s] = keys[s] \cup {p}
       /\ \A r \in Side : r # s => keys'[r] = keys[r]
  BY <1>1, <1>7
<1>11. KeysExact'
  BY <1>1, <1>9, <1>10 DEF KeysExact
<1>12. total'[s][p] = qty
  BY <1>5, <1>7 DEF IInv, BaseInv, BaseTypeOK, OrderRests
<1>13. PICK level \in Level : level = [price |-> p, qty |-> qty]
  BY DEF Level
<1>14. level # None /\ level.price = p /\ level.qty = qty
  BY <1>13, NoneFacts
<1>15. /\ cached_best' \in [Side -> Level \cup {None}]
       /\ cached_best'[s] # None
       /\ cached_best'[s].price = BestOf(s, keys'[s])
       /\ cached_best'[s].qty = total'[s][BestOf(s, keys'[s])]
       /\ \A r \in Side : r # s => cached_best'[r] = cached_best[r]
  <2>1. CASE best = None \/ Better(s, p, best.price)
    <3>1. cached_best' = [cached_best EXCEPT ![s] = level]
      BY <1>7, <1>13, <2>1
    <3>2. \A x \in keys'[s] : ~Better(s, x, p)
      <4>1. ~Better(s, p, p)
        BY TypesAssumption DEF Better, Price
      <4>2. CASE keys[s] = {}
        BY <1>10, <4>1, <4>2
      <4>3. CASE keys[s] # {}
        <5>1. best # None /\ best.price = BestOf(s, keys[s])
          BY <1>1, <4>3 DEF CacheOf
        <5>2. best.price \in keys[s] /\ \A x \in keys[s] : ~Better(s, x, best.price)
          BY <1>1, <4>3, <5>1, BestOfExists
        <5>3. Better(s, p, best.price)
          BY <2>1, <5>1
        <5>4. \A x \in keys[s] : x \in Int /\ best.price \in Int /\ p \in Int
          BY <1>1, <5>2, TypesAssumption DEF Price
        <5>5. \A x \in keys[s] : ~Better(s, x, p)
          BY <5>2, <5>3, <5>4 DEF Better
        <5>6. QED
          BY <1>10, <4>1, <5>5
      <4>4. QED
        BY <4>2, <4>3
    <3>3. BestOf(s, keys'[s]) = p
      <4>1. keys'[s] \in SUBSET Price /\ p \in keys'[s]
        BY <1>10
      <4>2. QED
        BY <3>2, <4>1, BestOfUnique
    <3>4. QED
      BY <1>1, <1>12, <1>14, <3>1, <3>3
  <2>2. CASE ~(best = None \/ Better(s, p, best.price))
    <3>1. cached_best' = UpdateCachedLevel(s, p, qty)
      BY <1>7, <2>2
    <3>2. keys[s] # {} /\ CacheOf(s) /\ best.price = BestOf(s, keys[s])
      BY <1>1, <2>2 DEF CacheOf
    <3>3. /\ cached_best' \in [Side -> Level \cup {None}]
          /\ cached_best'[s] # None
          /\ cached_best'[s].price = BestOf(s, keys[s])
          /\ cached_best'[s].qty = IF BestOf(s, keys[s]) = p THEN qty ELSE cached_best[s].qty
          /\ \A r \in Side : r # s => cached_best'[r] = cached_best[r]
      BY <3>1, <3>2, UpdateCachedLevelFacts
    <3>4. BestOf(s, keys[s]) \in keys[s] /\ \A x \in keys[s] : ~Better(s, x, BestOf(s, keys[s]))
      BY <1>1, <3>2, BestOfExists
    <3>5. BestOf(s, keys'[s]) = BestOf(s, keys[s])
      <4>1. /\ keys'[s] \in SUBSET Price /\ BestOf(s, keys[s]) \in keys'[s]
            /\ \A x \in keys'[s] : ~Better(s, x, BestOf(s, keys[s]))
        BY <1>10, <2>2, <3>2, <3>4
      <4>2. QED
        BY <4>1, BestOfUnique
    <3>6. cached_best[s].qty = total[s][BestOf(s, keys[s])]
      BY <1>1, <3>2 DEF CacheQtyOf
    <3>7. cached_best'[s].qty = total'[s][BestOf(s, keys[s])]
      <4>1. BestOf(s, keys[s]) \in Price
        BY <1>1, <3>4
      <4>2. QED
        BY <1>9, <1>12, <3>3, <3>6, <4>1
    <3>8. QED
      BY <3>3, <3>5, <3>7
  <2>3. QED
    BY <2>1, <2>2
<1>16. CacheSound'
  <2>1. CacheOf(s)' /\ CacheQtyOf(s)'
    BY <1>10, <1>15 DEF CacheOf, CacheQtyOf
  <2>2. ASSUME NEW r \in Side, r # s PROVE CacheOf(r)' /\ CacheQtyOf(r)'
    BY <1>1, <1>9, <1>10, <1>15, <2>2, CacheKept
  <2>3. QED
    BY <2>1, <2>2 DEF CacheSound
<1>17. QED
  BY <1>9, <1>10, <1>11, <1>15, <1>16 DEF IInv
-----------------------------------------------------------------------------
(* The invariant, and what follows from it. *)

\* The invariant holds of an empty book.
LEMMA InitInv == Init => IInv
<1> SUFFICES ASSUME Init PROVE IInv
  OBVIOUS
<1>1. BaseInv /\ \A s \in Side : Standing(s) = {}
  BY BaseInitInv DEF Init
<1>2. keys = [s \in Side |-> {}] /\ cached_best = [s \in Side |-> None]
  BY DEF Init
<1>3. KeysExact /\ CacheSound
  BY <1>1, <1>2 DEF KeysExact, CacheSound, CacheOf, CacheQtyOf
<1>4. QED
  BY <1>1, <1>2, <1>3 DEF IInv

\* Every step keeps the invariant.
LEMMA NextInv == IInv /\ [Next]_vars => IInv'
<1> SUFFICES ASSUME IInv, [Next]_vars PROVE IInv'
  OBVIOUS
<1>1. ASSUME NEW s \in Side, NEW id \in OrderId \cup {ZeroId}, NEW p \in Price,
             NEW q \in Qty, New(s, id, p, q)
      PROVE  IInv'
  BY <1>1, NewStep
<1>2. ASSUME NEW id \in OrderId \cup {ZeroId}, UnknownOrder(id) PROVE IInv'
  BY <1>2, NothingStep DEF UnknownOrder
<1>3. ASSUME NEW id \in OrderId \cup {ZeroId}, Cancel(id) PROVE IInv'
  BY <1>3, CancelStep
<1>4. ASSUME NEW id \in OrderId, NEW p \in Price, NEW q \in Qty, Modify(id, p, q) PROVE IInv'
  BY <1>4, ModifyStep
<1>5. ASSUME Trade PROVE IInv'
  BY <1>5, NothingStep DEF Trade
<1>6. ASSUME Refuse \/ Done PROVE IInv'
  BY <1>6, ReturnStep
<1>7. ASSUME Replace PROVE IInv'
  BY <1>7, ReplaceStep
<1>8. ASSUME StartMatch PROVE IInv'
  BY <1>8, StartMatchStep
<1>9. ASSUME MatchLevel PROVE IInv'
  BY <1>9, MatchLevelStep
<1>10. ASSUME Fill PROVE IInv'
  BY <1>10, FillStep
<1>11. ASSUME LeaveLevel PROVE IInv'
  BY <1>11, LeaveLevelStep
<1>12. ASSUME Rest PROVE IInv'
  BY <1>12, RestStep
<1>13. ASSUME UNCHANGED vars PROVE IInv'
  <2>1. BaseInv' /\ \A r \in Side : Standing(r)' = Standing(r)
    BY <1>13, StutterKeeps DEF IInv, vars, baseVars
  <2>2. QED
    BY <1>13, <2>1 DEF IInv, vars, KeysExact, Consuming, CacheSound, CacheOf, CacheQtyOf
<1>14. QED
  BY <1>1, <1>2, <1>3, <1>4, <1>5, <1>6, <1>7, <1>8, <1>9, <1>10, <1>11, <1>12, <1>13
  DEF Next, Message, Step

\* The inductive invariant holds of every reachable state: queues, orderId
\* index, maps and cached best levels agree at every step of every apply().
THEOREM Invariance == Spec => []IInv
BY InitInv, NextInv, PTL DEF Spec

\* Types: the quantity left to trade never goes below zero, an order in the
\* book always has some quantity, and tallies stay counters.
THEOREM TypeCorrect == Spec => []TypeOK
<1>1. IInv => TypeOK
  BY DEF IInv, BaseInv, TypeOK
<1>2. QED
  BY Invariance, <1>1, PTL

\* No OrderRef of order_refs_ ever dangles, and no order rests without its
\* reference or twice: erase(order_it) always erases the order meant.
THEOREM RefsAreSound == Spec => []RefsSound
<1>1. IInv => RefsSound
  BY BaseRefsSound DEF IInv
<1>2. QED
  BY Invariance, <1>1, PTL

\* No resting bid ever reaches a resting ask, not even between two steps of a
\* match: crossed() is false whenever it could be asked.
THEOREM NeverCrossed == Spec => []Uncrossed
<1>1. IInv => Uncrossed
  BY BaseUncrossed DEF IInv
<1>2. QED
  BY Invariance, <1>1, PTL

\* total_qty is the sum of the quantities of the level's queue after every
\* append, erase and fill, and bids_ and asks_ hold the levels with orders and no
\* others: a caller who walks a map never meets an empty level.
THEOREM LevelsAreExact == Spec => []LevelsExact
<1>1. IInv => LevelsExact
  <2> SUFFICES ASSUME IInv, NEW s \in Side
               PROVE  /\ \A p \in Price : total[s][p] = QueueQty(orders[s][p])
                      /\ keys[s] = {p \in Price : orders[s][p] # <<>>}
                                     \cup (IF Consuming(s) THEN {call.at} ELSE {})
    BY DEF LevelsExact
  <2>1. \A p \in Price : total[s][p] = QueueQty(orders[s][p])
    BY DEF IInv, BaseInv, TotalsExact
  <2>2. keys[s] = Standing(s) /\ (Consuming(s) => call.at \in Price)
    BY DEF IInv, BaseInv, BaseTypeOK, KeysExact, Consuming, Call
  <2>3. QED
    BY <2>1, <2>2 DEF Standing
<1>2. QED
  BY Invariance, <1>1, PTL

\* cached_best_bid_ and cached_best_ask_ are the best levels of the book, price
\* and quantity, at every point where wouldCross() or a caller reads them.
THEOREM CacheIsExact == Spec => []CacheExact
<1>1. IInv => CacheExact
  <2> SUFFICES ASSUME IInv, NEW s \in Side
               PROVE  IF Consuming(s)
                      THEN cached_best[s] # None /\ cached_best[s].price = call.at
                      ELSE cached_best[s] = BestLevel(s)
    BY DEF CacheExact
  <2>1. /\ keys \in [Side -> SUBSET Price] /\ cached_best \in [Side -> Level \cup {None}]
        /\ CacheOf(s) /\ CacheQtyOf(s)
    BY DEF IInv, CacheSound
  <2>2. CASE Consuming(s)
    <3>1. call.at \in keys[s] /\ call.at = BestOf(s, keys[s])
      BY <2>2, ConsumeFacts DEF IInv, KeysExact, Consuming
    <3>2. QED
      BY <2>1, <2>2, <3>1 DEF CacheOf
  <2>3. CASE ~Consuming(s)
    <3>1. keys[s] = {p \in Price : orders[s][p] # <<>>}
      BY <2>1, <2>3 DEF IInv, KeysExact, Standing
    <3>2. CASE keys[s] = {}
      BY <2>1, <2>3, <3>1, <3>2 DEF CacheOf, BestLevel
    <3>3. CASE keys[s] # {}
      <4>1. BestLevel(s) = [price |-> BestOf(s, keys[s]), qty |-> total[s][BestOf(s, keys[s])]]
        BY <3>1, <3>3 DEF BestLevel
      <4>2. /\ cached_best[s] \in Level
            /\ cached_best[s].price = BestOf(s, keys[s])
            /\ cached_best[s].qty = total[s][BestOf(s, keys[s])]
        BY <2>1, <2>3, <3>3 DEF CacheOf, CacheQtyOf
      <4>3. QED
        BY <2>3, <4>1, <4>2 DEF Level
    <3>4. QED
      BY <3>2, <3>3
  <2>4. QED
    BY <2>2, <2>3
<1>2. QED
  BY Invariance, <1>1, PTL
-----------------------------------------------------------------------------
(* The class implements the contract. *)

\* eraseByRef() takes the order out of the queue that its reference names, and counts an
\* invalidation when the order was all there was of the best level.
LEMMA EraseByRefErases ==
  ASSUME IInv, pc # "consume", NEW id \in OrderId, NEW t \in Tally, refs[id] # None,
         EraseByRef(id, t)
  PROVE  \E s \in Side, p \in Price : OrderErased(id, s, p, t) /\ refs[id].side = s
<1>1. PICK s \in Side, p \in Price : RefIs(id, s, p)
  BY RefExists DEF IInv
<1>2. PICK left : left = Unlinked(orders[s][p], id)
  OBVIOUS
<1>3. refs[id].side = s /\ refs[id].price = p /\ p \in Standing(s)
  BY <1>1, RefFacts DEF IInv
<1>4. /\ p \in keys[s] /\ keys[s] = Standing(s)
      /\ cached_best[s] # None /\ cached_best[s].price = BestOf(s, keys[s])
  BY <1>3 DEF IInv, KeysExact, CacheSound, CacheOf
<1>5. /\ orders' = [orders EXCEPT ![s][p] = left]
      /\ left = <<>> => EraseLevel(s, p, t)
      /\ left # <<>> => tally' = t
  BY <1>2, <1>3, <1>4 DEF EraseByRef
<1>6. /\ left = <<>> /\ p = BestOf(s, Standing(s)) => tally' = Invalidated(t, s)
      /\ ~(left = <<>> /\ p = BestOf(s, Standing(s))) => tally' = t
  BY <1>4, <1>5 DEF EraseLevel
<1>7. QED
  BY <1>1, <1>2, <1>3, <1>5, <1>6 DEF OrderErased

\* eraseByRef() of a cancel is the contract's Cancel.
LEMMA CancelImplements ==
  ASSUME IInv, NEW id, Cancel(id)
  PROVE  StepRefines
<1>1. /\ pc = "idle" /\ UNCHANGED <<pc, call>> /\ id \in OrderId /\ refs[id] # None
      /\ EraseByRef(id, ZeroTally) /\ BaseInv
  BY DEF Cancel, HasOrder, IInv
<1>2. PICK s \in Side, p \in Price : OrderErased(id, s, p, ZeroTally)
  BY <1>1, EraseByRefErases, TallyFacts
<1>3. Contract!Cancel(id) /\ CallExact'
  BY <1>1, <1>2, CancelRefines
<1>4. QED
  BY <1>1, <1>3, ActionRefines

\* eraseByRef() and the call of applyNew() are the contract's Modify.
LEMMA ModifyImplements ==
  ASSUME IInv, NEW id \in OrderId, NEW x \in Price, NEW q \in Qty, Modify(id, x, q)
  PROVE  StepRefines
<1>1. /\ pc = "idle" /\ refs[id] # None /\ q > 0 /\ EraseByRef(id, ZeroTally) /\ BaseInv
      /\ EnterApplyNew(refs[id].side, id, x, q, FALSE)
  BY DEF Modify, HasOrder, IInv
<1>2. PICK s \in Side, p \in Price : OrderErased(id, s, p, ZeroTally) /\ refs[id].side = s
  BY <1>1, EraseByRefErases, TallyFacts
<1>3. EnterApplyNew(s, id, x, q, FALSE)
  BY <1>1, <1>2
<1>4. Contract!Modify(id, x, q) /\ CallExact'
  BY <1>1, <1>2, <1>3, ModifyRefines
<1>5. QED
  BY <1>4, ActionRefines

\* applyNew() refuses what the contract refuses.
LEMMA AppliesAccepted ==
  ASSUME Accepted = Price, IInv, pc = "applyNew"
  PROVE  Refused(call.id, call.price, call.qty) <=> call.qty = 0 \/ call.id = ZeroId
BY CallIs DEF Refused, IInv

\* The erasure with which applyNew() begins is part of the contract's New or Modify.
LEMMA ReplaceImplements ==
  ASSUME Accepted = Price, IInv, CallExact, Replace
  PROVE  StepRefines
<1>1. /\ pc = "applyNew" /\ UNCHANGED <<pc, call>> /\ BaseInv /\ tally \in Tally
      /\ call.id \in OrderId /\ refs[call.id] # None /\ EraseByRef(call.id, tally)
      /\ call.qty > 0 /\ call.id # ZeroId
  BY CallIs DEF IInv, Replace, Applicable, HasOrder
<1>2. ~Refused(call.id, call.price, call.qty)
  BY <1>1, AppliesAccepted
<1>3. PICK id \in OrderId, t \in Tally : id = call.id /\ t = tally
  BY <1>1
<1>4. PICK s \in Side, p \in Price : OrderErased(id, s, p, tally)
  BY <1>1, <1>3, EraseByRefErases
<1>5. QED
  BY <1>1, <1>2, <1>3, <1>4, ReplaceRefines, KeptRefines

\* wouldCross() asks what the contract asks of the whole book.
LEMMA StartMatchImplements ==
  ASSUME Accepted = Price, IInv, CallExact, StartMatch
  PROVE  StepRefines
<1>1. /\ pc = "applyNew" /\ BaseInv /\ ~HasOrder(call.id) /\ call.qty > 0 /\ call.id # ZeroId
      /\ BeginMatch(WouldCross(call.side, call.price))
  BY DEF IInv, StartMatch, Applicable
<1>2. ~Refused(call.id, call.price, call.qty)
  BY <1>1, AppliesAccepted, CallIs
<1>3. PICK r \in Side : r = Opposite(call.side)
  BY <1>1, CallIs, SideFacts
<1>4. PICK c \in BOOLEAN : c = WouldCross(call.side, call.price)
  BY DEF WouldCross
<1>5. c <=> Standing(r) # {} /\ Crosses(call.side, call.price, BestOf(r, Standing(r)))
  BY <1>3, <1>4 DEF IInv, KeysExact, CacheSound, CacheOf, WouldCross
<1>6. BeginMatch(c)
  BY <1>1, <1>4
<1>7. QED
  BY <1>1, <1>2, <1>3, <1>5, <1>6, StartMatchRefines, KeptRefines

\* Turning to the best level is nothing to the contract.
LEMMA MatchLevelImplements ==
  ASSUME IInv, MatchLevel
  PROVE  StepRefines
<1>1. pc = "match" /\ BaseInv /\ pc # "idle"
  BY DEF IInv, MatchLevel
<1>2. PICK r \in Side : r = Opposite(call.side)
  BY <1>1, CallIs, SideFacts
<1>3. keys[r] = Standing(r) /\ Standing(r) \in SUBSET Price
  BY DEF IInv, KeysExact, Standing
<1>4. PICK b \in Price : b \in Standing(r) /\ b = BestOf(r, keys[r])
  BY <1>2, <1>3, BestOfExists DEF MatchLevel, BestCrosses
<1>5. BeginConsume(b) /\ Crosses(call.side, call.price, b)
  BY <1>2, <1>4 DEF MatchLevel, BestCrosses
<1>6. orders[Opposite(call.side)][b] # <<>>
  BY <1>1, <1>2, <1>4 DEF Standing, Consuming
<1>7. QED
  BY <1>1, <1>5, <1>6, MatchLevelRefines, KeptRefines

\* An emptied level is erased as the contract counts it.
LEMMA LeaveLevelImplements ==
  ASSUME IInv, CallExact, LeaveLevel
  PROVE  StepRefines
<1>1. /\ pc = "consume" /\ pc' = "match" /\ UNCHANGED <<orders, call>> /\ BaseInv
  BY DEF IInv, LeaveLevel
<1>2. PICK r \in Side, p \in Price : r = Opposite(call.side) /\ p = call.at
  BY <1>1, CallIs, SideFacts
<1>3. p \in keys[r] /\ p = BestOf(r, keys[r]) /\ CacheOf(r)
  BY <1>1, <1>2, ConsumeFacts DEF IInv, KeysExact, CacheSound
<1>4. tally' = IF orders[r][call.at] = <<>> THEN Invalidated(tally, r) ELSE tally
  BY <1>2, <1>3 DEF LeaveLevel, EraseLevel, CacheOf
<1>5. QED
  BY <1>1, <1>2, <1>4, LeaveLevelRefines, KeptRefines

\* Resting what is left ends the call the contract has already applied.
LEMMA RestImplements ==
  ASSUME IInv, Rest
  PROVE  StepRefines
<1>1. /\ pc = "match" /\ BaseInv /\ call.rem > 0 /\ UNCHANGED tally
      /\ ~BestCrosses(call.side, call.price)
  BY DEF IInv, Rest, Matched
<1>2. PICK s \in Side, p \in Price, r \in Side : s = call.side /\ p = call.price /\ r = Opposite(s)
  BY <1>1, CallIs, SideFacts
<1>3. /\ keys[s] = Standing(s) /\ keys[r] = Standing(r) /\ Standing(r) \in SUBSET Price
      /\ ~Consuming(s)
  BY <1>1 DEF IInv, KeysExact, Standing, Consuming
<1>4. \A x \in Standing(Opposite(call.side)) : ~Crosses(call.side, call.price, x)
  BY <1>1, <1>2, <1>3, NoneCrosses DEF BestCrosses
<1>5. PICK queue : queue = IF p \notin keys[s] THEN <<>> ELSE orders[s][p]
  OBVIOUS
<1>6. queue = orders[s][p]
  BY <1>3, <1>5 DEF Standing
<1>7. OrderRests(call.side, call.price)
  <2>1. PICK qty : qty = call.rem + (IF p \notin keys[s] THEN 0 ELSE total[s][p])
    OBVIOUS
  <2>2. qty = total[s][p] + call.rem
    <3>1. total[s][p] \in Int /\ call.rem \in Int
      BY <1>1, CallIs DEF BaseInv, BaseTypeOK
    <3>2. p \notin keys[s] => total[s][p] = 0
      BY <1>3, <1>5, <1>6, QueueQtyFacts DEF IInv, BaseInv, TotalsExact
    <3>3. QED
      BY <2>1, <3>1, <3>2
  <2>3. /\ orders' = [orders EXCEPT ![s][p] = Append(queue, [id |-> call.id, qty |-> call.rem])]
        /\ total' = [total EXCEPT ![s][p] = qty]
        /\ refs' = [refs EXCEPT ![call.id] = [side |-> s, price |-> p]]
        /\ Return
    BY <1>2, <1>5, <2>1 DEF Rest
  <2>4. QED
    BY <1>2, <1>6, <2>2, <2>3 DEF OrderRests, RefBecomes
<1>8. Contract!Return /\ CallExact'
  BY <1>1, <1>4, <1>7, RestRefines
<1>9. QED
  BY <1>8, ActionRefines

\* Every step of the class is one of the contract's, or nothing to it.
LEMMA NextImplements ==
  ASSUME Accepted = Price
  PROVE  IInv /\ CallExact /\ [Next]_vars => StepRefines
<1> SUFFICES ASSUME IInv, CallExact, [Next]_vars PROVE StepRefines
  OBVIOUS
<1> BaseInv
  BY DEF IInv
<1>1. ASSUME NEW s \in Side, NEW id \in OrderId \cup {ZeroId}, NEW p \in Price,
             NEW q \in Qty, New(s, id, p, q)
      PROVE  StepRefines
  BY <1>1, NewRefines, ActionRefines DEF New
<1>2. ASSUME BeginNothing PROVE StepRefines
  BY <1>2, NothingRefines, ActionRefines
<1>3. ASSUME NEW id \in OrderId \cup {ZeroId}, UnknownOrder(id) \/ Trade PROVE StepRefines
  BY <1>2, <1>3 DEF UnknownOrder, Trade
<1>4. ASSUME NEW id \in OrderId \cup {ZeroId}, Cancel(id) PROVE StepRefines
  BY <1>4, CancelImplements
<1>5. ASSUME NEW id \in OrderId, NEW p \in Price, NEW q \in Qty, Modify(id, p, q)
      PROVE  StepRefines
  BY <1>5, ModifyImplements
<1>6. ASSUME Refuse PROVE StepRefines
  <2>1. /\ pc = "applyNew" /\ Return /\ UNCHANGED <<orders, tally>>
        /\ Refused(call.id, call.price, call.qty)
    BY <1>6, AppliesAccepted DEF Refuse
  <2>2. QED
    BY <2>1, RefuseRefines, ActionRefines
<1>7. ASSUME Replace PROVE StepRefines
  BY <1>7, ReplaceImplements
<1>8. ASSUME StartMatch PROVE StepRefines
  BY <1>8, StartMatchImplements
<1>9. ASSUME MatchLevel PROVE StepRefines
  BY <1>9, MatchLevelImplements
<1>10. ASSUME Fill PROVE StepRefines
  BY <1>10, FillRefines, KeptRefines DEF Fill
<1>11. ASSUME LeaveLevel PROVE StepRefines
  BY <1>11, LeaveLevelImplements
<1>12. ASSUME Done PROVE StepRefines
  <2>1. pc = "match" /\ call.rem = 0 /\ Return /\ UNCHANGED <<orders, tally>>
    BY <1>12 DEF Done, Matched
  <2>2. QED
    BY <2>1, DoneRefines, ActionRefines
<1>13. ASSUME Rest PROVE StepRefines
  BY <1>13, RestImplements
<1>14. ASSUME UNCHANGED vars PROVE StepRefines
  BY <1>14, StutterRefines, KeptRefines DEF vars, baseVars
<1>15. QED
  BY <1>1, <1>2, <1>3, <1>4, <1>5, <1>6, <1>7, <1>8, <1>9, <1>10, <1>11, <1>12, <1>13, <1>14
  DEF Next, Message, Step, Trade

\* The class implements the contract: every call of apply() has exactly the effect on the
\* queues and the counters that price-time priority gives its message.
THEOREM ImplementsContract == Accepted = Price => (Spec => Implements)
<1> SUFFICES ASSUME Accepted = Price PROVE Spec => Implements
  OBVIOUS
<1>1. Init => Contract!BookInit /\ CallExact
  BY InitRefines DEF Init
<1>2. IInv /\ CallExact /\ [Next]_vars => CallExact' /\ [Contract!BookNext]_(Contract!bookVars)
  BY NextImplements DEF StepRefines
<1>3. QED
  BY Invariance, <1>1, <1>2, PTL DEF Spec, Implements, Contract!BookSpec
=============================================================================
