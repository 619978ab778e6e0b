--------------------------- MODULE L3BookBaseProofs ---------------------------
(***************************************************************************)
(* What the five book classes share: what unlinking and filling an order   *)
(* does to a queue, the invariant of a book whatever its index of price    *)
(* levels, what each step of a call does to it, and that each step is one  *)
(* of the contract L3Book or nothing to it.                                *)
(***************************************************************************)
EXTENDS L3BookRefines, L3BookOpsProofs

\* None is no level and no reference.
LEMMA NoneFacts == None \notin Level /\ None \notin Ref
BY NoneAssumption DEF Ref

\* Counting an order that has left the book keeps a tally a tally.
LEMMA TallyFacts ==
  /\ ZeroTally \in Tally
  /\ ZeroTally.crossing_new_orders = 0 /\ ZeroTally.crossing_modify_orders = 0
  /\ \A t \in Tally, s \in Side :
       /\ Invalidated(t, s) \in Tally
       /\ Invalidated(t, s).crossing_new_orders = t.crossing_new_orders
       /\ Invalidated(t, s).crossing_modify_orders = t.crossing_modify_orders
BY DEF ZeroTally, Tally, Invalidated


\* NodeOf() finds the node of an order the queue holds.
LEMMA NodeOfFacts ==
  ASSUME NEW q \in Seq(Order), NEW id
  PROVE  /\ NodeOf(q, id) # 0 <=> Holds(q, id)
         /\ Holds(q, id) => /\ NodeOf(q, id) \in DOMAIN q
                            /\ q[NodeOf(q, id)].id = id
<1>1. DOMAIN q = 1 .. Len(q) /\ Len(q) \in Nat
  BY QueueFacts
<1>2. CASE Holds(q, id)
  <2>1. NodeOf(q, id) = CHOOSE i \in DOMAIN q : q[i].id = id
    BY <1>2 DEF NodeOf, Holds
  <2>2. NodeOf(q, id) \in DOMAIN q /\ q[NodeOf(q, id)].id = id
    BY <1>2, <2>1, Zenon DEF Holds
  <2>3. QED
    BY <1>1, <1>2, <2>2
<1>3. CASE ~Holds(q, id)
  BY <1>3 DEF NodeOf, Holds
<1>4. QED
  BY <1>2, <1>3

\* Unlinking an order leaves every other order in the queue.
LEMMA UnlinkedFacts ==
  ASSUME NEW q \in Seq(Order), NEW id, Holds(q, id), DistinctIds(q)
  PROVE  /\ Unlinked(q, id) \in Seq(Order)
         /\ DistinctIds(Unlinked(q, id))
         /\ \A x : Holds(Unlinked(q, id), x) <=> Holds(q, x) /\ x # id
<1> DEFINE n == NodeOf(q, id)
           u == Unlinked(q, id)
<1>1. n \in 1 .. Len(q) /\ q[n].id = id /\ DOMAIN q = 1 .. Len(q) /\ Len(q) \in Nat
  BY NodeOfFacts, QueueFacts
<1>2. /\ u \in Seq(Order) /\ Len(u) = Len(q) - 1
      /\ \A j \in 1 .. Len(q) - 1 : u[j] = IF j < n THEN q[j] ELSE q[j + 1]
  BY <1>1, RemoveAtFacts DEF Unlinked
<1> HIDE DEF n, u
<1>3. DOMAIN u = 1 .. Len(q) - 1
  BY <1>1, <1>2, QueueFacts
<1> DEFINE from(j) == IF j < n THEN j ELSE j + 1
<1>4. \A j \in DOMAIN u : from(j) \in DOMAIN q /\ from(j) # n /\ u[j] = q[from(j)]
  BY <1>1, <1>2, <1>3
<1>5. \A j, k \in DOMAIN u : from(j) = from(k) => j = k
  BY <1>1, <1>3
<1>6. \A i \in DOMAIN q : i # n => \E j \in DOMAIN u : from(j) = i
  <2> SUFFICES ASSUME NEW i \in DOMAIN q, i # n
               PROVE  \E j \in DOMAIN u : from(j) = i
    OBVIOUS
  <2>1. CASE i < n
    <3>1. i \in DOMAIN u /\ from(i) = i
      BY <1>1, <1>3, <2>1
    <3>2. QED
      BY <3>1
  <2>2. CASE i > n
    <3>1. i - 1 \in DOMAIN u /\ from(i - 1) = i
      BY <1>1, <1>3, <2>2
    <3>2. QED
      BY <3>1
  <2>3. QED
    BY <1>1, <2>1, <2>2
<1> HIDE DEF from
<1>7. DistinctIds(u)
  BY <1>4, <1>5 DEF DistinctIds
<1>8. ASSUME NEW x PROVE Holds(u, x) <=> Holds(q, x) /\ x # id
  <2>1. ASSUME Holds(u, x) PROVE Holds(q, x) /\ x # id
    <3>1. PICK j \in DOMAIN u : u[j].id = x
      BY <2>1 DEF Holds
    <3>2. from(j) \in DOMAIN q /\ from(j) # n /\ q[from(j)].id = x
      BY <1>4, <3>1
    <3>3. QED
      BY <1>1, <3>2 DEF Holds, DistinctIds
  <2>2. ASSUME Holds(q, x), x # id PROVE Holds(u, x)
    <3>1. PICK i \in DOMAIN q : q[i].id = x
      BY <2>2 DEF Holds
    <3>2. PICK j \in DOMAIN u : from(j) = i
      BY <1>1, <1>6, <2>2, <3>1
    <3>3. QED
      BY <1>4, <3>1, <3>2 DEF Holds
  <2>3. QED
    BY <2>1, <2>2
<1>9. QED
  BY <1>2, <1>7, <1>8 DEF u

\* One pass of consumeLevel's loop: the order at the front leaves the queue
\* when it is filled, and stays in front when it is not.
LEMMA AfterTradeFacts ==
  ASSUME NEW q \in Seq(Order), q # <<>>, DistinctIds(q), NEW rem \in 1 .. MaxQty
  PROVE  /\ Traded(q, rem) \in 1 .. rem
         /\ Traded(q, rem) <= q[1].qty
         /\ q[1].id \in OrderId
         /\ Holds(q, q[1].id)
         /\ AfterTrade(q, rem) \in Seq(Order)
         /\ DistinctIds(AfterTrade(q, rem))
         /\ \A x : Holds(AfterTrade(q, rem), x) <=>
                     Holds(q, x) /\ ~(x = q[1].id /\ Traded(q, rem) = q[1].qty)
<1> DEFINE t == Traded(q, rem)
           u == AfterTrade(q, rem)
<1>1. /\ DOMAIN q = 1 .. Len(q) /\ Len(q) \in Nat /\ Len(q) >= 1
      /\ q[1] \in Order /\ q[1].id \in OrderId /\ q[1].qty \in 1 .. MaxQty
  BY QueueFacts
<1>2. t \in 1 .. rem /\ t <= q[1].qty
  BY <1>1, TypesAssumption DEF Traded, MinOf
<1> HIDE DEF t
<1>3. Holds(q, q[1].id)
  BY <1>1 DEF Holds
<1>4. CASE t = q[1].qty
  <2>1. u = Tail(q)
    BY <1>4 DEF AfterTrade, t
  <2>2. /\ u \in Seq(Order) /\ Len(u) = Len(q) - 1
        /\ \A j \in 1 .. Len(u) : u[j] = q[j + 1]
    BY <2>1, HeadTailProperties
  <2> HIDE DEF u
  <2>3. DOMAIN u = 1 .. Len(q) - 1 /\ \A j \in DOMAIN u : j + 1 \in DOMAIN q /\ u[j] = q[j + 1]
    BY <1>1, <2>2, QueueFacts
  <2>4. DistinctIds(u)
    <3> SUFFICES ASSUME NEW j \in DOMAIN u, NEW k \in DOMAIN u, u[j].id = u[k].id
                 PROVE  j = k
      BY DEF DistinctIds
    <3>1. j + 1 = k + 1
      BY <2>3 DEF DistinctIds
    <3>2. QED
      BY <1>1, <2>3, <3>1
  <2>5. ASSUME NEW x PROVE Holds(u, x) <=> Holds(q, x) /\ x # q[1].id
    <3>1. ASSUME Holds(u, x) PROVE Holds(q, x) /\ x # q[1].id
      <4>1. PICK j \in DOMAIN u : u[j].id = x
        BY <3>1 DEF Holds
      <4>2. j + 1 \in DOMAIN q /\ j + 1 # 1 /\ q[j + 1].id = x
        BY <1>1, <2>3, <4>1
      <4>3. QED
        BY <1>1, <4>2 DEF Holds, DistinctIds
    <3>2. ASSUME Holds(q, x), x # q[1].id PROVE Holds(u, x)
      <4>1. PICK i \in DOMAIN q : q[i].id = x
        BY <3>2 DEF Holds
      <4>2. i - 1 \in DOMAIN u /\ u[i - 1] = q[i]
        BY <1>1, <2>3, <3>2, <4>1
      <4>3. QED
        BY <4>1, <4>2 DEF Holds
    <3>3. QED
      BY <3>1, <3>2
  <2>6. QED
    BY <1>1, <1>2, <1>3, <1>4, <2>2, <2>4, <2>5 DEF t, u
<1>5. CASE t # q[1].qty
  <2>1. PICK n : n = q[1].qty - t
    OBVIOUS
  <2>2. n \in 1 .. MaxQty
    BY <1>1, <1>2, <1>5, <2>1, TypesAssumption
  <2> DEFINE o == [q[1] EXCEPT !.qty = n]
  <2>3. u = [q EXCEPT ![1] = o]
    BY <1>5, <2>1 DEF AfterTrade, t
  <2>4. o \in Order /\ o.id = q[1].id
    BY <1>1, <2>2 DEF Order
  <2> HIDE DEF o
  <2>5. /\ u \in Seq(Order) /\ Len(u) = Len(q)
        /\ \A j \in 1 .. Len(q) : u[j] = IF j = 1 THEN o ELSE q[j]
    BY <1>1, <2>3, <2>4, ExceptSeq
  <2> HIDE DEF u
  <2>6. DOMAIN u = DOMAIN q /\ \A j \in DOMAIN q : u[j].id = q[j].id
    BY <1>1, <2>4, <2>5, QueueFacts
  <2>7. DistinctIds(u) /\ \A x : Holds(u, x) <=> Holds(q, x)
    BY <2>6 DEF DistinctIds, Holds
  <2>8. QED
    BY <1>1, <1>2, <1>3, <1>5, <2>5, <2>7 DEF t, u
<1>6. QED
  BY <1>4, <1>5

\* Unlinking an order takes its quantity out of the queue.
LEMMA QueueQtyUnlinked ==
  ASSUME NEW q \in Seq(Order), NEW id, Holds(q, id)
  PROVE  /\ q[NodeOf(q, id)].qty \in Nat
         /\ QueueQty(Unlinked(q, id)) = QueueQty(q) - q[NodeOf(q, id)].qty
<1>1. NodeOf(q, id) \in 1 .. Len(q)
  BY NodeOfFacts, QueueFacts
<1>2. q[NodeOf(q, id)].qty \in Nat
  BY <1>1, QueueFacts, TypesAssumption
<1>3. QED
  BY <1>1, <1>2, QueueQtyRemoveAt DEF Unlinked

\* One pass of consumeLevel's loop takes what it trades out of the queue.
LEMMA QueueQtyAfterTrade ==
  ASSUME NEW q \in Seq(Order), q # <<>>, NEW rem \in 1 .. MaxQty
  PROVE  QueueQty(AfterTrade(q, rem)) = QueueQty(q) - Traded(q, rem)
<1>1. /\ Len(q) \in Nat /\ 1 \in 1 .. Len(q) /\ DOMAIN q = 1 .. Len(q)
      /\ q[1] \in Order /\ q[1].qty \in 1 .. MaxQty /\ MaxQty \in Nat
  BY QueueFacts, TypesAssumption
<1>2. PICK t \in 1 .. rem : t = Traded(q, rem) /\ t <= q[1].qty
  BY <1>1 DEF Traded, MinOf
<1>3. QueueQty(Tail(q)) = QueueQty(q) - q[1].qty
  BY QueueQtyTail
<1>4. CASE t = q[1].qty
  BY <1>2, <1>3, <1>4 DEF AfterTrade
<1>5. CASE t # q[1].qty
  <2>1. PICK n \in 1 .. MaxQty : n = q[1].qty - t
    BY <1>1, <1>2, <1>5
  <2> DEFINE o == [q[1] EXCEPT !.qty = n]
  <2>2. AfterTrade(q, rem) = [q EXCEPT ![1] = o]
    BY <1>2, <1>5, <2>1 DEF AfterTrade
  <2>3. o \in Order /\ o.qty = n
    BY <1>1, <2>1 DEF Order
  <2> HIDE DEF o
  <2>4. /\ [q EXCEPT ![1] = o] \in Seq(Order) /\ Len([q EXCEPT ![1] = o]) = Len(q)
        /\ \A j \in 1 .. Len(q) : [q EXCEPT ![1] = o][j] = IF j = 1 THEN o ELSE q[j]
    BY <1>1, <2>3, ExceptSeq
  <2>5. PICK u \in Seq(Order) : u = [q EXCEPT ![1] = o]
    BY <2>4
  <2>6. u # <<>> /\ u[1] = o /\ Len(u) = Len(q)
    BY <1>1, <2>4, <2>5
  <2>7. Tail(u) = Tail(q)
    <3>1. /\ Tail(u) \in Seq(Order) /\ Len(Tail(u)) = Len(q) - 1
          /\ \A j \in 1 .. Len(Tail(u)) : Tail(u)[j] = u[j + 1]
      BY <2>6, HeadTailProperties
    <3>2. /\ Tail(q) \in Seq(Order) /\ Len(Tail(q)) = Len(q) - 1
          /\ \A j \in 1 .. Len(Tail(q)) : Tail(q)[j] = q[j + 1]
      BY HeadTailProperties
    <3>3. \A j \in 1 .. Len(q) - 1 : u[j + 1] = q[j + 1]
      BY <1>1, <2>4, <2>5
    <3>4. QED
      BY <3>1, <3>2, <3>3, SeqEqual
  <2>8. QueueQty(Tail(q)) = QueueQty(u) - n
    BY <2>3, <2>6, <2>7, QueueQtyTail
  <2>9. QueueQty(u) \in Nat /\ QueueQty(q) \in Nat
    BY QueueQtyFacts
  <2>10. PICK a \in Nat, b \in Nat : a = QueueQty(u) /\ b = QueueQty(q)
    BY <2>9
  <2>11. PICK k \in Nat : k = q[1].qty
    BY <1>1
  <2>12. n = k - t /\ k - t \in Nat /\ t \in Nat
    BY <1>1, <1>2, <2>1, <2>11
  <2>13. a - n = b - k
    <3>1. QueueQty(Tail(q)) = b - k
      BY <1>3, <2>10, <2>11
    <3>2. QueueQty(Tail(q)) = a - n
      BY <2>8, <2>10
    <3>3. QED
      BY <3>1, <3>2
  <2>14. a = b - t
    BY <2>1, <2>11, <2>12, <2>13, SMTT(30)
  <2>15. QED
    BY <1>2, <2>2, <2>5, <2>10, <2>14
<1>6. QED
  BY <1>4, <1>5
-----------------------------------------------------------------------------
(* The invariant of a book, whatever its price-level index. *)

\* RefsSound in terms of the orders that queues hold.
QueuesSound ==
  /\ \A s \in Side, p \in Price : DistinctIds(orders[s][p])
  /\ \A id \in OrderId :
       refs[id] # None => Holds(orders[refs[id].side][refs[id].price], id)
  /\ \A s \in Side, p \in Price : \A id :
       Holds(orders[s][p], id) => refs[id] = [side |-> s, price |-> p]

TotalsExact == \A s \in Side, p \in Price : total[s][p] = QueueQty(orders[s][p])

\* The levels of a side: those with orders, and the one being consumed.
Standing(s) == {p \in Price : orders[s][p] # <<>> \/ (Consuming(s) /\ p = call.at)}

StandingUncrossed == \A b \in Standing("Bid"), a \in Standing("Ask") : b < a

\* What the call in progress relies on.
CallSound ==
  /\ pc = "applyNew" => tally.crossing_new_orders = 0 /\ tally.crossing_modify_orders = 0
  /\ pc \in {"match", "consume"} => refs[call.id] = None
  /\ \A s \in Side : Consuming(s) => call.at = BestOf(s, Standing(s))

BaseInv ==
  /\ BaseTypeOK
  /\ QueuesSound
  /\ TotalsExact
  /\ StandingUncrossed
  /\ CallSound

\* What the books share holds of an empty book, in which no level stands.
LEMMA BaseInitInv == BaseInit => BaseInv /\ \A s \in Side : Standing(s) = {}
<1> SUFFICES ASSUME BaseInit PROVE BaseInv /\ \A s \in Side : Standing(s) = {}
  OBVIOUS
<1>1. /\ orders = [s \in Side |-> [p \in Price |-> <<>>]]
      /\ total = [s \in Side |-> [p \in Price |-> 0]]
      /\ refs = [id \in OrderId |-> None]
      /\ pc = "idle" /\ call = None /\ tally = ZeroTally
  BY DEF BaseInit
<1>2. <<>> \in Seq(Order) /\ \A x : ~Holds(<<>>, x)
  BY DEF Holds
<1>3. BaseTypeOK
  BY <1>1, <1>2, TallyFacts DEF BaseTypeOK
<1>4. QueuesSound
  BY <1>1, <1>2 DEF QueuesSound, DistinctIds
<1>5. TotalsExact
  BY <1>1, QueueQtyFacts DEF TotalsExact
<1>6. \A s \in Side : Standing(s) = {} /\ ~Consuming(s)
  BY <1>1 DEF Standing, Consuming
<1>7. StandingUncrossed /\ CallSound
  BY <1>1, <1>6 DEF StandingUncrossed, CallSound, Side
<1>8. QED
  BY <1>3, <1>4, <1>5, <1>6, <1>7 DEF BaseInv
-----------------------------------------------------------------------------
(* One queue changes. *)

\* The step leaves this queue on a level, and its quantity in total_qty.
LevelBecomes(s, p, left) ==
  /\ orders' = [orders EXCEPT ![s][p] = left]
  /\ total' = [total EXCEPT ![s][p] = QueueQty(left)]

\* Giving one level a new queue and that queue's quantity leaves the other levels alone.
LEMMA OneLevelChanges ==
  ASSUME BaseTypeOK, NEW s \in Side, NEW p \in Price, NEW left \in Seq(Order),
         LevelBecomes(s, p, left)
  PROVE  /\ orders' \in [Side -> [Price -> Seq(Order)]]
         /\ total' \in [Side -> [Price -> Int]]
         /\ orders'[s][p] = left /\ total'[s][p] = QueueQty(left)
         /\ \A r \in Side, x \in Price : r # s \/ x # p =>
              orders'[r][x] = orders[r][x] /\ total'[r][x] = total[r][x]
         /\ TotalsExact => TotalsExact'
<1>1. orders \in [Side -> [Price -> Seq(Order)]] /\ total \in [Side -> [Price -> Int]]
  BY DEF BaseTypeOK
<1>2. PICK n \in Int : n = QueueQty(left)
  BY QueueQtyFacts
<1>3. total' = [total EXCEPT ![s][p] = n] /\ orders' = [orders EXCEPT ![s][p] = left]
  BY <1>2 DEF LevelBecomes
<1>4. /\ total' \in [Side -> [Price -> Int]]
      /\ total'[s][p] = n
      /\ \A r \in Side, x \in Price : r # s \/ x # p => total'[r][x] = total[r][x]
  BY <1>1, <1>3
<1>5. /\ orders' \in [Side -> [Price -> Seq(Order)]]
      /\ orders'[s][p] = left
      /\ \A r \in Side, x \in Price : r # s \/ x # p => orders'[r][x] = orders[r][x]
  BY <1>1, <1>3
<1>6. TotalsExact => TotalsExact'
  BY <1>2, <1>4, <1>5, ZenonT(30) DEF TotalsExact
<1>7. QED
  BY <1>2, <1>4, <1>5, <1>6

\* Orders leave a queue and order_refs_ together.
OrdersGone(gone, queue, left) ==
  /\ \A x : Holds(left, x) <=> Holds(queue, x) /\ x \notin gone
  /\ \A x \in gone : Holds(queue, x)
  /\ \A x \in OrderId : refs'[x] = IF x \in gone THEN None ELSE refs[x]

\* References and queues still agree when the orders that leave a queue lose theirs.
LEMMA OrdersLeave ==
  ASSUME BaseTypeOK, QueuesSound, NEW s \in Side, NEW p \in Price, NEW left \in Seq(Order),
         LevelBecomes(s, p, left), DistinctIds(left), NEW gone,
         OrdersGone(gone, orders[s][p], left)
  PROVE  QueuesSound'
<1>1. /\ orders \in [Side -> [Price -> Seq(Order)]]
      /\ refs \in [OrderId -> Ref \cup {None}]
  BY DEF BaseTypeOK
<1>2. /\ orders' \in [Side -> [Price -> Seq(Order)]]
      /\ orders'[s][p] = left
      /\ \A r \in Side, x \in Price : r # s \/ x # p => orders'[r][x] = orders[r][x]
  BY <1>1 DEF LevelBecomes
<1>3. ASSUME NEW r \in Side, NEW y \in Price PROVE DistinctIds(orders'[r][y])
  BY <1>2 DEF QueuesSound
<1>4. ASSUME NEW x \in OrderId, refs'[x] # None
      PROVE  Holds(orders'[refs'[x].side][refs'[x].price], x)
  <2>1. x \notin gone /\ refs'[x] = refs[x] /\ refs[x] # None
    BY <1>4 DEF OrdersGone
  <2>2. refs[x].side \in Side /\ refs[x].price \in Price
    BY <1>1, <2>1 DEF Ref
  <2>3. Holds(orders[refs[x].side][refs[x].price], x)
    BY <2>1 DEF QueuesSound
  <2>4. CASE refs[x].side = s /\ refs[x].price = p
    BY <1>2, <2>1, <2>3, <2>4 DEF OrdersGone
  <2>5. CASE refs[x].side # s \/ refs[x].price # p
    BY <1>2, <2>1, <2>2, <2>3, <2>5
  <2>6. QED
    BY <2>4, <2>5
<1>5. ASSUME NEW r \in Side, NEW y \in Price, NEW x, Holds(orders'[r][y], x)
      PROVE  refs'[x] = [side |-> r, price |-> y]
  <2>1. x \in OrderId
    BY <1>2, <1>5, QueueFacts
  <2>2. Holds(orders[r][y], x) /\ (x \in gone => r # s \/ y # p)
    BY <1>2, <1>5 DEF OrdersGone
  <2>3. refs[x] = [side |-> r, price |-> y]
    BY <2>2 DEF QueuesSound
  <2>4. x \in gone => refs[x] = [side |-> s, price |-> p]
    BY DEF QueuesSound, OrdersGone
  <2>5. x \notin gone
    BY <2>2, <2>3, <2>4
  <2>6. QED
    BY <2>1, <2>3, <2>5 DEF OrdersGone
<1>6. QED
  BY <1>3, <1>4, <1>5 DEF QueuesSound

\* The levels of a book where one queue has changed.
LEMMA StandingAfter ==
  ASSUME BaseTypeOK, NEW s \in Side, NEW p \in Price, NEW left \in Seq(Order),
         LevelBecomes(s, p, left), pc # "consume", pc' # "consume"
  PROVE  /\ Standing(s)' = IF left = <<>> THEN Standing(s) \ {p} ELSE Standing(s) \cup {p}
         /\ \A r \in Side : r # s => Standing(r)' = Standing(r)
<1>1. orders \in [Side -> [Price -> Seq(Order)]]
  BY DEF BaseTypeOK
<1>2. \A r \in Side : ~Consuming(r) /\ ~Consuming(r)'
  BY DEF Consuming
<1>3. /\ orders'[s][p] = left
      /\ \A r \in Side, x \in Price : r # s \/ x # p => orders'[r][x] = orders[r][x]
  BY <1>1 DEF LevelBecomes
<1>4. QED
  BY <1>2, <1>3 DEF Standing
-----------------------------------------------------------------------------
(* The steps that leave the book alone. *)

\* A step that changes no queue and is not in consumeLevel() leaves the levels standing.
LEMMA BookKept ==
  ASSUME BaseInv, UNCHANGED <<orders, total, refs>>, pc # "consume", pc' # "consume"
  PROVE  /\ orders' \in [Side -> [Price -> Seq(Order)]]
         /\ total' \in [Side -> [Price -> Int]]
         /\ refs' \in [OrderId -> Ref \cup {None}]
         /\ QueuesSound' /\ TotalsExact' /\ StandingUncrossed'
         /\ \A s \in Side : Standing(s)' = Standing(s) /\ ~Consuming(s) /\ ~Consuming(s)'
<1>1. \A s \in Side : ~Consuming(s) /\ ~Consuming(s)'
  BY DEF Consuming
<1>2. QueuesSound'
  BY DEF BaseInv, QueuesSound
<1>3. TotalsExact'
  BY DEF BaseInv, TotalsExact
<1>4. \A s \in Side : Standing(s)' = Standing(s)
  BY <1>1 DEF Standing
<1>5. StandingUncrossed'
  BY <1>4 DEF BaseInv, StandingUncrossed, Side
<1>6. QED
  BY <1>1, <1>2, <1>3, <1>4, <1>5 DEF BaseInv, BaseTypeOK

\* Starting a new order keeps what the books share, and the standing levels.
LEMMA BeginNewKeeps ==
  ASSUME BaseInv, NEW s \in Side, NEW id \in OrderId \cup {ZeroId}, NEW p \in Price,
         NEW q \in Qty, BeginNew(s, id, p, q)
  PROVE  BaseInv' /\ \A r \in Side : Standing(r)' = Standing(r)
<1>1. /\ pc = "idle" /\ pc' = "applyNew" /\ tally' = ZeroTally
      /\ call' = [side |-> s, id |-> id, price |-> p, qty |-> q, isNew |-> TRUE,
                  rem |-> q, at |-> p]
      /\ UNCHANGED <<orders, total, refs>>
  BY DEF BeginNew, EnterApplyNew
<1>2. call' \in Call
  BY <1>1 DEF Call
<1>3. BaseTypeOK'
  BY <1>1, <1>2, BookKept, TallyFacts DEF BaseTypeOK
<1>4. CallSound'
  BY <1>1, BookKept, TallyFacts DEF CallSound
<1>5. QED
  BY <1>1, <1>3, <1>4, BookKept DEF BaseInv

\* A message that changes nothing keeps both.
LEMMA BeginNothingKeeps ==
  ASSUME BaseInv, BeginNothing
  PROVE  BaseInv' /\ \A r \in Side : Standing(r)' = Standing(r)
<1>1. /\ pc = "idle" /\ pc' = "idle" /\ call' = call /\ tally' = ZeroTally
      /\ UNCHANGED <<orders, total, refs>>
  BY DEF BeginNothing
<1>2. BaseTypeOK'
  BY <1>1, BookKept, TallyFacts DEF BaseInv, BaseTypeOK
<1>3. CallSound'
  BY <1>1, BookKept DEF CallSound
<1>4. QED
  BY <1>1, <1>2, <1>3, BookKept DEF BaseInv

\* The return of a call that has not rested its order keeps both.
LEMMA ReturnKeeps ==
  ASSUME BaseInv, pc \in {"applyNew", "match"}, Return, UNCHANGED <<orders, total, refs, tally>>
  PROVE  BaseInv' /\ \A r \in Side : Standing(r)' = Standing(r)
<1>1. pc' = "idle" /\ call' = None
  BY DEF Return
<1>2. BaseTypeOK'
  BY <1>1, BookKept DEF BaseInv, BaseTypeOK
<1>3. CallSound'
  BY <1>1, BookKept DEF CallSound
<1>4. QED
  BY <1>1, <1>2, <1>3, BookKept DEF BaseInv

\* Entering matchIncoming() keeps both.
LEMMA BeginMatchKeeps ==
  ASSUME BaseInv, NEW crosses \in BOOLEAN, BeginMatch(crosses), call.id # ZeroId, ~HasOrder(call.id)
  PROVE  BaseInv' /\ \A r \in Side : Standing(r)' = Standing(r)
<1>1. /\ pc = "applyNew" /\ pc' = "match" /\ call' = call
      /\ UNCHANGED <<orders, total, refs>> /\ CountCrossing(crosses)
      /\ call \in Call /\ tally \in Tally
      /\ tally.crossing_new_orders = 0 /\ tally.crossing_modify_orders = 0
  BY DEF BaseInv, BaseTypeOK, CallSound, BeginMatch
<1>2. call.id \in OrderId /\ refs[call.id] = None
  BY <1>1 DEF HasOrder, Call
<1>3. tally' \in Tally
  <2> DEFINE n == IF crosses /\ call.isNew THEN 1 ELSE 0
             m == IF crosses /\ ~call.isNew THEN 1 ELSE 0
             a == tally.crossing_new_orders + n
             b == tally.crossing_modify_orders + m
  <2>1. n \in 0 .. 1 /\ m \in 0 .. 1
    OBVIOUS
  <2>2. tally' = [tally EXCEPT !.crossing_new_orders = a, !.crossing_modify_orders = b]
    BY <1>1 DEF CountCrossing
  <2> HIDE DEF n, m
  <2>3. a \in 0 .. 1 /\ b \in 0 .. 1
    BY <1>1, <2>1
  <2> HIDE DEF a, b
  <2>4. QED
    BY <1>1, <2>2, <2>3 DEF Tally
<1>4. BaseTypeOK'
  BY <1>1, <1>2, <1>3, BookKept DEF BaseTypeOK
<1>5. CallSound'
  BY <1>1, <1>2, BookKept DEF CallSound
<1>6. QED
  BY <1>1, <1>4, <1>5, BookKept DEF BaseInv

\* Consuming starts on the best level of the other side.
LEMMA BeginConsumeKeeps ==
  ASSUME BaseInv, NEW r \in Side, r = Opposite(call.side), Standing(r) # {},
         NEW b, b = BestOf(r, Standing(r)), BeginConsume(b)
  PROVE  BaseInv' /\ \A s \in Side : Standing(s)' = Standing(s)
<1>1. /\ pc = "match" /\ pc' = "consume" /\ call' = [call EXCEPT !.at = b]
      /\ UNCHANGED <<orders, total, refs, tally>>
      /\ call \in Call /\ call.id \in OrderId /\ refs[call.id] = None
  BY DEF BaseInv, BaseTypeOK, CallSound, BeginConsume
<1>2. b \in Standing(r) /\ b \in Price
  BY BestOfExists DEF Standing
<1>3. call' \in Call /\ call'.side = call.side /\ call'.id = call.id /\ call'.at = b
  BY <1>1, <1>2 DEF Call
<1>4. \A s \in Side : ~Consuming(s) /\ (Consuming(s)' <=> s = r)
  BY <1>1, <1>3 DEF Consuming
<1>5. \A s \in Side : Standing(s)' = Standing(s)
  BY <1>1, <1>2, <1>3, <1>4 DEF Standing
<1>6. BaseTypeOK'
  BY <1>1, <1>3 DEF BaseInv, BaseTypeOK
<1>7. QueuesSound' /\ TotalsExact'
  BY <1>1 DEF BaseInv, QueuesSound, TotalsExact
<1>8. StandingUncrossed'
  BY <1>5 DEF BaseInv, StandingUncrossed, Side
<1>9. CallSound'
  <2>1. \A s \in Side : Consuming(s)' => call'.at = BestOf(s, Standing(s)')
    BY <1>3, <1>4, <1>5
  <2>2. QED
    BY <1>1, <1>3, <2>1 DEF CallSound
<1>10. QED
  BY <1>5, <1>6, <1>7, <1>8, <1>9 DEF BaseInv
\* A stuttering step keeps both.
LEMMA StutterKeeps ==
  ASSUME BaseInv, UNCHANGED baseVars
  PROVE  BaseInv' /\ \A r \in Side : Standing(r)' = Standing(r)
<1>1. UNCHANGED <<orders, total, refs, pc, call, tally>>
  BY DEF baseVars
<1>2. \A r \in Side : Standing(r)' = Standing(r) /\ (Consuming(r)' <=> Consuming(r))
  BY <1>1 DEF Standing, Consuming
<1>3. BaseTypeOK' /\ QueuesSound' /\ TotalsExact'
  BY <1>1 DEF BaseInv, BaseTypeOK, QueuesSound, TotalsExact
<1>4. StandingUncrossed' /\ CallSound'
  BY <1>1, <1>2 DEF BaseInv, StandingUncrossed, CallSound, Side
<1>5. QED
  BY <1>2, <1>3, <1>4 DEF BaseInv
-----------------------------------------------------------------------------
(* Erasing an order. *)

RefIs(id, s, p) == refs[id] = [side |-> s, price |-> p]

RefDropped(id) == refs' = [refs EXCEPT ![id] = None]

\* A stored reference is a reference to some level.
LEMMA RefExists ==
  ASSUME BaseInv, NEW id \in OrderId, refs[id] # None
  PROVE  \E s \in Side, p \in Price : RefIs(id, s, p)
BY DEF BaseInv, BaseTypeOK, Ref, RefIs

\* The queue that a reference names, and what erasing the order leaves of it.
LEMMA RefFacts ==
  ASSUME BaseInv, NEW id \in OrderId, NEW s \in Side, NEW p \in Price, RefIs(id, s, p)
  PROVE  /\ refs[id] # None /\ refs[id].side = s /\ refs[id].price = p
         /\ orders[s][p] \in Seq(Order) /\ orders[s][p] # <<>>
         /\ DistinctIds(orders[s][p]) /\ Holds(orders[s][p], id)
         /\ p \in Standing(s)
         /\ QueueQty(Unlinked(orders[s][p], id)) =
              total[s][p] - orders[s][p][NodeOf(orders[s][p], id)].qty
<1>1. orders \in [Side -> [Price -> Seq(Order)]]
  BY DEF BaseInv, BaseTypeOK
<1>2. refs[id] # None /\ refs[id].side = s /\ refs[id].price = p
  BY NoneFacts DEF RefIs, Ref
<1>3. PICK q \in Seq(Order) : q = orders[s][p]
  BY <1>1
<1>4. DistinctIds(q) /\ Holds(q, id)
  <2>1. DistinctIds(q)
    BY <1>3 DEF BaseInv, QueuesSound
  <2>2. Holds(orders[refs[id].side][refs[id].price], id)
    BY <1>2 DEF BaseInv, QueuesSound
  <2>3. QED
    BY <1>2, <1>3, <2>1, <2>2
<1>5. q # <<>>
  BY <1>4 DEF Holds
<1>6. p \in Standing(s)
  BY <1>3, <1>5 DEF Standing
<1>7. total[s][p] = QueueQty(q)
  BY <1>3 DEF BaseInv, TotalsExact
<1>8. QueueQty(Unlinked(q, id)) = QueueQty(q) - q[NodeOf(q, id)].qty
  BY <1>4, QueueQtyUnlinked
<1>9. QED
  BY <1>2, <1>3, <1>4, <1>5, <1>6, <1>7, <1>8

\* Who erases an order: cancel(), the duplicate id in applyNew(), or modify().
ErasingCall(id, side) ==
  \/ pc \in {"idle", "applyNew"} /\ UNCHANGED <<pc, call>>
  \/ pc = "idle" /\ \E x \in Price, n \in Qty : EnterApplyNew(side, id, x, n, FALSE)

\* eraseOrder() keeps what the books share; the level stops standing if it is emptied.
LEMMA EraseKeeps ==
  ASSUME BaseInv, NEW id \in OrderId, NEW s \in Side, NEW p \in Price, RefIs(id, s, p),
         NEW left, left = Unlinked(orders[s][p], id),
         LevelBecomes(s, p, left), RefDropped(id),
         tally' \in Tally,
         tally'.crossing_new_orders = 0, tally'.crossing_modify_orders = 0,
         ErasingCall(id, s)
  PROVE  /\ BaseInv'
         /\ Standing(s)' = IF left = <<>> THEN Standing(s) \ {p} ELSE Standing(s)
         /\ \A r \in Side : r # s => Standing(r)' = Standing(r)
         /\ \A r \in Side, x \in Price : r # s \/ x # p =>
              orders'[r][x] = orders[r][x] /\ total'[r][x] = total[r][x]
<1>1. BaseTypeOK /\ QueuesSound /\ TotalsExact
  BY DEF BaseInv
<1>2. /\ orders[s][p] \in Seq(Order) /\ DistinctIds(orders[s][p]) /\ Holds(orders[s][p], id)
      /\ p \in Standing(s)
  BY RefFacts
<1>3. /\ left \in Seq(Order) /\ DistinctIds(left)
      /\ \A x : Holds(left, x) <=> Holds(orders[s][p], x) /\ x # id
  BY <1>2, UnlinkedFacts
<1>4. /\ orders' \in [Side -> [Price -> Seq(Order)]] /\ total' \in [Side -> [Price -> Int]]
      /\ TotalsExact'
      /\ \A r \in Side, x \in Price : r # s \/ x # p =>
           orders'[r][x] = orders[r][x] /\ total'[r][x] = total[r][x]
  BY <1>1, <1>2, <1>3, OneLevelChanges
<1>5. /\ refs' \in [OrderId -> Ref \cup {None}]
      /\ \A x \in OrderId : refs'[x] = IF x \in {id} THEN None ELSE refs[x]
  BY <1>1 DEF BaseTypeOK, RefDropped
<1>6. QueuesSound'
  <2>1. OrdersGone({id}, orders[s][p], left)
    BY <1>2, <1>3, <1>5 DEF OrdersGone
  <2>2. QED
    BY <1>1, <1>2, <1>3, <2>1, OrdersLeave
<1>7. pc # "consume" /\ pc' # "consume" /\ pc' \notin {"match", "consume"}
  BY DEF ErasingCall, EnterApplyNew
<1>8. /\ Standing(s)' = IF left = <<>> THEN Standing(s) \ {p} ELSE Standing(s)
      /\ \A r \in Side : r # s => Standing(r)' = Standing(r)
  <2>1. /\ Standing(s)' = IF left = <<>> THEN Standing(s) \ {p} ELSE Standing(s) \cup {p}
        /\ \A r \in Side : r # s => Standing(r)' = Standing(r)
    BY <1>1, <1>2, <1>3, <1>7, StandingAfter
  <2>2. Standing(s) \cup {p} = Standing(s)
    BY <1>2
  <2>3. QED
    BY <2>1, <2>2
<1>9. StandingUncrossed'
  <2>1. \A r \in Side : Standing(r)' \subseteq Standing(r)
    BY <1>8
  <2>2. QED
    BY <2>1 DEF BaseInv, StandingUncrossed, Side
<1>10. BaseTypeOK'
  <2>1. CASE pc \in {"idle", "applyNew"} /\ UNCHANGED <<pc, call>>
    BY <1>1, <1>4, <1>5, <2>1 DEF BaseTypeOK
  <2>2. CASE pc = "idle" /\ \E x \in Price, n \in Qty : EnterApplyNew(s, id, x, n, FALSE)
    <3>1. PICK x \in Price, n \in Qty : EnterApplyNew(s, id, x, n, FALSE)
      BY <2>2
    <3>2. pc' = "applyNew" /\ call' \in Call
      BY <1>2, <3>1 DEF EnterApplyNew, Call
    <3>3. QED
      BY <1>4, <1>5, <3>2 DEF BaseTypeOK
  <2>3. QED
    BY <2>1, <2>2 DEF ErasingCall
<1>11. CallSound'
  BY <1>7 DEF CallSound, Consuming
<1>12. QED
  BY <1>4, <1>6, <1>8, <1>9, <1>10, <1>11 DEF BaseInv
-----------------------------------------------------------------------------
(* The steps of consumeLevel(). *)

\* While a level is consumed, it is the best of the opposite side, and the only such level.
LEMMA ConsumeFacts ==
  ASSUME BaseInv, pc = "consume", NEW r, r = Opposite(call.side), NEW p, p = call.at
  PROVE  /\ r \in Side /\ p \in Price /\ call \in Call /\ r # call.side
         /\ p \in Standing(r) /\ p = BestOf(r, Standing(r))
         /\ \A s \in Side : Consuming(s) <=> s = r
<1>1. call \in Call
  BY DEF BaseInv, BaseTypeOK
<1>2. r \in Side /\ p \in Price /\ r # call.side
  BY <1>1, SideFacts DEF Call
<1>3. \A s \in Side : Consuming(s) <=> s = r
  BY DEF Consuming
<1>4. p \in Standing(r) /\ p = BestOf(r, Standing(r))
  BY <1>2, <1>3 DEF BaseInv, CallSound, Standing
<1>5. QED
  BY <1>1, <1>2, <1>3, <1>4

\* A fill of the front order keeps what the books share and every level standing, the
\* one being consumed included.
LEMMA FillFrontKeeps ==
  ASSUME BaseInv, FillFront, NEW r, r = Opposite(call.side), NEW p, p = call.at
  PROVE  /\ BaseInv'
         /\ \A s \in Side : Standing(s)' = Standing(s) /\ (Consuming(s)' <=> s = r)
         /\ \A s \in Side, x \in Price : s # r \/ x # p =>
              orders'[s][x] = orders[s][x] /\ total'[s][x] = total[s][x]
         /\ call'.side = call.side /\ call'.at = p /\ call'.rem < call.rem
<1>1. /\ pc = "consume" /\ pc' = "consume" /\ call.rem > 0
      /\ orders[Opposite(call.side)][call.at] # <<>>
      /\ call.id \in OrderId /\ refs[call.id] = None
      /\ refs \in [OrderId -> Ref \cup {None}] /\ tally \in Tally
      /\ orders \in [Side -> [Price -> Seq(Order)]]
  BY DEF BaseInv, BaseTypeOK, CallSound, FillFront, CanFill
<1>2. /\ r \in Side /\ p \in Price /\ call \in Call
      /\ p \in Standing(r) /\ p = BestOf(r, Standing(r))
      /\ \A s \in Side : Consuming(s) <=> s = r
  BY <1>1, ConsumeFacts
<1> DEFINE q == orders[r][p]
           t == Traded(q, call.rem)
           left == AfterTrade(q, call.rem)
<1>3. q \in Seq(Order) /\ q # <<>> /\ DistinctIds(q) /\ call.rem \in 1 .. MaxQty
  <2>1. q \in Seq(Order) /\ q # <<>>
    BY <1>1, <1>2
  <2>2. DistinctIds(q)
    BY <1>2 DEF BaseInv, QueuesSound
  <2>3. call.rem \in Qty
    BY <1>2 DEF Call
  <2>4. QED
    BY <1>1, <2>1, <2>2, <2>3, TypesAssumption DEF Qty
<1>4. /\ t \in 1 .. call.rem /\ q[1].id \in OrderId /\ Holds(q, q[1].id)
      /\ left \in Seq(Order) /\ DistinctIds(left)
      /\ \A x : Holds(left, x) <=> Holds(q, x) /\ ~(x = q[1].id /\ t = q[1].qty)
  BY <1>3, AfterTradeFacts
<1>5. /\ call' = [call EXCEPT !.rem = @ - t]
      /\ orders' = [orders EXCEPT ![r][p] = left]
      /\ total' = [total EXCEPT ![r][p] = @ - t]
      /\ refs' = IF t = q[1].qty THEN [refs EXCEPT ![q[1].id] = None] ELSE refs
      /\ tally' = [tally EXCEPT !.match_events = @ + 1, !.traded_qty = @ + t]
  BY DEF FillFront
<1>6. LevelBecomes(r, p, left)
  <2>1. total[r][p] = QueueQty(q)
    BY <1>2 DEF BaseInv, TotalsExact
  <2>2. QueueQty(left) = QueueQty(q) - t
    BY <1>3, QueueQtyAfterTrade
  <2> HIDE DEF q, t, left
  <2>3. total[r][p] - t = QueueQty(left)
    BY <2>1, <2>2
  <2>4. total \in [Side -> [Price -> Int]]
    BY DEF BaseInv, BaseTypeOK
  <2>5. QED
    BY <1>2, <1>5, <2>3, <2>4 DEF LevelBecomes
<1> HIDE DEF q, t, left
<1>7. /\ orders' \in [Side -> [Price -> Seq(Order)]] /\ total' \in [Side -> [Price -> Int]]
      /\ TotalsExact'
      /\ \A s \in Side, x \in Price : s # r \/ x # p =>
           orders'[s][x] = orders[s][x] /\ total'[s][x] = total[s][x]
  BY <1>2, <1>4, <1>6, OneLevelChanges DEF BaseInv
<1>8. PICK n \in Qty : n = call.rem - t /\ n < call.rem
  <2>1. PICK m \in 1 .. MaxQty : m = call.rem
    BY <1>3
  <2>2. t \in 1 .. m
    BY <1>4, <2>1
  <2>3. m - t \in Qty /\ m - t < m
    BY <2>2, TypesAssumption DEF Qty
  <2>4. QED
    BY <2>1, <2>3
<1>9. /\ call' \in Call /\ call'.side = call.side /\ call'.id = call.id /\ call'.at = p
      /\ call'.rem = n
  <2>1. call' = [call EXCEPT !.rem = n]
    BY <1>5, <1>8
  <2>2. QED
    BY <1>2, <2>1 DEF Call
<1>10. tally' \in Tally
  <2> DEFINE a == tally.match_events + 1
             b == tally.traded_qty + t
  <2>1. a \in Nat /\ b \in Nat
    <3>1. tally.match_events \in Nat /\ tally.traded_qty \in Nat
      BY <1>1 DEF Tally
    <3>2. t \in Nat
      BY <1>3, <1>4
    <3>3. QED
      BY <3>1, <3>2
  <2>2. tally' = [tally EXCEPT !.match_events = a, !.traded_qty = b]
    BY <1>5
  <2> HIDE DEF a, b
  <2>3. QED
    BY <1>1, <2>1, <2>2 DEF Tally
<1> DEFINE gone == {x \in OrderId : x = q[1].id /\ t = q[1].qty}
<1>11. \A x : x \in gone <=> x = q[1].id /\ t = q[1].qty
  BY <1>4
<1> HIDE DEF gone
<1>12. /\ refs' \in [OrderId -> Ref \cup {None}]
       /\ \A x \in OrderId : refs'[x] = IF x \in gone THEN None ELSE refs[x]
  BY <1>1, <1>4, <1>5, <1>11
<1>13. QueuesSound'
  <2>1. q = orders[r][p]
    BY DEF q
  <2>2. OrdersGone(gone, orders[r][p], left)
    BY <1>4, <1>11, <1>12, <2>1 DEF OrdersGone
  <2>3. QED
    BY <1>2, <1>4, <1>6, <2>2, OrdersLeave DEF BaseInv
<1>14. \A s \in Side : Consuming(s)' <=> s = r
  BY <1>1, <1>9 DEF Consuming
<1>15. \A s \in Side : Standing(s)' = Standing(s)
  <2>1. ASSUME NEW s \in Side, NEW x \in Price
        PROVE  orders'[s][x] # <<>> \/ (Consuming(s)' /\ x = call'.at) <=>
               orders[s][x] # <<>> \/ (Consuming(s) /\ x = call.at)
    <3>1. CASE s = r /\ x = p
      BY <1>2, <1>9, <1>14, <3>1
    <3>2. CASE s # r \/ x # p
      BY <1>2, <1>7, <1>9, <1>14, <3>2
    <3>3. QED
      BY <3>1, <3>2
  <2>2. QED
    BY <2>1 DEF Standing
<1>16. BaseTypeOK'
  BY <1>1, <1>7, <1>9, <1>10, <1>12 DEF BaseTypeOK
<1>17. StandingUncrossed'
  BY <1>15 DEF BaseInv, StandingUncrossed, Side
<1>18. CallSound'
  <2>1. refs'[call'.id] = None
    BY <1>1, <1>9, <1>12
  <2>2. \A s \in Side : Consuming(s)' => call'.at = BestOf(s, Standing(s)')
    BY <1>2, <1>9, <1>14, <1>15
  <2>3. QED
    BY <1>1, <2>1, <2>2 DEF CallSound
<1>19. QED
  BY <1>7, <1>8, <1>9, <1>13, <1>14, <1>15, <1>16, <1>17, <1>18 DEF BaseInv

\* consumeLevel() returns: the level it has emptied no longer stands.
LEMMA LeaveKeeps ==
  ASSUME BaseInv, pc = "consume", pc' = "match", UNCHANGED <<orders, total, refs, call>>,
         tally' \in Tally, NEW r, r = Opposite(call.side), NEW p, p = call.at
  PROVE  /\ BaseInv'
         /\ Standing(r)' = IF orders[r][p] = <<>> THEN Standing(r) \ {p} ELSE Standing(r)
         /\ \A s \in Side : s # r => Standing(s)' = Standing(s)
         /\ \A s \in Side : ~Consuming(s)'
<1>1. /\ r \in Side /\ p \in Price /\ call \in Call
      /\ p \in Standing(r) /\ p = BestOf(r, Standing(r))
      /\ \A s \in Side : Consuming(s) <=> s = r
  BY ConsumeFacts
<1>2. \A s \in Side : ~Consuming(s)'
  BY DEF Consuming
<1>3. /\ Standing(r)' = IF orders[r][p] = <<>> THEN Standing(r) \ {p} ELSE Standing(r)
      /\ \A s \in Side : s # r => Standing(s)' = Standing(s)
  BY <1>1, <1>2 DEF Standing
<1>4. StandingUncrossed'
  <2>1. \A s \in Side : Standing(s)' \subseteq Standing(s)
    BY <1>3
  <2>2. QED
    BY <2>1 DEF BaseInv, StandingUncrossed, Side
<1>5. BaseTypeOK' /\ QueuesSound' /\ TotalsExact'
  BY DEF BaseInv, BaseTypeOK, QueuesSound, TotalsExact
<1>6. CallSound'
  BY <1>2 DEF BaseInv, CallSound
<1>7. QED
  BY <1>2, <1>3, <1>4, <1>5, <1>6 DEF BaseInv
-----------------------------------------------------------------------------
RefBecomes(id, s, p) == refs' = [refs EXCEPT ![id] = [side |-> s, price |-> p]]

\* An order without a reference joins a queue and gets one.
LEMMA OrderJoins ==
  ASSUME BaseTypeOK, QueuesSound, NEW s \in Side, NEW p \in Price, NEW o \in Order,
         refs[o.id] = None, NEW left, left = Append(orders[s][p], o),
         RefBecomes(o.id, s, p), orders' = [orders EXCEPT ![s][p] = left]
  PROVE  /\ left \in Seq(Order) /\ left # <<>>
         /\ QueueQty(left) = QueueQty(orders[s][p]) + o.qty
         /\ refs' \in [OrderId -> Ref \cup {None}]
         /\ QueuesSound'
<1>1. /\ orders \in [Side -> [Price -> Seq(Order)]]
      /\ refs \in [OrderId -> Ref \cup {None}] /\ o.id \in OrderId
  BY DEF BaseTypeOK, Order
<1>2. PICK q \in Seq(Order) : q = orders[s][p]
  BY <1>1
<1>3. DistinctIds(q) /\ ~Holds(q, o.id)
  <2>1. DistinctIds(q) /\ (Holds(q, o.id) => refs[o.id] = [side |-> s, price |-> p])
    BY <1>2 DEF QueuesSound
  <2>2. [side |-> s, price |-> p] \in Ref
    BY DEF Ref
  <2>3. QED
    BY <2>1, <2>2, NoneFacts
<1>4. left = Append(q, o)
  BY <1>2
<1>5. /\ left \in Seq(Order) /\ left # <<>> /\ DistinctIds(left)
      /\ \A x : Holds(left, x) <=> Holds(q, x) \/ x = o.id
      /\ QueueQty(left) = QueueQty(q) + o.qty
  BY <1>3, <1>4, AppendFacts, QueueQtyAppend
<1>6. /\ orders' \in [Side -> [Price -> Seq(Order)]]
      /\ orders'[s][p] = left
      /\ \A r \in Side, x \in Price : r # s \/ x # p => orders'[r][x] = orders[r][x]
  BY <1>1, <1>5
<1>7. PICK ref \in Ref : ref = [side |-> s, price |-> p]
  BY DEF Ref
<1>8. /\ refs' \in [OrderId -> Ref \cup {None}]
      /\ refs'[o.id] = ref
      /\ \A x \in OrderId : x # o.id => refs'[x] = refs[x]
  <2>1. refs' = [refs EXCEPT ![o.id] = ref]
    BY <1>7 DEF RefBecomes
  <2>2. QED
    BY <1>1, <2>1
<1>9. ASSUME NEW r \in Side, NEW x \in Price PROVE DistinctIds(orders'[r][x])
  <2>1. CASE r = s /\ x = p
    BY <1>5, <1>6, <2>1
  <2>2. CASE r # s \/ x # p
    BY <1>6, <2>2 DEF QueuesSound
  <2>3. QED
    BY <2>1, <2>2
<1>10. ASSUME NEW x \in OrderId, refs'[x] # None
       PROVE  Holds(orders'[refs'[x].side][refs'[x].price], x)
  <2>1. CASE x = o.id
    <3>1. Holds(left, x) /\ refs'[x] = ref
      BY <1>5, <1>8, <2>1
    <3>2. ref.side = s /\ ref.price = p
      BY <1>7
    <3>3. QED
      BY <1>6, <3>1, <3>2
  <2>2. CASE x # o.id
    <3>1. refs'[x] = refs[x] /\ refs[x] # None
      BY <1>8, <1>10, <2>2
    <3>2. refs[x].side \in Side /\ refs[x].price \in Price
      BY <1>1, <3>1 DEF Ref
    <3>3. Holds(orders[refs[x].side][refs[x].price], x)
      BY <3>1 DEF QueuesSound
    <3>4. CASE refs[x].side = s /\ refs[x].price = p
      BY <1>2, <1>5, <1>6, <3>1, <3>3, <3>4
    <3>5. CASE refs[x].side # s \/ refs[x].price # p
      BY <1>6, <3>1, <3>2, <3>3, <3>5
    <3>6. QED
      BY <3>4, <3>5
  <2>3. QED
    BY <2>1, <2>2
<1>11. ASSUME NEW r \in Side, NEW y \in Price, NEW x, Holds(orders'[r][y], x)
       PROVE  refs'[x] = [side |-> r, price |-> y]
  <2>1. x \in OrderId
    <3>1. orders'[r][y] \in Seq(Order)
      BY <1>6
    <3>2. QED
      BY <1>11, <3>1, QueueFacts
  <2>2. CASE r = s /\ y = p /\ x = o.id
    BY <1>7, <1>8, <2>2
  <2>3. CASE ~(r = s /\ y = p /\ x = o.id)
    <3>1. Holds(orders[r][y], x)
      BY <1>2, <1>5, <1>6, <1>11, <2>3
    <3>2. refs[x] = [side |-> r, price |-> y]
      BY <3>1 DEF QueuesSound
    <3>3. [side |-> r, price |-> y] \in Ref
      BY DEF Ref
    <3>4. x # o.id
      BY <3>2, <3>3, NoneFacts
    <3>5. QED
      BY <1>8, <2>1, <3>2, <3>4
  <2>4. QED
    BY <2>2, <2>3
<1>12. QED
  BY <1>2, <1>5, <1>8, <1>9, <1>10, <1>11 DEF QueuesSound

\* What is left of the order in the call rests on a level.
OrderRests(s, p) ==
  /\ orders' = [orders EXCEPT ![s][p] =
                  Append(orders[s][p], [id |-> call.id, qty |-> call.rem])]
  /\ total' = [total EXCEPT ![s][p] = total[s][p] + call.rem]
  /\ RefBecomes(call.id, s, p)
  /\ Return

\* Resting what is left of an order that no level of the other side can trade with.
LEMMA RestKeeps ==
  ASSUME BaseInv, pc = "match", call.rem > 0,
         \A x \in Standing(Opposite(call.side)) : ~Crosses(call.side, call.price, x),
         NEW s \in Side, s = call.side, NEW p \in Price, p = call.price,
         OrderRests(s, p), UNCHANGED tally
  PROVE  /\ BaseInv'
         /\ Standing(s)' = Standing(s) \cup {p}
         /\ \A r \in Side : r # s => Standing(r)' = Standing(r)
         /\ \A r \in Side, x \in Price : r # s \/ x # p =>
              orders'[r][x] = orders[r][x] /\ total'[r][x] = total[r][x]
<1>1. /\ call \in Call /\ call.id \in OrderId /\ refs[call.id] = None
      /\ orders \in [Side -> [Price -> Seq(Order)]]
      /\ refs \in [OrderId -> Ref \cup {None}]
      /\ pc' = "idle" /\ call' = None
  BY DEF BaseInv, BaseTypeOK, CallSound, OrderRests, Return
<1>2. call.rem \in 1 .. MaxQty
  BY <1>1, TypesAssumption DEF Call, Qty
<1>3. PICK o \in Order : o = [id |-> call.id, qty |-> call.rem]
  <2>1. [id |-> call.id, qty |-> call.rem] \in Order
    BY <1>1, <1>2 DEF Order
  <2>2. QED
    BY <2>1
<1>4. PICK left : left = Append(orders[s][p], o)
  OBVIOUS
<1>5. /\ left \in Seq(Order) /\ left # <<>> /\ QueuesSound'
      /\ QueueQty(left) = QueueQty(orders[s][p]) + o.qty
      /\ refs' \in [OrderId -> Ref \cup {None}]
  <2>1. /\ orders' = [orders EXCEPT ![s][p] = left]
        /\ RefBecomes(o.id, s, p)
        /\ refs[o.id] = None
    BY <1>1, <1>3, <1>4 DEF OrderRests
  <2>2. BaseTypeOK /\ QueuesSound
    BY DEF BaseInv
  <2>3. QED
    BY <1>2, <1>4, <2>1, <2>2, OrderJoins
<1>6. orders' = [orders EXCEPT ![s][p] = left]
  BY <1>3, <1>4 DEF OrderRests
<1>7. LevelBecomes(s, p, left)
  <2>1. total[s][p] = QueueQty(orders[s][p])
    BY <1>2 DEF BaseInv, TotalsExact
  <2>2. total[s][p] + call.rem = QueueQty(left)
    BY <1>3, <1>5, <2>1
  <2>3. QED
    BY <1>6, <2>2 DEF LevelBecomes, OrderRests
<1>8. /\ orders' \in [Side -> [Price -> Seq(Order)]] /\ total' \in [Side -> [Price -> Int]]
      /\ TotalsExact'
      /\ \A r \in Side, x \in Price : r # s \/ x # p =>
           orders'[r][x] = orders[r][x] /\ total'[r][x] = total[r][x]
  BY <1>2, <1>5, <1>7, OneLevelChanges DEF BaseInv
<1>9. /\ Standing(s)' = Standing(s) \cup {p}
       /\ \A r \in Side : r # s => Standing(r)' = Standing(r)
  BY <1>1, <1>2, <1>5, <1>7, StandingAfter DEF BaseInv
<1>10. StandingUncrossed'
  <2>1. PICK r \in Side : r = Opposite(s) /\ r # s
    BY <1>2, SideFacts
  <2>2. ASSUME NEW x \in Standing(r) PROVE Better(s, x, p)
    BY <2>1 DEF Crosses
  <2>3. CASE s = "Bid"
    BY <1>9, <2>1, <2>2, <2>3 DEF BaseInv, StandingUncrossed, Better, Opposite, Side
  <2>4. CASE s = "Ask"
    BY <1>9, <2>1, <2>2, <2>4 DEF BaseInv, StandingUncrossed, Better, Opposite, Side
  <2>5. QED
    BY <1>2, <2>3, <2>4 DEF Side
<1>11. BaseTypeOK'
  BY <1>1, <1>5, <1>8 DEF BaseInv, BaseTypeOK
<1>12. CallSound'
  BY <1>1 DEF CallSound, Consuming
<1>13. QED
  BY <1>2, <1>5, <1>8, <1>9, <1>10, <1>11, <1>12 DEF BaseInv
-----------------------------------------------------------------------------
(* What the invariant says of the properties that the books share. *)

\* RefsSound follows from what the books share.
LEMMA BaseRefsSound == BaseInv => RefsSound
<1> SUFFICES ASSUME BaseInv PROVE RefsSound
  OBVIOUS
<1>1. orders \in [Side -> [Price -> Seq(Order)]] /\ QueuesSound
  BY DEF BaseInv, BaseTypeOK
<1>2. ASSUME NEW id \in OrderId, refs[id] # None
      PROVE  NodeOf(orders[refs[id].side][refs[id].price], id) # 0
  <2>1. PICK s \in Side, p \in Price : RefIs(id, s, p)
    BY <1>2, RefExists
  <2>2. /\ orders[s][p] \in Seq(Order) /\ Holds(orders[s][p], id)
        /\ refs[id].side = s /\ refs[id].price = p
    BY <2>1, RefFacts
  <2>3. QED
    BY <2>2, NodeOfFacts
<1>3. ASSUME NEW s \in Side, NEW p \in Price, NEW i \in DOMAIN orders[s][p]
      PROVE  /\ refs[orders[s][p][i].id] = [side |-> s, price |-> p]
             /\ \A j \in DOMAIN orders[s][p] : orders[s][p][j].id = orders[s][p][i].id => j = i
  BY <1>1 DEF QueuesSound, DistinctIds, Holds
<1>4. QED
  BY <1>2, <1>3 DEF RefsSound

\* Uncrossed follows from what the books share.
LEMMA BaseUncrossed == BaseInv => Uncrossed
<1>1. BaseInv /\ Side = {"Bid", "Ask"} => Uncrossed
  BY DEF BaseInv, StandingUncrossed, Standing, Uncrossed, UncrossedBook
<1>2. QED
  BY <1>1 DEF Side
-----------------------------------------------------------------------------
(* What one pass of the loop of consumeLevel() does to a queue. *)

\* f is g with t on top of its value at x.
PutOn(f, g, S, x, t) ==
  /\ f \in [S -> Nat] /\ g \in [S -> Nat] /\ x \in S /\ t \in Nat
  /\ f[x] = g[x] + t
  /\ \A y \in S \ {x} : f[y] = g[y]

\* Putting t on top of one value adds it to every sum that the value is part of.
LEMMA SumPut ==
  ASSUME NEW S, IsFiniteSet(S), NEW f, NEW g, NEW x, NEW t, PutOn(f, g, S, x, t), NEW P \in SUBSET S
  PROVE  /\ x \in P => SumOf(f, P) = SumOf(g, P) + t
         /\ x \notin P => SumOf(f, P) = SumOf(g, P)
<1> USE DEF PutOn
<1>1. PICK d \in [S -> Nat] : d = [y \in S |-> IF y = x THEN t ELSE 0]
  OBVIOUS
<1>2. \A y \in S : f[y] = g[y] + d[y]
  BY <1>1
<1>3. SumOf(f, P) = SumOf(g, P) + SumOf(d, P)
  BY <1>2, SumOfBoth
<1>4. SumOf(d, P \ {x}) = 0
  <2>1. IsFiniteSet(P \ {x}) /\ \A y \in P \ {x} : d[y] = 0
    BY <1>1, FS_Subset
  <2>2. QED
    BY <2>1, SumOfZeros
<1>5. SumOf(g, P) \in Nat
  BY SumFacts
<1>6. CASE x \in P
  <2>1. SumOf(d, P) = d[x] + SumOf(d, P \ {x})
    BY <1>6, SumFacts
  <2>2. SumOf(d, P) = t
    BY <1>1, <1>4, <2>1
  <2>3. QED
    BY <1>3, <1>6, <2>2
<1>7. CASE x \notin P
  <2>1. P \ {x} = P
    BY <1>7
  <2>2. QED
    BY <1>3, <1>4, <1>5, <1>7, <2>1
<1>8. QED
  BY <1>6, <1>7

\* What is left of a queue is determined by what each of its orders gives.
LEMMA SurvivorsUnique ==
  ASSUME NEW q \in Seq(Order), NEW fill, NEW r \in Seq(Order), NEW u \in Seq(Order),
         NEW m, NEW n, Survivors(r, q, fill, m), Survivors(u, q, fill, n)
  PROVE  r = u
<1>1. PICK a \in Nat, b \in Nat : a = Len(r) /\ b = Len(u)
  BY QueueFacts
<1>2. DOMAIN r = 1 .. a /\ DOMAIN u = 1 .. b
  BY <1>1, QueueFacts
<1>3. /\ \A k \in 1 .. a : m[k] \in Nat /\ m[k] \in DOMAIN q /\ fill[m[k]] < q[m[k]].qty
      /\ \A k \in 1 .. b : n[k] \in Nat /\ n[k] \in DOMAIN q /\ fill[n[k]] < q[n[k]].qty
  <2>1. \A i \in DOMAIN q : i \in Nat
    BY QueueFacts
  <2>2. ASSUME NEW k \in 1 .. a PROVE m[k] \in DOMAIN q /\ fill[m[k]] < q[m[k]].qty
    BY <1>2 DEF Survivors
  <2>3. ASSUME NEW k \in 1 .. b PROVE n[k] \in DOMAIN q /\ fill[n[k]] < q[n[k]].qty
    BY <1>2 DEF Survivors
  <2>4. QED
    BY <2>1, <2>2, <2>3
<1>4. /\ \A j, k \in 1 .. a : j < k => m[j] < m[k]
      /\ \A j, k \in 1 .. b : j < k => n[j] < n[k]
  BY <1>2 DEF Survivors
<1>5. /\ \A k \in 1 .. a : \E j \in 1 .. b : n[j] = m[k]
      /\ \A k \in 1 .. b : \E j \in 1 .. a : m[j] = n[k]
  BY <1>2, <1>3 DEF Survivors
<1>6. \A k \in Nat : k \in 1 .. a /\ k \in 1 .. b => m[k] = n[k]
  <2> DEFINE T == {k \in Nat : k \in 1 .. a /\ k \in 1 .. b /\ m[k] # n[k]}
  <2> SUFFICES ASSUME T # {} PROVE FALSE
    OBVIOUS
  <2>1. PICK k \in T : \A x \in T : k <= x
    BY SmallestNat
  <2>2. k \in 1 .. a /\ k \in 1 .. b /\ m[k] # n[k]
    OBVIOUS
  <2>3. \A j \in Nat : j \in 1 .. a /\ j \in 1 .. b /\ j < k => m[j] = n[j]
    BY <2>1
  <2> HIDE DEF T
  <2>4. CASE m[k] < n[k]
    <3>1. PICK j \in 1 .. b : n[j] = m[k]
      BY <1>5, <2>2
    <3>2. j < k
      BY <1>3, <1>4, <2>2, <2>4, <3>1
    <3>3. j \in 1 .. a /\ m[j] = n[j] /\ m[j] < m[k]
      BY <1>4, <2>2, <2>3, <3>2
    <3>4. QED
      BY <1>3, <2>2, <3>1, <3>3
  <2>5. CASE n[k] < m[k]
    <3>1. PICK j \in 1 .. a : m[j] = n[k]
      BY <1>5, <2>2
    <3>2. j < k
      BY <1>3, <1>4, <2>2, <2>5, <3>1
    <3>3. j \in 1 .. b /\ m[j] = n[j] /\ n[j] < n[k]
      BY <1>4, <2>2, <2>3, <3>2
    <3>4. QED
      BY <1>3, <2>2, <3>1, <3>3
  <2>6. QED
    BY <1>3, <2>2, <2>4, <2>5
<1>7. a = b
  <2>1. CASE a < b
    <3>1. PICK k \in 1 .. b : k = a + 1
      BY <2>1
    <3>2. PICK j \in 1 .. a : m[j] = n[k]
      BY <1>5
    <3>3. j \in 1 .. b /\ j < k /\ n[j] = m[j]
      BY <1>6, <2>1, <3>1
    <3>4. QED
      BY <1>3, <1>4, <3>2, <3>3
  <2>2. CASE b < a
    <3>1. PICK k \in 1 .. a : k = b + 1
      BY <2>2
    <3>2. PICK j \in 1 .. b : n[j] = m[k]
      BY <1>5
    <3>3. j \in 1 .. a /\ j < k /\ n[j] = m[j]
      BY <1>6, <2>2, <3>1
    <3>4. m[j] < m[k] /\ m[j] \in Nat
      BY <1>3, <1>4, <3>3
    <3>5. QED
      BY <3>2, <3>3, <3>4
  <2>3. QED
    BY <2>1, <2>2
<1>8. ASSUME NEW k \in 1 .. a PROVE r[k] = u[k]
  <2>1. m[k] = n[k]
    BY <1>6, <1>7
  <2>2. /\ r[k] \in Order /\ u[k] \in Order
        /\ r[k].id = q[m[k]].id /\ r[k].qty = q[m[k]].qty - fill[m[k]]
        /\ u[k].id = q[n[k]].id /\ u[k].qty = q[n[k]].qty - fill[n[k]]
    BY <1>2, <1>7, QueueFacts DEF Survivors
  <2>3. r[k].id = u[k].id /\ r[k].qty = u[k].qty
    BY <2>1, <2>2
  <2>4. PICK x \in Order, y \in Order : x = r[k] /\ y = u[k]
    BY <2>2
  <2>5. x.id = y.id /\ x.qty = y.qty
    BY <2>3, <2>4
  <2>6. /\ x = [id |-> x.id, qty |-> x.qty]
        /\ y = [id |-> y.id, qty |-> y.qty]
    BY DEF Order
  <2>7. x = y
    BY <2>5, <2>6
  <2>8. QED
    BY <2>4, <2>7
<1>9. QED
  BY <1>1, <1>7, <1>8, SeqEqual

\* What one pass of consumeLevel's loop does to a queue: the front order leaves, or all
\* that was left to trade is taken from it.
LEMMA TradeShape ==
  ASSUME NEW q \in Seq(Order), q # <<>>, NEW rem \in 1 .. MaxQty,
         NEW u, u = AfterTrade(q, rem), NEW t, t = Traded(q, rem)
  PROVE  /\ u \in Seq(Order) /\ t \in 1 .. rem /\ t <= q[1].qty /\ 1 \in DOMAIN q
         /\ t = q[1].qty =>
              /\ u = Tail(q) /\ Len(u) = Len(q) - 1
              /\ \A i \in DOMAIN u : i + 1 \in DOMAIN q /\ u[i] = q[i + 1]
         /\ t # q[1].qty =>
              /\ t = rem /\ DOMAIN u = DOMAIN q
              /\ u[1].id = q[1].id /\ u[1].qty = q[1].qty - t
              /\ \A i \in DOMAIN q : i # 1 => u[i] = q[i]
<1>1. /\ DOMAIN q = 1 .. Len(q) /\ Len(q) \in Nat /\ Len(q) >= 1
      /\ q[1] \in Order /\ q[1].id \in OrderId /\ q[1].qty \in 1 .. MaxQty
  BY QueueFacts
<1>2. t \in 1 .. rem /\ t <= q[1].qty /\ (t # q[1].qty => t = rem)
  BY <1>1, TypesAssumption DEF Traded, MinOf
<1>3. CASE t = q[1].qty
  <2>1. u = Tail(q)
    BY <1>3 DEF AfterTrade
  <2>2. /\ Tail(q) \in Seq(Order) /\ Len(Tail(q)) = Len(q) - 1
        /\ \A j \in 1 .. Len(Tail(q)) : Tail(q)[j] = q[j + 1]
    BY HeadTailProperties
  <2>3. /\ u \in Seq(Order) /\ Len(u) = Len(q) - 1
        /\ \A j \in 1 .. Len(u) : u[j] = q[j + 1]
    BY <2>1, <2>2
  <2>4. DOMAIN u = 1 .. Len(q) - 1
    BY <2>3, QueueFacts
  <2>5. \A i \in DOMAIN u : i + 1 \in DOMAIN q /\ u[i] = q[i + 1]
    BY <1>1, <2>3, <2>4
  <2>6. 1 \in DOMAIN q
    BY <1>1
  <2>7. QED
    BY <1>2, <1>3, <2>1, <2>3, <2>5, <2>6
<1>4. CASE t # q[1].qty
  <2>1. PICK n \in 1 .. MaxQty : n = q[1].qty - t
    BY <1>1, <1>2, <1>4, TypesAssumption
  <2> DEFINE o == [q[1] EXCEPT !.qty = n]
  <2>2. u = [q EXCEPT ![1] = o]
    BY <1>4, <2>1 DEF AfterTrade
  <2>3. o \in Order /\ o.id = q[1].id /\ o.qty = n
    BY <1>1 DEF Order
  <2> HIDE DEF o
  <2>4. /\ u \in Seq(Order) /\ Len(u) = Len(q)
        /\ \A j \in 1 .. Len(q) : u[j] = IF j = 1 THEN o ELSE q[j]
    BY <1>1, <2>2, <2>3, ExceptSeq
  <2>5. DOMAIN u = DOMAIN q
    BY <1>1, <2>4, QueueFacts
  <2>6. 1 \in DOMAIN q /\ 1 \in 1 .. Len(q) /\ \A i \in DOMAIN q : i \in 1 .. Len(q)
    BY <1>1
  <2>7. u[1] = o /\ \A i \in DOMAIN q : i # 1 => u[i] = q[i]
    BY <2>4, <2>6
  <2>8. u[1].id = q[1].id /\ u[1].qty = q[1].qty - t
    BY <2>1, <2>3, <2>7
  <2>9. QED
    BY <1>2, <1>4, <2>4, <2>5, <2>6, <2>7, <2>8
<1>5. QED
  BY <1>3, <1>4

-----------------------------------------------------------------------------
(* A fill in the contract: what is left to match fills the rest of the book alike. *)

\* Book nb is bk after one pass of consumeLevel's loop on the level at price `at` of side
\* s, the best one with orders, for an order that has rem left to trade and trades t.
Fills(bk, nb, s, at, rem, t) ==
  /\ bk \in AnyBook /\ nb \in AnyBook /\ s \in Side /\ at \in Price /\ rem \in 1 .. MaxQty
  /\ bk[s][at] # <<>>
  /\ nb[s][at] = AfterTrade(bk[s][at], rem) /\ t = Traded(bk[s][at], rem)
  /\ \A p \in Price : p # at => nb[s][p] = bk[s][p]
  /\ nb[Opposite(s)] = bk[Opposite(s)]
  /\ \A x \in Beyond(s, at) : bk[s][x] = <<>>

\* What is traded is missing from every set of levels that the level belongs to.
LEMMA FillsLiquidity ==
  ASSUME NEW bk, NEW nb, NEW s, NEW at, NEW rem, NEW t, Fills(bk, nb, s, at, rem, t)
  PROVE  /\ t \in 1 .. rem /\ t \in Nat /\ rem - t \in Nat
         /\ \A P \in SUBSET Price :
              Liquidity(bk, s, P) = Liquidity(nb, s, P) + (IF at \in P THEN t ELSE 0)
<1>1. /\ bk \in AnyBook /\ nb \in AnyBook /\ s \in Side /\ at \in Price /\ rem \in 1 .. MaxQty
      /\ MaxQty \in Nat
  BY TypesAssumption DEF Fills
<1>2. PICK q \in Seq(Order) : q = bk[s][at] /\ q # <<>>
  BY <1>1 DEF Fills, AnyBook
<1>3. nb[s][at] = AfterTrade(q, rem) /\ t = Traded(q, rem)
  BY <1>2 DEF Fills
<1>4. t \in 1 .. rem
  BY <1>1, <1>2, <1>3, TradeShape
<1>5. QueueQty(nb[s][at]) = QueueQty(bk[s][at]) - t
  BY <1>1, <1>2, <1>3, QueueQtyAfterTrade
<1>6. PICK f \in [Price -> Nat], g \in [Price -> Nat] : f = LevelQtys(bk, s) /\ g = LevelQtys(nb, s)
  BY <1>1, LiquidityFacts
<1>7. t \in Nat
  BY <1>1, <1>4
<1>8. \A p \in Price : f[p] = IF p = at THEN g[p] + t ELSE g[p]
  <2> SUFFICES ASSUME NEW p \in Price PROVE f[p] = IF p = at THEN g[p] + t ELSE g[p]
    OBVIOUS
  <2>1. f[p] = QueueQty(bk[s][p]) /\ g[p] = QueueQty(nb[s][p])
    BY <1>1, <1>6, LiquidityFacts
  <2>2. CASE p = at
    BY <1>5, <1>7, <2>1, <2>2
  <2>3. CASE p # at
    BY <2>1, <2>3 DEF Fills
  <2>4. QED
    BY <2>2, <2>3
<1>10. ASSUME NEW P \in SUBSET Price
       PROVE  Liquidity(bk, s, P) = Liquidity(nb, s, P) + (IF at \in P THEN t ELSE 0)
  <2>1. Liquidity(bk, s, P) = SumOf(f, P) /\ Liquidity(nb, s, P) = SumOf(g, P)
    BY <1>1, <1>6, LiquidityFacts
  <2>2. /\ at \in P => SumOf(f, P) = SumOf(g, P) + t
        /\ at \notin P => SumOf(f, P) = SumOf(g, P)
    <3>1. PutOn(f, g, Price, at, t)
      BY <1>1, <1>7, <1>8 DEF PutOn
    <3>2. QED
      BY <3>1, PriceFinite, SumPut
  <2>3. SumOf(g, P) \in Nat
    BY PriceFinite, SumFacts
  <2>4. QED
    BY <2>1, <2>2, <2>3
<1>11. rem - t \in Nat
  BY <1>1, <1>4
<1>12. QED
  BY <1>4, <1>7, <1>10, <1>11

\* What an order gives, from what is served before it.
LEMMA FillIs ==
  ASSUME NEW bk, NEW side \in Side, NEW limit, NEW qty, NEW s, s = Opposite(side), NEW p, NEW i
  PROVE  FillOf(bk, side, limit, qty, p, i) =
           IF Crosses(side, limit, p) /\ qty - Ahead(bk, s, p, i) > 0
           THEN MinOf(qty - Ahead(bk, s, p, i), bk[s][p][i].qty) ELSE 0
BY DEF FillOf

\* The other levels give what they gave.
LEMMA FillsElsewhere ==
  ASSUME NEW bk, NEW nb, NEW s, NEW at, NEW rem, NEW t, Fills(bk, nb, s, at, rem, t),
         NEW side \in Side, s = Opposite(side), NEW limit \in Price,
         NEW p \in Price, p # at, NEW i \in DOMAIN bk[s][p]
  PROVE  FillOf(nb, side, limit, rem - t, p, i) = FillOf(bk, side, limit, rem, p, i)
<1>1. /\ bk \in AnyBook /\ nb \in AnyBook /\ s \in Side /\ at \in Price /\ nb[s][p] = bk[s][p]
      /\ rem \in Nat /\ t \in Nat
  <2>1. t \in Nat
    BY FillsLiquidity
  <2>2. /\ bk \in AnyBook /\ nb \in AnyBook /\ s \in Side /\ at \in Price /\ nb[s][p] = bk[s][p]
        /\ rem \in 1 .. MaxQty
    BY DEF Fills
  <2>3. QED
    BY <2>1, <2>2, TypesAssumption
<1>2. bk[s][p] # <<>>
  BY <1>1 DEF AnyBook
<1>3. at \in Beyond(s, p)
  <2>1. p \notin Beyond(s, at)
    BY <1>2 DEF Fills
  <2>2. p \in Int /\ at \in Int
    BY <1>1, PriceFacts
  <2>3. QED
    BY <1>1, <2>1, <2>2 DEF Beyond, Better
<1>4. Beyond(s, p) \in SUBSET Price
  BY DEF Beyond
<1>5. PICK a \in Nat, b \in Nat : a = Liquidity(bk, s, Beyond(s, p)) /\ b = Liquidity(nb, s, Beyond(s, p))
  BY <1>1, <1>4, LiquidityFacts
<1>6. a = b + t
  BY <1>3, <1>4, <1>5, FillsLiquidity
<1>7. PICK w : w = SumOf(Weights(bk[s][p]), 1 .. i - 1)
  OBVIOUS
<1>8. Ahead(bk, s, p, i) \in Nat /\ Ahead(bk, s, p, i) = a + w
  BY <1>1, <1>5, <1>7, AheadFacts
<1>9. Ahead(nb, s, p, i) \in Nat /\ Ahead(nb, s, p, i) = b + w
  <2>1. i \in DOMAIN nb[s][p]
    BY <1>1
  <2>2. QED
    BY <1>1, <1>5, <1>7, <2>1, AheadFacts
<1>10. PICK c \in Nat, e \in Nat : c = Ahead(bk, s, p, i) /\ e = Ahead(nb, s, p, i)
  BY <1>8, <1>9
<1>11. w \in Nat
  <2>1. PICK q \in Seq(Order) : q = bk[s][p]
    BY <1>1 DEF AnyBook
  <2>2. i \in 1 .. Len(q) /\ Len(q) \in Nat
    BY <2>1, QueueFacts
  <2>3. i - 1 \in 0 .. Len(q)
    BY <2>2
  <2>4. 1 .. i - 1 \in SUBSET DOMAIN q /\ IsFiniteSet(DOMAIN q) /\ Weights(q) \in [DOMAIN q -> Nat]
    BY <2>3, PrefixQty, WeightsFacts
  <2>5. QED
    BY <1>7, <2>1, <2>4, SumFacts
<1>12. c = e + t
  BY <1>1, <1>6, <1>8, <1>9, <1>10, <1>11
<1>13. (rem - t) - e = rem - c
  BY <1>1, <1>12
<1>14. FillOf(nb, side, limit, rem - t, p, i) =
         IF Crosses(side, limit, p) /\ (rem - t) - e > 0
         THEN MinOf((rem - t) - e, nb[s][p][i].qty) ELSE 0
  BY <1>10, FillIs
<1>15. FillOf(bk, side, limit, rem, p, i) =
         IF Crosses(side, limit, p) /\ rem - c > 0 THEN MinOf(rem - c, bk[s][p][i].qty) ELSE 0
  BY <1>10, FillIs
<1>16. QED
  BY <1>1, <1>13, <1>14, <1>15

\* What is left of a queue whose front order was taken whole is what is left of the rest.
LEMMA SurvivorsTail ==
  ASSUME NEW q \in Seq(Order), NEW u \in Seq(Order), NEW r \in Seq(Order), q # <<>>,
         Len(u) = Len(q) - 1, \A i \in DOMAIN u : u[i] = q[i + 1],
         NEW fill, NEW gill, fill[1] = q[1].qty, \A i \in DOMAIN u : gill[i] = fill[i + 1],
         NEW m, Survivors(r, u, gill, m)
  PROVE  \E n : Survivors(r, q, fill, n)
<1>1. PICK a \in Nat, b \in Nat : a = Len(q) /\ b = Len(r) /\ a >= 1
  BY QueueFacts
<1>2. DOMAIN q = 1 .. a /\ DOMAIN u = 1 .. a - 1 /\ DOMAIN r = 1 .. b
  BY <1>1, QueueFacts
<1>3. PICK n : n = [k \in 1 .. b |-> m[k] + 1]
  OBVIOUS
<1>4. \A k \in 1 .. b : m[k] \in 1 .. a - 1 /\ n[k] = m[k] + 1 /\ n[k] \in 1 .. a
  <2>1. \A k \in 1 .. b : m[k] \in 1 .. a - 1
    BY <1>2 DEF Survivors
  <2>2. \A i \in 1 .. a - 1 : i + 1 \in 1 .. a
    BY <1>1
  <2>3. QED
    BY <1>3, <2>1, <2>2
<1>5. \A j, k \in DOMAIN r : j < k => n[j] < n[k]
  <2>1. \A j, k \in 1 .. b : j < k => m[j] < m[k]
    BY <1>2 DEF Survivors
  <2>2. ASSUME NEW j \in 1 .. b, NEW k \in 1 .. b, j < k PROVE n[j] < n[k]
    <3>1. /\ m[j] \in Int /\ m[k] \in Int /\ m[j] < m[k]
          /\ n[j] = m[j] + 1 /\ n[k] = m[k] + 1
      BY <1>4, <2>1, <2>2
    <3>2. QED
      BY <3>1
  <2>3. QED
    BY <1>2, <2>2
<1>6. ASSUME NEW k \in DOMAIN r
      PROVE  /\ r[k].id = q[n[k]].id
             /\ r[k].qty = q[n[k]].qty - fill[n[k]]
             /\ fill[n[k]] < q[n[k]].qty
  <2>1. PICK i \in 1 .. a - 1 : i = m[k] /\ n[k] = i + 1
    BY <1>2, <1>4
  <2>2. r[k].id = u[i].id /\ r[k].qty = u[i].qty - gill[i] /\ gill[i] < u[i].qty
    BY <2>1 DEF Survivors
  <2>3. u[i] = q[i + 1] /\ gill[i] = fill[i + 1]
    BY <1>2
  <2>4. QED
    BY <2>1, <2>2, <2>3
<1>7. ASSUME NEW i \in DOMAIN q, fill[i] < q[i].qty
      PROVE  \E k \in DOMAIN r : n[k] = i
  <2>1. i # 1
    <3>1. q[1].qty \in Nat
      BY <1>1, <1>2, WeightsFacts
    <3>2. QED
      BY <1>7, <3>1
  <2>2. PICK j \in 1 .. a - 1 : i = j + 1
    <3>1. i \in 1 .. a /\ i - 1 \in 1 .. a - 1 /\ i = (i - 1) + 1
      BY <1>1, <1>2, <2>1
    <3>2. QED
      BY <3>1
  <2>3. gill[j] < u[j].qty
    BY <1>2, <1>7, <2>2
  <2>4. PICK k \in DOMAIN r : m[k] = j
    BY <1>2, <2>3 DEF Survivors
  <2>5. QED
    BY <1>2, <1>4, <2>2, <2>4
<1>8. Survivors(r, q, fill, n)
  BY <1>2, <1>4, <1>5, <1>6, <1>7 DEF Survivors
<1>9. QED
  BY <1>8

\* What is left of a queue of which only the front order gave, and not all it had.
LEMMA SurvivorsFront ==
  ASSUME NEW q \in Seq(Order), NEW u, NEW r \in Seq(Order), q # <<>>, NEW t \in Nat, t < q[1].qty,
         DOMAIN u = DOMAIN q, u[1].id = q[1].id, u[1].qty = q[1].qty - t,
         \A i \in DOMAIN q : i # 1 => u[i] = q[i],
         NEW fill, NEW gill, \A i \in DOMAIN q : gill[i] = 0,
         fill[1] = t, \A i \in DOMAIN q : i # 1 => fill[i] = 0,
         NEW m, Survivors(r, u, gill, m)
  PROVE  Survivors(r, q, fill, m)
<1>1. \A i \in DOMAIN q : q[i].qty \in Nat /\ q[i].qty > 0
  BY WeightsFacts
<1>2. 1 \in DOMAIN q
  BY QueueFacts
<1>3. ASSUME NEW i \in DOMAIN q
      PROVE  /\ u[i].id = q[i].id
             /\ u[i].qty - gill[i] = q[i].qty - fill[i]
             /\ gill[i] < u[i].qty /\ fill[i] < q[i].qty
  <2>1. CASE i = 1
    <3>1. q[1].qty \in Nat /\ gill[1] = 0 /\ fill[1] = t
      BY <1>1, <1>2
    <3>2. u[1].qty - gill[1] = q[1].qty - fill[1] /\ gill[1] < u[1].qty /\ fill[1] < q[1].qty
      BY <3>1
    <3>3. QED
      BY <2>1, <3>2
  <2>2. CASE i # 1
    BY <1>1, <2>2
  <2>3. QED
    BY <2>1, <2>2
<1>4. ASSUME NEW k \in DOMAIN r
      PROVE  /\ m[k] \in DOMAIN q
             /\ r[k].id = q[m[k]].id
             /\ r[k].qty = q[m[k]].qty - fill[m[k]]
             /\ fill[m[k]] < q[m[k]].qty
  <2>1. PICK i \in DOMAIN q : i = m[k]
    BY DEF Survivors
  <2>2. r[k].id = u[i].id /\ r[k].qty = u[i].qty - gill[i]
    BY <2>1 DEF Survivors
  <2>3. QED
    BY <1>3, <2>1, <2>2
<1>5. \A j, k \in DOMAIN r : j < k => m[j] < m[k]
  BY DEF Survivors
<1>6. \A i \in DOMAIN q : \E k \in DOMAIN r : m[k] = i
  BY <1>3 DEF Survivors
<1>7. QED
  BY <1>4, <1>5, <1>6 DEF Survivors

\* On the best level, only older orders of the level are served before an order.
LEMMA AheadAtBest ==
  ASSUME NEW bk \in AnyBook, NEW s \in Side, NEW at \in Price,
         \A x \in Beyond(s, at) : bk[s][x] = <<>>, NEW i \in DOMAIN bk[s][at]
  PROVE  Ahead(bk, s, at, i) = SumOf(Weights(bk[s][at]), 1 .. i - 1)
<1>1. PICK B \in SUBSET Price : B = Beyond(s, at)
  BY DEF Beyond
<1>2. PICK f \in [Price -> Nat] : f = LevelQtys(bk, s)
  BY LiquidityFacts
<1>3. \A x \in B : f[x] = 0
  <2>1. \A x \in B : f[x] = QueueQty(bk[s][x]) /\ bk[s][x] = <<>>
    BY <1>1, <1>2, LiquidityFacts
  <2>2. QED
    BY <2>1, QueueQtyFacts
<1>4. SumOf(f, B) = 0
  <2>1. IsFiniteSet(B)
    BY PriceFinite, FS_Subset
  <2>2. QED
    BY <1>3, <2>1, SumOfZeros
<1>5. Liquidity(bk, s, B) = 0
  BY <1>2, <1>4, LiquidityFacts
<1>6. PICK w : w = SumOf(Weights(bk[s][at]), 1 .. i - 1)
  OBVIOUS
<1>7. w \in Nat
  <2>1. PICK q \in Seq(Order) : q = bk[s][at]
    BY DEF AnyBook
  <2>2. i \in 1 .. Len(q) /\ Len(q) \in Nat
    BY <2>1, QueueFacts
  <2>3. i - 1 \in 0 .. Len(q)
    BY <2>2
  <2>4. 1 .. i - 1 \in SUBSET DOMAIN q /\ IsFiniteSet(DOMAIN q) /\ Weights(q) \in [DOMAIN q -> Nat]
    BY <2>3, PrefixQty, WeightsFacts
  <2>5. QED
    BY <1>6, <2>1, <2>4, SumFacts
<1>8. Ahead(bk, s, at, i) = Liquidity(bk, s, B) + w
  BY <1>1, <1>6, AheadFacts
<1>9. QED
  BY <1>5, <1>6, <1>7, <1>8

\* What stands before an order that moved up one place, without the order that left.
LEMMA WeightsTail ==
  ASSUME NEW q \in Seq(Order), NEW u \in Seq(Order), q # <<>>,
         Len(u) = Len(q) - 1, \A i \in DOMAIN u : u[i] = q[i + 1], NEW i \in DOMAIN u
  PROVE  /\ SumOf(Weights(q), 1 .. i) = q[1].qty + SumOf(Weights(u), 1 .. i - 1)
         /\ q[1].qty \in Nat /\ SumOf(Weights(u), 1 .. i - 1) \in Nat
<1>1. PICK a \in Nat : a = Len(q) /\ a >= 1 /\ DOMAIN q = 1 .. a /\ DOMAIN u = 1 .. a - 1
  BY QueueFacts
<1>2. i \in 1 .. a - 1 /\ i \in Nat
  BY <1>1
<1>3. PICK S, D, P : S = 1 .. a /\ D = 1 .. i - 1 /\ P = 2 .. i
  OBVIOUS
<1>4. PICK f \in [S -> Nat], h \in {Weights(u)} : f = Weights(q) /\ h = Weights(u)
  BY <1>1, <1>3, WeightsFacts
<1>5. IsFiniteSet(S) /\ IsFiniteSet(D) /\ P \in SUBSET S
  <2>1. P \in SUBSET S
    BY <1>1, <1>2, <1>3
  <2>2. a \in Int /\ i - 1 \in Int
    BY <1>1, <1>2
  <2>3. IsFiniteSet(S) /\ IsFiniteSet(D)
    BY <1>3, <2>2, FS_Interval
  <2>4. QED
    BY <2>1, <2>3
<1>6. PICK m : m = [k \in D |-> k + 1]
  OBVIOUS
<1>7. Onto(m, D, P)
  <2>1. \A k \in D : m[k] \in P /\ k \in Int /\ m[k] = k + 1
    BY <1>2, <1>3, <1>6
  <2>2. \A j, k \in D : m[j] = m[k] => j = k
    BY <2>1
  <2>3. \A x \in P : \E k \in D : m[k] = x
    <3> SUFFICES ASSUME NEW x \in P PROVE \E k \in D : m[k] = x
      OBVIOUS
    <3>1. x - 1 \in D /\ (x - 1) + 1 = x
      BY <1>2, <1>3
    <3>2. QED
      BY <2>1, <3>1
  <2>4. QED
    BY <2>1, <2>2, <2>3 DEF Onto
<1>8. \A k \in D : h[k] = f[m[k]]
  <2> SUFFICES ASSUME NEW k \in D PROVE h[k] = f[m[k]]
    OBVIOUS
  <2>1. k \in 1 .. a - 1 /\ k + 1 \in 1 .. a
    BY <1>1, <1>2, <1>3
  <2>2. h[k] = u[k].qty /\ f[k + 1] = q[k + 1].qty /\ u[k] = q[k + 1]
    BY <1>1, <1>4, <2>1, WeightsFacts
  <2>3. QED
    BY <1>6, <2>2
<1>9. SumOf(h, D) = SumOf(f, P)
  BY <1>5, <1>7, <1>8, SumAlong
<1>10. PICK R \in SUBSET S : R = 1 .. i /\ 1 \in R /\ R \ {1} = P
  <2>1. 1 .. i \in SUBSET S /\ 1 \in 1 .. i /\ (1 .. i) \ {1} = P
    BY <1>1, <1>2, <1>3
  <2>2. QED
    BY <2>1
<1>11. SumOf(f, R) = f[1] + SumOf(f, P) /\ SumOf(f, P) \in Nat
  <2>1. SumOf(f, R) = f[1] + SumOf(f, R \ {1})
    <3>1. PICK x \in R : x = 1
      BY <1>10
    <3>2. SumOf(f, R) = f[x] + SumOf(f, R \ {x})
      BY <1>5, SumFacts
    <3>3. QED
      BY <3>1, <3>2
  <2>2. SumOf(f, P) \in Nat
    BY <1>5, SumFacts
  <2>3. QED
    BY <1>10, <2>1, <2>2
<1>12. f[1] = q[1].qty /\ q[1].qty \in Nat
  BY <1>1, <1>4, WeightsFacts
<1>13. QED
  BY <1>3, <1>4, <1>9, <1>10, <1>11, <1>12

\* Before every order but the first stands at least the first.
LEMMA WeightsFirst ==
  ASSUME NEW q \in Seq(Order), NEW i \in DOMAIN q
  PROVE  /\ i = 1 => SumOf(Weights(q), 1 .. i - 1) = 0
         /\ i # 1 => SumOf(Weights(q), 1 .. i - 1) >= q[1].qty
         /\ SumOf(Weights(q), 1 .. i - 1) \in Nat /\ q[1].qty \in Nat
<1>1. PICK a \in Nat : a = Len(q) /\ DOMAIN q = 1 .. a
  BY QueueFacts
<1>2. i \in 1 .. a /\ 1 \in 1 .. a
  BY <1>1
<1>3. PICK S, D : S = 1 .. a /\ D = 1 .. i - 1
  OBVIOUS
<1>4. PICK f \in [S -> Nat] : f = Weights(q)
  BY <1>1, <1>3, WeightsFacts
<1>5. IsFiniteSet(S) /\ D \in SUBSET S
  <2>1. D \in SUBSET S
    BY <1>1, <1>2, <1>3
  <2>2. IsFiniteSet(S)
    BY <1>1, <1>3, FS_Interval
  <2>3. QED
    BY <2>1, <2>2
<1>6. SumOf(f, D) \in Nat /\ SumOf(f, {}) = 0
  BY <1>5, SumFacts
<1>7. f[1] = q[1].qty /\ q[1].qty \in Nat
  BY <1>1, <1>2, <1>4, WeightsFacts
<1>8. CASE i = 1
  <2>1. D = {}
    BY <1>3, <1>8
  <2>2. QED
    BY <1>3, <1>4, <1>6, <1>7, <1>8, <2>1
<1>9. CASE i # 1
  <2>1. 1 \in D
    BY <1>2, <1>3, <1>9
  <2>2. SumOf(f, D) = f[1] + SumOf(f, D \ {1})
    BY <1>5, <2>1, SumFacts
  <2>3. SumOf(f, D \ {1}) \in Nat
    <3>1. D \ {1} \in SUBSET S
      BY <1>5
    <3>2. QED
      BY <1>5, <3>1, SumFacts
  <2>4. SumOf(f, D) >= f[1]
    BY <1>7, <2>2, <2>3
  <2>5. QED
    BY <1>3, <1>4, <1>6, <1>7, <1>9, <2>4
<1>10. QED
  BY <1>8, <1>9

\* What the orders of the level being consumed give before and after one pass of the loop.
LEMMA FillsAt ==
  ASSUME NEW bk, NEW nb, NEW s, NEW at, NEW rem, NEW t, Fills(bk, nb, s, at, rem, t),
         NEW side \in Side, s = Opposite(side), NEW limit \in Price, Crosses(side, limit, at),
         NEW q, q = bk[s][at], NEW u, u = nb[s][at]
  PROVE  /\ FillOf(bk, side, limit, rem, at, 1) = t
         /\ t = q[1].qty => \A i \in DOMAIN u :
              FillOf(nb, side, limit, rem - t, at, i) = FillOf(bk, side, limit, rem, at, i + 1)
         /\ t # q[1].qty =>
              /\ \A i \in DOMAIN u : FillOf(nb, side, limit, rem - t, at, i) = 0
              /\ \A i \in DOMAIN q : i # 1 => FillOf(bk, side, limit, rem, at, i) = 0
<1>1. /\ bk \in AnyBook /\ nb \in AnyBook /\ s \in Side /\ at \in Price /\ rem \in 1 .. MaxQty
      /\ rem \in Nat /\ q \in Seq(Order) /\ u \in Seq(Order) /\ q # <<>>
      /\ u = AfterTrade(q, rem) /\ t = Traded(q, rem)
  BY TypesAssumption DEF Fills, AnyBook
<1>2. /\ t \in 1 .. rem /\ t <= q[1].qty /\ 1 \in DOMAIN q
      /\ t = q[1].qty => /\ Len(u) = Len(q) - 1
                         /\ \A i \in DOMAIN u : i + 1 \in DOMAIN q /\ u[i] = q[i + 1]
      /\ t # q[1].qty => /\ t = rem /\ DOMAIN u = DOMAIN q
  <2>1. /\ t \in 1 .. rem /\ t <= q[1].qty /\ 1 \in DOMAIN q
        /\ t # q[1].qty => t = rem /\ DOMAIN u = DOMAIN q
    BY <1>1, TradeShape
  <2>2. t = q[1].qty => u = Tail(q)
    BY <1>1 DEF AfterTrade
  <2>3. u = Tail(q) => /\ Len(u) = Len(q) - 1
                       /\ \A i \in DOMAIN u : i + 1 \in DOMAIN q /\ u[i] = q[i + 1]
    BY <1>1
  <2>4. QED
    BY <2>1, <2>2, <2>3
<1>3. /\ \A x \in Beyond(s, at) : bk[s][x] = <<>>
      /\ \A x \in Beyond(s, at) : nb[s][x] = <<>>
  <2>1. \A x \in Beyond(s, at) : x \in Price /\ x # at
    BY PriceFacts DEF Beyond, Better
  <2>2. QED
    BY <2>1 DEF Fills
<1>4. ASSUME NEW i \in DOMAIN q
      PROVE  /\ Ahead(bk, s, at, i) \in Nat
             /\ Ahead(bk, s, at, i) = SumOf(Weights(q), 1 .. i - 1)
             /\ i # 1 => Ahead(bk, s, at, i) >= q[1].qty
             /\ i = 1 => Ahead(bk, s, at, i) = 0
  <2>1. i \in DOMAIN bk[s][at]
    OBVIOUS
  <2>2. Ahead(bk, s, at, i) = SumOf(Weights(q), 1 .. i - 1)
    BY <1>1, <1>3, <2>1, AheadAtBest
  <2>3. QED
    BY <1>1, <2>2, WeightsFirst
<1>5. ASSUME NEW i \in DOMAIN u
      PROVE  Ahead(nb, s, at, i) \in Nat /\ Ahead(nb, s, at, i) = SumOf(Weights(u), 1 .. i - 1)
  <2>1. i \in DOMAIN nb[s][at]
    OBVIOUS
  <2>2. /\ nb \in AnyBook /\ s \in Side /\ at \in Price
        /\ \A x \in Beyond(s, at) : nb[s][x] = <<>>
    BY <1>1, <1>3
  <2>3. Ahead(nb, s, at, i) = SumOf(Weights(nb[s][at]), 1 .. i - 1)
    BY <2>1, <2>2, AheadAtBest
  <2>4. QED
    BY <1>1, <2>3, WeightsFirst
<1>6. \A i \in DOMAIN q : q[i].qty \in Nat /\ q[i].qty > 0
  BY <1>1, WeightsFacts
<1>7. FillOf(bk, side, limit, rem, at, 1) = t
  <2>1. Ahead(bk, s, at, 1) = 0
    BY <1>2, <1>4
  <2>2. FillOf(bk, side, limit, rem, at, 1) = MinOf(rem, q[1].qty)
    <3>1. FillOf(bk, side, limit, rem, at, 1) =
            IF Crosses(side, limit, at) /\ rem - 0 > 0 THEN MinOf(rem - 0, bk[s][at][1].qty) ELSE 0
      BY <2>1, FillIs
    <3>2. rem - 0 = rem /\ rem > 0
      BY <1>1
    <3>3. QED
      BY <3>1, <3>2
  <2>3. QED
    BY <1>1, <2>2 DEF Traded
<1>8. ASSUME t = q[1].qty, NEW i \in DOMAIN u
      PROVE  FillOf(nb, side, limit, rem - t, at, i) = FillOf(bk, side, limit, rem, at, i + 1)
  <2>1. PICK j \in DOMAIN q : j = i + 1 /\ u[i] = q[j] /\ i \in Nat
    <3>1. i \in Nat
      BY <1>1, QueueFacts
    <3>2. QED
      BY <1>2, <1>8, <3>1
  <2>2. PICK a \in Nat, b \in Nat : a = Ahead(bk, s, at, j) /\ b = Ahead(nb, s, at, i)
    BY <1>4, <1>5
  <2>3. a = t + b
    <3>1. a = SumOf(Weights(q), 1 .. i)
      <4>1. 1 .. j - 1 = 1 .. i
        BY <2>1
      <4>2. QED
        BY <1>4, <2>2, <4>1
    <3>2. b = SumOf(Weights(u), 1 .. i - 1)
      BY <1>5, <2>2
    <3>3. SumOf(Weights(q), 1 .. i) = q[1].qty + SumOf(Weights(u), 1 .. i - 1)
      BY <1>1, <1>2, <1>8, WeightsTail
    <3>4. QED
      BY <1>8, <3>1, <3>2, <3>3
  <2>4. (rem - t) - b = rem - a
    BY <1>1, <1>2, <2>2, <2>3
  <2>5. FillOf(nb, side, limit, rem - t, at, i) =
          IF Crosses(side, limit, at) /\ (rem - t) - b > 0 THEN MinOf((rem - t) - b, u[i].qty) ELSE 0
    BY <2>2, FillIs
  <2>6. FillOf(bk, side, limit, rem, at, j) =
          IF Crosses(side, limit, at) /\ rem - a > 0 THEN MinOf(rem - a, q[j].qty) ELSE 0
    BY <2>2, FillIs
  <2>7. QED
    BY <2>1, <2>4, <2>5, <2>6
<1>9. ASSUME t # q[1].qty
      PROVE  /\ \A i \in DOMAIN u : FillOf(nb, side, limit, rem - t, at, i) = 0
             /\ \A i \in DOMAIN q : i # 1 => FillOf(bk, side, limit, rem, at, i) = 0
  <2>1. t = rem /\ rem - t = 0
    BY <1>1, <1>2, <1>9
  <2>2. ASSUME NEW i \in DOMAIN u PROVE FillOf(nb, side, limit, rem - t, at, i) = 0
    <3>1. PICK b \in Nat : b = Ahead(nb, s, at, i)
      BY <1>5
    <3>2. ~((rem - t) - b > 0)
      BY <2>1, <3>1
    <3>3. FillOf(nb, side, limit, rem - t, at, i) =
            IF Crosses(side, limit, at) /\ (rem - t) - b > 0 THEN MinOf((rem - t) - b, u[i].qty) ELSE 0
      BY <3>1, FillIs
    <3>4. QED
      BY <3>2, <3>3
  <2>3. ASSUME NEW i \in DOMAIN q, i # 1 PROVE FillOf(bk, side, limit, rem, at, i) = 0
    <3>1. PICK a \in Nat : a = Ahead(bk, s, at, i) /\ a >= q[1].qty
      BY <1>4, <2>3
    <3>2. ~(rem - a > 0)
      BY <1>1, <1>2, <1>6, <2>1, <3>1
    <3>3. FillOf(bk, side, limit, rem, at, i) =
            IF Crosses(side, limit, at) /\ rem - a > 0 THEN MinOf(rem - a, q[i].qty) ELSE 0
      BY <3>1, FillIs
    <3>4. QED
      BY <3>2, <3>3
  <2>4. QED
    BY <2>2, <2>3
<1>10. QED
  BY <1>7, <1>8, <1>9

\* Matching what is left to trade leaves what matching all of it would have left.
LEMMA FillsMatched ==
  ASSUME NEW bk, NEW nb, NEW s, NEW at, NEW rem, NEW t, Fills(bk, nb, s, at, rem, t),
         NEW side \in Side, s = Opposite(side), NEW limit \in Price, Crosses(side, limit, at)
  PROVE  MatchedBook(nb, side, limit, rem - t) = MatchedBook(bk, side, limit, rem)
<1>1. /\ bk \in AnyBook /\ nb \in AnyBook /\ s \in Side /\ at \in Price /\ rem \in 1 .. MaxQty
      /\ rem \in Nat /\ Opposite(s) = side /\ nb[side] = bk[side]
      /\ \A p \in Price : p # at => nb[s][p] = bk[s][p]
  BY TypesAssumption, SideFacts DEF Fills
<1>2. PICK n \in Nat : n = rem - t /\ t \in Nat
  BY FillsLiquidity
<1>3. PICK mb \in AnyBook, nmb \in AnyBook :
        mb = MatchedBook(bk, side, limit, rem) /\ nmb = MatchedBook(nb, side, limit, n)
  BY <1>1, <1>2, MatchedFacts
<1>4. mb[side] = nmb[side]
  <2>1. mb[side] = bk[side]
    BY <1>1, <1>3, MatchedFacts
  <2>2. nmb[side] = nb[side]
    BY <1>1, <1>2, <1>3, MatchedFacts
  <2>3. QED
    BY <1>1, <2>1, <2>2
<1>5. ASSUME NEW p \in Price PROVE nmb[s][p] = mb[s][p]
  <2>1. PICK q \in Seq(Order), u \in Seq(Order), r \in Seq(Order), v \in Seq(Order) :
          q = bk[s][p] /\ u = nb[s][p] /\ r = mb[s][p] /\ v = nmb[s][p]
    BY <1>1 DEF AnyBook
  <2>2. PICK fill, gill : /\ fill = MatchFill(bk, side, limit, rem, p)
                          /\ gill = MatchFill(nb, side, limit, n, p)
    OBVIOUS
  <2>3. PICK m : Survivors(r, q, fill, m)
    BY <1>1, <1>3, <2>1, <2>2, MatchedLevel
  <2>4. PICK k : Survivors(v, u, gill, k)
    BY <1>1, <1>2, <1>3, <2>1, <2>2, MatchedLevel
  <2>5. /\ fill = [i \in DOMAIN q |-> FillOf(bk, side, limit, rem, p, i)]
        /\ gill = [i \in DOMAIN u |-> FillOf(nb, side, limit, n, p, i)]
    BY <2>1, <2>2 DEF MatchFill
  <2>6. \E j : Survivors(v, q, fill, j)
    <3>1. CASE p # at
      <4>1. u = q
        BY <1>1, <2>1, <3>1
      <4>2. \A i \in DOMAIN q : FillOf(nb, side, limit, n, p, i) = FillOf(bk, side, limit, rem, p, i)
        BY <1>2, <2>1, <3>1, FillsElsewhere
      <4>3. gill = fill
        BY <2>5, <4>1, <4>2
      <4>4. QED
        BY <2>4, <4>1, <4>3
    <3>2. CASE p = at
      <4>1. q # <<>> /\ u = AfterTrade(q, rem) /\ t = Traded(q, rem) /\ rem \in 1 .. MaxQty
        BY <2>1, <3>2 DEF Fills
      <4>2. /\ t <= q[1].qty /\ 1 \in DOMAIN q
            /\ t = q[1].qty =>
                 /\ Len(u) = Len(q) - 1
                 /\ \A i \in DOMAIN u : i + 1 \in DOMAIN q /\ u[i] = q[i + 1]
            /\ t # q[1].qty =>
                 /\ DOMAIN u = DOMAIN q
                 /\ u[1].id = q[1].id /\ u[1].qty = q[1].qty - t
                 /\ \A i \in DOMAIN q : i # 1 => u[i] = q[i]
        BY <4>1, TradeShape
      <4>3. /\ FillOf(bk, side, limit, rem, p, 1) = t
            /\ t = q[1].qty => \A i \in DOMAIN u :
                 FillOf(nb, side, limit, n, p, i) = FillOf(bk, side, limit, rem, p, i + 1)
            /\ t # q[1].qty =>
                 /\ \A i \in DOMAIN u : FillOf(nb, side, limit, n, p, i) = 0
                 /\ \A i \in DOMAIN q : i # 1 => FillOf(bk, side, limit, rem, p, i) = 0
        BY <1>2, <2>1, <3>2, FillsAt
      <4>4. CASE t = q[1].qty
        <5>1. fill[1] = q[1].qty
          BY <2>5, <4>2, <4>3, <4>4
        <5>2. \A i \in DOMAIN u : gill[i] = fill[i + 1]
          BY <2>5, <4>2, <4>3, <4>4
        <5>3. Len(u) = Len(q) - 1 /\ \A i \in DOMAIN u : u[i] = q[i + 1]
          BY <4>2, <4>4
        <5>4. QED
          BY <2>4, <4>1, <5>1, <5>2, <5>3, SurvivorsTail
      <4>5. CASE t # q[1].qty
        <5>1. /\ DOMAIN u = DOMAIN q /\ u[1].id = q[1].id /\ u[1].qty = q[1].qty - t
              /\ \A i \in DOMAIN q : i # 1 => u[i] = q[i]
          BY <4>2, <4>5
        <5>2. \A i \in DOMAIN q : gill[i] = 0
          BY <2>5, <4>3, <4>5, <5>1
        <5>3. fill[1] = t /\ \A i \in DOMAIN q : i # 1 => fill[i] = 0
          BY <2>5, <4>2, <4>3, <4>5
        <5>4. t < q[1].qty
          <6>1. q[1].qty \in Nat
            BY <4>2, WeightsFacts
          <6>2. QED
            BY <1>2, <4>2, <4>5, <6>1
        <5>5. Survivors(v, q, fill, k)
          BY <1>2, <2>4, <4>1, <5>1, <5>2, <5>3, <5>4, SurvivorsFront
        <5>6. QED
          BY <5>5
      <4>6. QED
        BY <4>4, <4>5
    <3>3. QED
      BY <3>1, <3>2
  <2>7. v = r
    BY <2>3, <2>6, SurvivorsUnique
  <2>8. QED
    BY <2>1, <2>7
<1>6. \A x \in Side : x = side \/ x = s
  BY <1>1 DEF Side, Opposite
<1>7. \A x \in Side, p \in Price : mb[x][p] = nmb[x][p]
  BY <1>4, <1>5, <1>6
<1>8. mb = nmb
  <2>1. /\ mb = [x \in Side |-> [p \in Price |-> mb[x][p]]]
        /\ nmb = [x \in Side |-> [p \in Price |-> nmb[x][p]]]
    BY DEF AnyBook
  <2>2. QED
    BY <1>7, <2>1
<1>9. QED
  BY <1>2, <1>3, <1>8

\* The rest is filled by as much less as was traded.
LEMMA FillsFilled ==
  ASSUME NEW bk, NEW nb, NEW s, NEW at, NEW rem, NEW t, Fills(bk, nb, s, at, rem, t),
         NEW side \in Side, s = Opposite(side), NEW limit \in Price, Crosses(side, limit, at)
  PROVE  /\ Filled(bk, side, limit, rem) = Filled(nb, side, limit, rem - t) + t
         /\ Filled(nb, side, limit, rem - t) \in Nat /\ t \in Nat /\ rem - t \in Nat /\ rem \in Nat
<1>1. bk \in AnyBook /\ nb \in AnyBook /\ s \in Side /\ at \in Price /\ rem \in Nat
  BY TypesAssumption DEF Fills
<1>2. PICK P \in SUBSET Price : P = {p \in Price : Crosses(side, limit, p)}
  OBVIOUS
<1>3. PICK a \in Nat, b \in Nat : a = Liquidity(bk, s, P) /\ b = Liquidity(nb, s, P)
  BY <1>1, LiquidityFacts
<1>4. t \in 1 .. rem /\ t \in Nat /\ rem - t \in Nat /\ a = b + t
  <2>1. at \in P
    BY <1>1, <1>2
  <2>2. QED
    BY <1>3, <2>1, FillsLiquidity
<1>5. Filled(bk, side, limit, rem) = MinOf(rem, a) /\ Filled(nb, side, limit, rem - t) = MinOf(rem - t, b)
  BY <1>2, <1>3 DEF Filled
<1>6. MinOf(rem, a) = MinOf(rem - t, b) + t /\ MinOf(rem - t, b) \in Nat
  BY <1>1, <1>4 DEF MinOf
<1>7. QED
  BY <1>1, <1>4, <1>5, <1>6

\* The call leaves the same book, whether or not one pass of its loops has been run.
LEMMA FillsAfterMatch ==
  ASSUME NEW bk, NEW nb, NEW s, NEW at, NEW rem, NEW t, Fills(bk, nb, s, at, rem, t),
         NEW side \in Side, s = Opposite(side), NEW limit \in Price, Crosses(side, limit, at), NEW id
  PROVE  AfterMatch(nb, side, id, limit, rem - t) = AfterMatch(bk, side, id, limit, rem)
<1>1. MatchedBook(nb, side, limit, rem - t) = MatchedBook(bk, side, limit, rem)
  BY FillsMatched
<1>2. PICK f \in Nat : f = Filled(nb, side, limit, rem - t)
  BY FillsFilled
<1>3. (rem - t) - f = rem - (f + t) /\ Filled(bk, side, limit, rem) = f + t
  BY <1>2, FillsFilled
<1>4. QED
  BY <1>1, <1>2, <1>3 DEF AfterMatch

-----------------------------------------------------------------------------
(* A fill in the contract: what is left to match counts the rest. *)

\* The counters of two steps together, field by field.
LEMMA PlusIs ==
  ASSUME NEW t, NEW u
  PROVE  Plus(t, u) =
           [crossing_new_orders    |-> t.crossing_new_orders + u.crossing_new_orders,
            crossing_modify_orders |-> t.crossing_modify_orders + u.crossing_modify_orders,
            match_events           |-> t.match_events + u.match_events,
            traded_qty             |-> t.traded_qty + u.traded_qty,
            invalidations          |-> [s \in Side |-> t.invalidations[s] + u.invalidations[s]]]
<1> DEFINE P(v) == [crossing_new_orders    |-> v.t.crossing_new_orders + v.u.crossing_new_orders,
                    crossing_modify_orders |-> v.t.crossing_modify_orders + v.u.crossing_modify_orders,
                    match_events           |-> v.t.match_events + v.u.match_events,
                    traded_qty             |-> v.t.traded_qty + v.u.traded_qty,
                    invalidations          |->
                      [s \in Side |-> v.t.invalidations[s] + v.u.invalidations[s]]]
<1>1. Plus(t, u) = CHOOSE y \in {P(v) : v \in {[t |-> t, u |-> u]}} : TRUE
  BY DEF Plus, With
<1>2. PICK w : w = [t |-> t, u |-> u]
  OBVIOUS
<1>3. w.t = t /\ w.u = u
  BY <1>2
<1>4. Plus(t, u) = P(w)
  <2> HIDE DEF P
  <2>1. {P(v) : v \in {w}} = {P(w)}
    OBVIOUS
  <2>2. QED
    BY <1>1, <1>2, <2>1
<1>5. QED
  BY <1>3, <1>4

\* The counters of a match, field by field.
LEMMA TallyOfIs ==
  ASSUME NEW s \in Side, NEW x, NEW y, NEW z
  PROVE  TallyOf(s, x, y, z) =
           [crossing_new_orders |-> 0, crossing_modify_orders |-> 0, match_events |-> x,
            traded_qty |-> y, invalidations |-> [u \in Side |-> IF u = s THEN z ELSE 0]]
<1>1. PICK i, j : i = [u \in Side |-> 0] /\ j = [u \in Side |-> IF u = s THEN z ELSE 0]
  OBVIOUS
<1>2. [i EXCEPT ![s] = z] = j
  BY <1>1
<1>3. PICK t : t = [ZeroTally EXCEPT !.match_events = x, !.traded_qty = y]
  OBVIOUS
<1>4. t = [crossing_new_orders |-> 0, crossing_modify_orders |-> 0, match_events |-> x,
           traded_qty |-> y, invalidations |-> i]
  BY <1>1, <1>3 DEF ZeroTally
<1>5. TallyOf(s, x, y, z) = [t EXCEPT !.invalidations[s] = z]
  BY <1>3 DEF TallyOf
<1>6. [t EXCEPT !.invalidations[s] = z] = [t EXCEPT !.invalidations = j]
  BY <1>2, <1>4
<1>7. [t EXCEPT !.invalidations = j]
        = [crossing_new_orders |-> 0, crossing_modify_orders |-> 0, match_events |-> x,
           traded_qty |-> y, invalidations |-> j]
  BY <1>4
<1>8. QED
  BY <1>1, <1>5, <1>6, <1>7

\* How many orders of each level a match fills, and the levels it sweeps.
Hits(bk, side, limit, qty) ==
  [p \in Price |->
     Cardinality({i \in DOMAIN bk[Opposite(side)][p] : FillOf(bk, side, limit, qty, p, i) > 0})]

Swept(bk, side, limit, qty) ==
  {p \in Active(bk, Opposite(side)) : MatchedBook(bk, side, limit, qty)[Opposite(side)][p] = <<>>}

\* The counters of a match are these.
LEMMA MatchTallyIs ==
  ASSUME NEW bk \in AnyBook, NEW side \in Side, NEW limit, NEW qty \in Nat, NEW s, s = Opposite(side)
  PROVE  /\ MatchTally(bk, side, limit, qty) =
              TallyOf(s, SumOf(Hits(bk, side, limit, qty), Price), Filled(bk, side, limit, qty),
                      Cardinality(Swept(bk, side, limit, qty)))
         /\ Hits(bk, side, limit, qty) \in [Price -> Nat]
         /\ Swept(bk, side, limit, qty) \in SUBSET Price
<1> DEFINE hit(p) == {i \in DOMAIN bk[Opposite(side)][p] : FillOf(bk, side, limit, qty, p, i) > 0}
           events == MapThenSumSet(LAMBDA p : Cardinality(hit(p)), Price)
           wet == With(MatchedBook(bk, side, limit, qty)[Opposite(side)],
                       LAMBDA left : {p \in Active(bk, Opposite(side)) : left[p] = <<>>})
<1>1. s \in Side
  BY SideFacts
<1>2. MatchTally(bk, side, limit, qty) =
        [ZeroTally EXCEPT !.match_events = events,
                          !.traded_qty = Filled(bk, side, limit, qty),
                          !.invalidations[Opposite(side)] = Cardinality(wet)]
  BY DEF MatchTally
<1>3. events = SumOf(Hits(bk, side, limit, qty), Price) /\ Hits(bk, side, limit, qty) \in [Price -> Nat]
  <2> DEFINE P == Price
             f == [p \in P |-> Cardinality(hit(p))]
             pick(r) == CHOOSE x \in r : TRUE
             A(h) == h = [r \in SUBSET P |-> IF r = {} THEN 0 ELSE Cardinality(hit(pick(r))) + h[r \ {pick(r)}]]
             B(h) == h = [r \in SUBSET P |-> IF r = {} THEN 0 ELSE f[pick(r)] + h[r \ {pick(r)}]]
  <2>1. events = (CHOOSE h : A(h))[P]
    BY DEF MapThenSumSet, MapThenFoldSet
  <2>2. SumOf(f, P) = (CHOOSE h : B(h))[P]
    BY DEF SumOf, MapThenSumSet, MapThenFoldSet
  <2>3. \A r \in SUBSET P : r # {} => pick(r) \in P
    OBVIOUS
  <2>4. \A p \in P : f[p] = Cardinality(hit(p))
    OBVIOUS
  <2>5. \A p \in P : Cardinality(hit(p)) \in Nat
    <3> SUFFICES ASSUME NEW p \in Price PROVE Cardinality(hit(p)) \in Nat
      OBVIOUS
    <3>1. bk[Opposite(side)][p] \in Seq(Order)
      BY SideFacts DEF AnyBook
    <3>2. IsFiniteSet(DOMAIN bk[Opposite(side)][p]) /\ hit(p) \in SUBSET DOMAIN bk[Opposite(side)][p]
      BY <3>1, WeightsFacts
    <3>3. QED
      BY <3>2, FS_Subset, FS_CardinalityType
  <2>6. f \in [P -> Nat]
    BY <2>5
  <2>10. f = Hits(bk, side, limit, qty)
    BY DEF Hits
  <2> HIDE DEF f, P, hit
  <2>7. ASSUME NEW h PROVE A(h) <=> B(h)
    <3>1. \A r \in SUBSET P : (IF r = {} THEN 0 ELSE Cardinality(hit(pick(r))) + h[r \ {pick(r)}])
               = (IF r = {} THEN 0 ELSE f[pick(r)] + h[r \ {pick(r)}])
      BY <2>3, <2>4
    <3> HIDE DEF pick
    <3>2. QED
      BY <3>1
  <2> HIDE DEF A, B
  <2>8. (CHOOSE h : A(h)) = (CHOOSE h : B(h))
    BY <2>7, Zenon
  <2>9. events = SumOf(f, P)
    BY <2>1, <2>2, <2>8
  <2>11. QED
    BY <2>6, <2>9, <2>10 DEF P
<1>4. wet = Swept(bk, side, limit, qty)
  <2>1. PICK mb : mb = MatchedBook(bk, side, limit, qty)[Opposite(side)]
    OBVIOUS
  <2> DEFINE gone(left) == {p \in Active(bk, Opposite(side)) : left[p] = <<>>}
  <2>2. wet = CHOOSE y \in {gone(v) : v \in {mb}} : TRUE
    BY <2>1 DEF With
  <2>3. wet = gone(mb)
    <3> HIDE DEF gone, wet
    <3>1. {gone(v) : v \in {mb}} = {gone(mb)}
      OBVIOUS
    <3>2. QED
      BY <2>2, <3>1
  <2>4. QED
    BY <2>1, <2>3 DEF Swept
<1>5. Swept(bk, side, limit, qty) \in SUBSET Price
  BY DEF Swept, Active
<1> HIDE DEF events, wet
<1>6. MatchTally(bk, side, limit, qty) =
        TallyOf(s, events, Filled(bk, side, limit, qty), Cardinality(wet))
  BY <1>1, <1>2 DEF TallyOf
<1>7. QED
  BY <1>3, <1>4, <1>5, <1>6

\* Moving every element up by one does not change their number.
LEMMA ShiftedCount ==
  ASSUME NEW B \in SUBSET Nat, IsFiniteSet(B), NEW A, \A x : x \in A <=> \E y \in B : x = y + 1
  PROVE  IsFiniteSet(A) /\ Cardinality(A) = Cardinality(B)
<1>1. PICK m : m = [y \in B |-> y + 1]
  OBVIOUS
<1>2. m \in [B -> A] /\ \A y \in B : m[y] = y + 1 /\ y \in Nat
  BY <1>1
<1>3. \A y, z \in B : m[y] = m[z] => y = z
  BY <1>2
<1>4. \A x \in A : \E y \in B : m[y] = x
  BY <1>2
<1>5. m \in Bijection(B, A)
  BY <1>2, <1>3, <1>4 DEF Bijection, Injection, Surjection, IsInjective
<1>6. ExistsBijection(B, A)
  BY <1>5 DEF ExistsBijection
<1>7. QED
  BY <1>6, FS_Bijection

\* One pass of the loop is one match event.
LEMMA FillsHits ==
  ASSUME NEW bk, NEW nb, NEW s, NEW at, NEW rem, NEW t, Fills(bk, nb, s, at, rem, t),
         NEW side \in Side, s = Opposite(side), NEW limit \in Price, Crosses(side, limit, at),
         NEW c, c = Hits(bk, side, limit, rem), NEW f, f = Hits(nb, side, limit, rem - t)
  PROVE  PutOn(c, f, Price, at, 1)
<1>1. /\ bk \in AnyBook /\ nb \in AnyBook /\ s \in Side /\ at \in Price /\ rem \in 1 .. MaxQty
      /\ rem \in Nat /\ \A p \in Price : p # at => nb[s][p] = bk[s][p]
  BY TypesAssumption DEF Fills
<1>2. PICK n \in Nat : n = rem - t /\ t \in Nat /\ t \in 1 .. rem
  BY FillsLiquidity
<1>3. c \in [Price -> Nat] /\ f \in [Price -> Nat]
  BY <1>1, <1>2, MatchTallyIs
<1>4. /\ \A p \in Price : c[p] = Cardinality({i \in DOMAIN bk[s][p] : FillOf(bk, side, limit, rem, p, i) > 0})
      /\ \A p \in Price : f[p] = Cardinality({i \in DOMAIN nb[s][p] : FillOf(nb, side, limit, n, p, i) > 0})
  BY <1>2 DEF Hits
<1>5. ASSUME NEW p \in Price \ {at} PROVE c[p] = f[p]
  <2>1. nb[s][p] = bk[s][p]
    BY <1>1
  <2>2. \A i \in DOMAIN bk[s][p] : FillOf(nb, side, limit, n, p, i) = FillOf(bk, side, limit, rem, p, i)
    BY <1>2, FillsElsewhere
  <2>3. {i \in DOMAIN bk[s][p] : FillOf(bk, side, limit, rem, p, i) > 0}
          = {i \in DOMAIN nb[s][p] : FillOf(nb, side, limit, n, p, i) > 0}
    BY <2>1, <2>2
  <2>4. QED
    BY <1>4, <2>3
<1>6. c[at] = f[at] + 1
  <2>1. PICK q \in Seq(Order), u \in Seq(Order) : q = bk[s][at] /\ u = nb[s][at]
    BY <1>1 DEF AnyBook
  <2>2. q # <<>> /\ u = AfterTrade(q, rem) /\ t = Traded(q, rem)
    BY <2>1 DEF Fills
  <2>3. /\ 1 \in DOMAIN q /\ t > 0
        /\ t = q[1].qty => Len(u) = Len(q) - 1
    BY <1>1, <1>2, <2>2, TradeShape
  <2>4. /\ FillOf(bk, side, limit, rem, at, 1) = t
        /\ t = q[1].qty => \A i \in DOMAIN u :
             FillOf(nb, side, limit, n, at, i) = FillOf(bk, side, limit, rem, at, i + 1)
        /\ t # q[1].qty =>
             /\ \A i \in DOMAIN u : FillOf(nb, side, limit, n, at, i) = 0
             /\ \A i \in DOMAIN q : i # 1 => FillOf(bk, side, limit, rem, at, i) = 0
    BY <1>2, <2>1, FillsAt
  <2>5. PICK g, h : /\ g = [i \in DOMAIN q |-> FillOf(bk, side, limit, rem, at, i)]
                    /\ h = [i \in DOMAIN u |-> FillOf(nb, side, limit, n, at, i)]
    OBVIOUS
  <2>6. PICK A, B : A = {i \in DOMAIN q : g[i] > 0} /\ B = {i \in DOMAIN u : h[i] > 0}
    OBVIOUS
  <2>7. c[at] = Cardinality(A) /\ f[at] = Cardinality(B)
    <3>1. A = {i \in DOMAIN bk[s][at] : FillOf(bk, side, limit, rem, at, i) > 0}
      BY <2>1, <2>5, <2>6
    <3>2. B = {i \in DOMAIN nb[s][at] : FillOf(nb, side, limit, n, at, i) > 0}
      BY <2>1, <2>5, <2>6
    <3>3. QED
      BY <1>1, <1>4, <3>1, <3>2
  <2>8. IsFiniteSet(A) /\ IsFiniteSet(B) /\ 1 \in A
    <3>1. A \in SUBSET DOMAIN q /\ B \in SUBSET DOMAIN u /\ 1 \in A
      BY <2>3, <2>4, <2>5, <2>6
    <3>2. IsFiniteSet(DOMAIN q) /\ IsFiniteSet(DOMAIN u)
      BY WeightsFacts
    <3>3. QED
      BY <3>1, <3>2, FS_Subset
  <2>9. Cardinality(A \ {1}) = Cardinality(B)
    <3>1. CASE t = q[1].qty
      <4>1. PICK a \in Nat : DOMAIN q = 1 .. a /\ DOMAIN u = 1 .. a - 1
        BY <2>3, <3>1, QueueFacts
      <4>2. \A i \in 1 .. a - 1 : h[i] = g[i + 1]
        <5>1. \A i \in 1 .. a - 1 : i + 1 \in 1 .. a
          BY <4>1
        <5>2. QED
          BY <2>4, <2>5, <3>1, <4>1, <5>1
      <4>3. \A x : x \in A \ {1} <=> \E y \in B : x = y + 1
        <5>1. ASSUME NEW x, x \in A \ {1} PROVE \E y \in B : x = y + 1
          <6>1. x \in 1 .. a /\ x # 1 /\ g[x] > 0
            BY <2>6, <4>1, <5>1
          <6>2. x - 1 \in 1 .. a - 1 /\ (x - 1) + 1 = x
            BY <4>1, <6>1
          <6>3. x - 1 \in B
            BY <2>6, <4>1, <4>2, <6>1, <6>2
          <6>4. QED
            BY <6>2, <6>3
        <5>2. ASSUME NEW y \in B PROVE y + 1 \in A \ {1}
          <6>1. y \in 1 .. a - 1 /\ h[y] > 0
            BY <2>6, <4>1
          <6>2. y + 1 \in 1 .. a /\ y + 1 # 1 /\ g[y + 1] > 0
            BY <4>1, <4>2, <6>1
          <6>3. QED
            BY <2>6, <4>1, <6>2
        <5>3. QED
          BY <5>1, <5>2
      <4>4. B \in SUBSET Nat
        BY <2>6, <4>1
      <4>5. QED
        BY <2>8, <4>3, <4>4, ShiftedCount
    <3>2. CASE t # q[1].qty
      <4>1. A \ {1} = {} /\ B = {}
        BY <2>4, <2>5, <2>6, <3>2
      <4>2. QED
        BY <4>1
    <3>3. QED
      BY <3>1, <3>2
  <2>10. Cardinality(A) \in Nat /\ Cardinality(A \ {1}) = Cardinality(A) - 1
    BY <2>8, FS_CardinalityType, FS_RemoveElement
  <2>11. QED
    BY <2>7, <2>9, <2>10
<1>7. QED
  BY <1>1, <1>3, <1>5, <1>6 DEF PutOn

\* A level emptied by the pass is swept, and no other level is swept for it.
LEMMA FillsSwept ==
  ASSUME NEW bk, NEW nb, NEW s, NEW at, NEW rem, NEW t, Fills(bk, nb, s, at, rem, t),
         NEW side \in Side, s = Opposite(side), NEW limit \in Price, Crosses(side, limit, at),
         NEW v, v = Swept(bk, side, limit, rem), NEW w, w = Swept(nb, side, limit, rem - t)
  PROVE  /\ IsFiniteSet(w) /\ IsFiniteSet(v)
         /\ nb[s][at] = <<>> => at \notin w /\ v = w \cup {at}
         /\ nb[s][at] # <<>> => v = w
<1>1. /\ bk \in AnyBook /\ nb \in AnyBook /\ s \in Side /\ at \in Price /\ rem \in Nat
      /\ bk[s][at] # <<>> /\ \A p \in Price : p # at => nb[s][p] = bk[s][p]
  BY TypesAssumption DEF Fills
<1>2. PICK n \in Nat : n = rem - t
  BY FillsLiquidity
<1>3. PICK mb \in AnyBook : mb = MatchedBook(bk, side, limit, rem) /\ mb = MatchedBook(nb, side, limit, n)
  BY <1>1, <1>2, MatchedFacts, FillsMatched
<1>4. /\ v = {p \in Price : bk[s][p] # <<>> /\ mb[s][p] = <<>>}
      /\ w = {p \in Price : nb[s][p] # <<>> /\ mb[s][p] = <<>>}
  BY <1>2, <1>3 DEF Swept, Active
<1>5. IsFiniteSet(v) /\ IsFiniteSet(w)
  <2>1. v \in SUBSET Price /\ w \in SUBSET Price
    BY <1>4
  <2>2. QED
    BY <2>1, PriceFinite, FS_Subset
<1>6. CASE nb[s][at] # <<>>
  BY <1>1, <1>4, <1>5, <1>6
<1>7. CASE nb[s][at] = <<>>
  <2>1. mb[s][at] = <<>>
    <3>1. PICK u \in Seq(Order), r \in Seq(Order) : u = nb[s][at] /\ r = mb[s][at]
      BY <1>1 DEF AnyBook
    <3>2. PICK gill, m : Survivors(r, u, gill, m)
      BY <1>1, <1>2, <1>3, <3>1, MatchedLevel
    <3>3. \A k \in DOMAIN r : m[k] \in DOMAIN u
      BY <3>2 DEF Survivors
    <3>4. DOMAIN u = {}
      BY <1>7, <3>1
    <3>5. DOMAIN r = {}
      BY <3>3, <3>4
    <3>6. r = <<>>
      <4>1. Len(r) \in Nat /\ DOMAIN r = 1 .. Len(r) /\ (r = <<>> <=> Len(r) = 0)
        BY QueueFacts
      <4>2. QED
        BY <3>5, <4>1
    <3>7. QED
      BY <3>1, <3>6
  <2>2. QED
    BY <1>1, <1>4, <1>5, <1>7, <2>1
<1>8. QED
  BY <1>6, <1>7

\* The sum of two counters, field by field.
LEMMA PlusOf ==
  ASSUME NEW c, NEW d, NEW e, NEW f, NEW v, NEW cc, NEW dd, NEW ee, NEW ff, NEW vv,
         NEW t, t = [crossing_new_orders |-> c, crossing_modify_orders |-> d, match_events |-> e,
                     traded_qty |-> f, invalidations |-> v],
         NEW u, u = [crossing_new_orders |-> cc, crossing_modify_orders |-> dd, match_events |-> ee,
                     traded_qty |-> ff, invalidations |-> vv]
  PROVE  Plus(t, u) = [crossing_new_orders |-> c + cc, crossing_modify_orders |-> d + dd,
                       match_events |-> e + ee, traded_qty |-> f + ff,
                       invalidations |-> [s \in Side |-> v[s] + vv[s]]]
<1>1. PICK r : r = Plus(t, u)
  OBVIOUS
<1>2. r = [crossing_new_orders    |-> t.crossing_new_orders + u.crossing_new_orders,
           crossing_modify_orders |-> t.crossing_modify_orders + u.crossing_modify_orders,
           match_events           |-> t.match_events + u.match_events,
           traded_qty             |-> t.traded_qty + u.traded_qty,
           invalidations          |-> [s \in Side |-> t.invalidations[s] + u.invalidations[s]]]
  BY <1>1, PlusIs
<1>3. QED
  BY <1>1, <1>2

\* One fill counted.
FillCounted(T, t) == [T EXCEPT !.match_events = @ + 1, !.traded_qty = @ + t]

\* Counters that count one fill and, if it emptied the level, its removal.
LEMMA CountsAdd ==
  ASSUME NEW T \in Tally, NEW s \in Side, NEW t \in Nat, NEW x \in Nat, NEW y \in Nat, NEW z \in Nat,
         NEW k \in 0 .. 1, NEW b, b = Plus(FillCounted(T, t), TallyOf(s, x, y, z)),
         NEW a, a = Plus(T, TallyOf(s, x + 1, y + t, z + k))
  PROVE  (k = 1 /\ a = Invalidated(b, s)) \/ (k = 0 /\ a = b)
<1>1. PICK c, d, e, f, v : T = [crossing_new_orders |-> c, crossing_modify_orders |-> d,
                                match_events |-> e, traded_qty |-> f, invalidations |-> v]
  BY DEF Tally
<1>2. c \in 0 .. 1 /\ d \in 0 .. 1 /\ e \in Nat /\ f \in Nat /\ v \in [Side -> Nat]
  BY <1>1 DEF Tally
<1>3. PICK U : U = FillCounted(T, t)
  OBVIOUS
<1>13. U = [crossing_new_orders |-> c, crossing_modify_orders |-> d,
           match_events |-> e + 1, traded_qty |-> f + t, invalidations |-> v]
  BY <1>1, <1>3 DEF FillCounted
<1>4. PICK i, j : /\ i = [u \in Side |-> IF u = s THEN z ELSE 0]
                  /\ j = [u \in Side |-> IF u = s THEN z + k ELSE 0]
  OBVIOUS
<1>5. /\ TallyOf(s, x, y, z) =
           [crossing_new_orders |-> 0, crossing_modify_orders |-> 0, match_events |-> x,
            traded_qty |-> y, invalidations |-> i]
      /\ TallyOf(s, x + 1, y + t, z + k) =
           [crossing_new_orders |-> 0, crossing_modify_orders |-> 0, match_events |-> x + 1,
            traded_qty |-> y + t, invalidations |-> j]
  BY <1>4, TallyOfIs
<1>6. PICK w, r : w = [u \in Side |-> v[u] + i[u]] /\ r = [u \in Side |-> v[u] + j[u]]
  OBVIOUS
<1>7. b = [crossing_new_orders |-> c + 0, crossing_modify_orders |-> d + 0,
           match_events |-> (e + 1) + x, traded_qty |-> (f + t) + y, invalidations |-> w]
  <2>1. PICK B : B = TallyOf(s, x, y, z)
    OBVIOUS
  <2>2. b = Plus(U, B)
    BY <1>3, <2>1
  <2>3. QED
    BY <1>13, <1>5, <1>6, <2>1, <2>2, PlusOf
<1>8. Plus(T, TallyOf(s, x + 1, y + t, z + k)) =
        [crossing_new_orders |-> c + 0, crossing_modify_orders |-> d + 0,
         match_events |-> e + (x + 1), traded_qty |-> f + (y + t), invalidations |-> r]
  <2>1. PICK B : B = TallyOf(s, x + 1, y + t, z + k)
    OBVIOUS
  <2>2. QED
    BY <1>1, <1>5, <1>6, <2>1, PlusOf
<1>9. e + (x + 1) = (e + 1) + x /\ f + (y + t) = (f + t) + y
  BY <1>2
<1>10. CASE k = 0
  <2>1. r = w
    BY <1>4, <1>6, <1>10
  <2>2. QED
    BY <1>7, <1>8, <1>9, <1>10, <2>1
<1>11. CASE k = 1
  <2>1. r = [w EXCEPT ![s] = @ + 1]
    <3>1. \A u \in Side : r[u] = IF u = s THEN w[u] + 1 ELSE w[u]
      BY <1>2, <1>4, <1>6, <1>11
    <3>2. QED
      BY <1>6, <3>1
  <2>2. Invalidated(b, s) = [b EXCEPT !.invalidations = r]
    BY <1>7, <2>1 DEF Invalidated
  <2>3. [b EXCEPT !.invalidations = r] =
          [crossing_new_orders |-> c + 0, crossing_modify_orders |-> d + 0,
           match_events |-> (e + 1) + x, traded_qty |-> (f + t) + y, invalidations |-> r]
    BY <1>7
  <2>4. a = Invalidated(b, s)
    BY <1>8, <1>9, <2>2, <2>3
  <2>5. QED
    BY <1>11, <2>4
<1>12. QED
  BY <1>10, <1>11

\* The call counts the same, whether or not one pass of its loops has been run.
LEMMA FillsTally ==
  ASSUME NEW bk, NEW nb, NEW s, NEW at, NEW rem, NEW t, Fills(bk, nb, s, at, rem, t),
         NEW side \in Side, s = Opposite(side), NEW limit \in Price, Crosses(side, limit, at),
         NEW T \in Tally, NEW b, b = Plus(FillCounted(T, t), MatchTally(nb, side, limit, rem - t))
  PROVE  /\ nb[s][at] = <<>> => Plus(T, MatchTally(bk, side, limit, rem)) = Invalidated(b, s)
         /\ nb[s][at] # <<>> => Plus(T, MatchTally(bk, side, limit, rem)) = b
<1>1. bk \in AnyBook /\ nb \in AnyBook /\ s \in Side /\ at \in Price /\ rem \in Nat
  BY TypesAssumption DEF Fills
<1>2. PICK n \in Nat : n = rem - t /\ t \in Nat
  BY FillsLiquidity
<1>3. PICK y \in Nat : y = Filled(nb, side, limit, n) /\ Filled(bk, side, limit, rem) = y + t
  BY <1>2, FillsFilled
<1>4. PICK c \in [Price -> Nat], f \in [Price -> Nat] :
        c = Hits(bk, side, limit, rem) /\ f = Hits(nb, side, limit, n)
  BY <1>1, <1>2, MatchTallyIs
<1>5. PICK x \in Nat : x = SumOf(f, Price) /\ SumOf(c, Price) = x + 1
  <2>1. PutOn(c, f, Price, at, 1)
    BY <1>2, <1>4, FillsHits
  <2>2. SumOf(c, Price) = SumOf(f, Price) + 1
    <3>1. PICK P \in SUBSET Price : P = Price
      OBVIOUS
    <3>2. SumOf(c, P) = SumOf(f, P) + 1
      BY <1>1, <2>1, <3>1, PriceFinite, SumPut
    <3>3. QED
      BY <3>1, <3>2
  <2>3. SumOf(f, Price) \in Nat
    <3>1. PICK P \in SUBSET Price : P = Price
      OBVIOUS
    <3>2. SumOf(f, P) \in Nat
      BY PriceFinite, SumFacts
    <3>3. QED
      BY <3>1, <3>2
  <2>4. QED
    BY <2>2, <2>3
<1>6. PICK v, w : v = Swept(bk, side, limit, rem) /\ w = Swept(nb, side, limit, n)
  OBVIOUS
<1>7. PICK k \in 0 .. 1, z \in Nat : /\ z = Cardinality(w) /\ Cardinality(v) = z + k
                                     /\ k = 1 <=> nb[s][at] = <<>>
  <2>1. /\ IsFiniteSet(w) /\ IsFiniteSet(v)
        /\ nb[s][at] = <<>> => at \notin w /\ v = w \cup {at}
        /\ nb[s][at] # <<>> => v = w
    BY <1>2, <1>6, FillsSwept
  <2>2. Cardinality(w) \in Nat
    BY <2>1, FS_CardinalityType
  <2>3. CASE nb[s][at] = <<>>
    <3>1. Cardinality(v) = Cardinality(w) + 1
      BY <2>1, <2>3, FS_AddElement
    <3>2. QED
      BY <2>2, <2>3, <3>1
  <2>4. CASE nb[s][at] # <<>>
    <3>1. Cardinality(v) = Cardinality(w) + 0
      BY <2>1, <2>2, <2>4
    <3>2. QED
      BY <2>2, <2>4, <3>1
  <2>5. QED
    BY <2>3, <2>4
<1>8. MatchTally(bk, side, limit, rem) = TallyOf(s, x + 1, y + t, z + k)
  BY <1>1, <1>3, <1>4, <1>5, <1>6, <1>7, MatchTallyIs
<1>9. MatchTally(nb, side, limit, n) = TallyOf(s, x, y, z)
  BY <1>1, <1>3, <1>4, <1>5, <1>6, <1>7, MatchTallyIs
<1>10. b = Plus(FillCounted(T, t), TallyOf(s, x, y, z))
  BY <1>2, <1>9
<1>13. PICK a : a = Plus(T, TallyOf(s, x + 1, y + t, z + k))
  OBVIOUS
<1>11. (k = 1 /\ a = Invalidated(b, s)) \/ (k = 0 /\ a = b)
  <2>1. T \in Tally /\ s \in Side /\ t \in Nat /\ x \in Nat /\ y \in Nat /\ z \in Nat /\ k \in 0 .. 1
    BY <1>1, <1>2
  <2>2. QED
    BY ONLY <2>1, <1>10, <1>13, CountsAdd
<1>12. QED
  BY <1>7, <1>8, <1>11, <1>13

-----------------------------------------------------------------------------
(* Counters added up, and matching that trades nothing. *)

\* Counters as a record of five fields.
TallyIs(T, c, d, e, f, v) ==
  /\ T = [crossing_new_orders |-> c, crossing_modify_orders |-> d, match_events |-> e,
          traded_qty |-> f, invalidations |-> v]
  /\ c \in 0 .. 1 /\ d \in 0 .. 1 /\ e \in Nat /\ f \in Nat /\ v \in [Side -> Nat]

\* Every tally is a record of such fields.
LEMMA TallyFields ==
  ASSUME NEW T \in Tally
  PROVE  \E c, d, e, f, v : TallyIs(T, c, d, e, f, v)
<1>1. PICK c, d, e, f, v : T = [crossing_new_orders |-> c, crossing_modify_orders |-> d,
                                match_events |-> e, traded_qty |-> f, invalidations |-> v]
  BY DEF Tally
<1>2. c \in 0 .. 1 /\ d \in 0 .. 1 /\ e \in Nat /\ f \in Nat /\ v \in [Side -> Nat]
  BY <1>1 DEF Tally
<1>3. QED
  BY <1>1, <1>2 DEF TallyIs

\* Counting nothing more changes no counter.
LEMMA PlusZero ==
  ASSUME NEW T \in Tally
  PROVE  Plus(T, ZeroTally) = T /\ Plus(ZeroTally, T) = T
<1>1. PICK c, d, e, f, v : TallyIs(T, c, d, e, f, v)
  BY TallyFields
<1>2. PICK z, w, x : /\ z = [s \in Side |-> 0]
                     /\ w = [s \in Side |-> v[s] + z[s]]
                     /\ x = [s \in Side |-> z[s] + v[s]]
  OBVIOUS
<1>3. ZeroTally = [crossing_new_orders |-> 0, crossing_modify_orders |-> 0, match_events |-> 0,
                   traded_qty |-> 0, invalidations |-> z]
  BY <1>2 DEF ZeroTally
<1>4. T = [crossing_new_orders |-> c, crossing_modify_orders |-> d, match_events |-> e,
           traded_qty |-> f, invalidations |-> v]
  BY <1>1 DEF TallyIs
<1>5. Plus(T, ZeroTally) =
        [crossing_new_orders |-> c + 0, crossing_modify_orders |-> d + 0, match_events |-> e + 0,
         traded_qty |-> f + 0, invalidations |-> w]
  BY <1>2, <1>3, <1>4, PlusOf
<1>6. Plus(ZeroTally, T) =
        [crossing_new_orders |-> 0 + c, crossing_modify_orders |-> 0 + d, match_events |-> 0 + e,
         traded_qty |-> 0 + f, invalidations |-> x]
  <2>1. PICK Z : Z = ZeroTally
    OBVIOUS
  <2>2. x = [s \in Side |-> z[s] + v[s]]
    BY <1>2
  <2>3. Plus(Z, T) = [crossing_new_orders |-> 0 + c, crossing_modify_orders |-> 0 + d,
                      match_events |-> 0 + e, traded_qty |-> 0 + f, invalidations |-> x]
    BY <1>3, <1>4, <2>1, <2>2, PlusOf
  <2>4. QED
    BY <2>1, <2>3
<1>7. w = v /\ x = v
  BY <1>1, <1>2 DEF TallyIs
<1>8. c + 0 = c /\ d + 0 = d /\ e + 0 = e /\ f + 0 = f /\ 0 + c = c /\ 0 + d = d /\ 0 + e = e /\ 0 + f = f
  BY <1>1 DEF TallyIs
<1>9. QED
  BY <1>4, <1>5, <1>6, <1>7, <1>8

\* Counters add up in any grouping.
LEMMA PlusGroups ==
  ASSUME NEW T \in Tally, NEW U \in Tally, NEW V \in Tally
  PROVE  Plus(Plus(T, U), V) = Plus(T, Plus(U, V))
<1>1. PICK c, d, e, f, v : TallyIs(T, c, d, e, f, v)
  BY TallyFields
<1>2. PICK cc, dd, ee, ff, vv : TallyIs(U, cc, dd, ee, ff, vv)
  BY TallyFields
<1>3. PICK cd, de, ef, fg, vw : TallyIs(V, cd, de, ef, fg, vw)
  BY TallyFields
<1>4. PICK x, y, xx, yy : /\ x = [s \in Side |-> v[s] + vv[s]]
                          /\ y = [s \in Side |-> vv[s] + vw[s]]
                          /\ xx = [s \in Side |-> x[s] + vw[s]]
                          /\ yy = [s \in Side |-> v[s] + y[s]]
  OBVIOUS
<1>5. xx = yy
  <2>1. \A s \in Side : xx[s] = yy[s]
    BY <1>1, <1>2, <1>3, <1>4 DEF TallyIs
  <2>2. QED
    BY <1>4, <2>1
<1>6. /\ T = [crossing_new_orders |-> c, crossing_modify_orders |-> d, match_events |-> e,
              traded_qty |-> f, invalidations |-> v]
      /\ U = [crossing_new_orders |-> cc, crossing_modify_orders |-> dd, match_events |-> ee,
              traded_qty |-> ff, invalidations |-> vv]
      /\ V = [crossing_new_orders |-> cd, crossing_modify_orders |-> de, match_events |-> ef,
              traded_qty |-> fg, invalidations |-> vw]
  BY <1>1, <1>2, <1>3 DEF TallyIs
<1>7. Plus(T, U) = [crossing_new_orders |-> c + cc, crossing_modify_orders |-> d + dd,
                    match_events |-> e + ee, traded_qty |-> f + ff, invalidations |-> x]
  BY <1>4, <1>6, PlusOf
<1>8. Plus(U, V) = [crossing_new_orders |-> cc + cd, crossing_modify_orders |-> dd + de,
                    match_events |-> ee + ef, traded_qty |-> ff + fg, invalidations |-> y]
  BY <1>4, <1>6, PlusOf
<1>9. PICK A, B : A = Plus(T, U) /\ B = Plus(U, V)
  OBVIOUS
<1>10. Plus(A, V) =
         [crossing_new_orders |-> (c + cc) + cd, crossing_modify_orders |-> (d + dd) + de,
          match_events |-> (e + ee) + ef, traded_qty |-> (f + ff) + fg, invalidations |-> xx]
  BY <1>4, <1>6, <1>7, <1>9, PlusOf
<1>11. Plus(T, B) =
         [crossing_new_orders |-> c + (cc + cd), crossing_modify_orders |-> d + (dd + de),
          match_events |-> e + (ee + ef), traded_qty |-> f + (ff + fg), invalidations |-> yy]
  BY <1>4, <1>6, <1>8, <1>9, PlusOf
<1>12. /\ (c + cc) + cd = c + (cc + cd) /\ (d + dd) + de = d + (dd + de)
       /\ (e + ee) + ef = e + (ee + ef) /\ (f + ff) + fg = f + (ff + fg)
  BY <1>1, <1>2, <1>3 DEF TallyIs
<1>13. QED
  BY <1>5, <1>9, <1>10, <1>11, <1>12

\* It does not matter when an invalidation is counted.
LEMMA PlusInvalidated ==
  ASSUME NEW T \in Tally, NEW U \in Tally, NEW s \in Side
  PROVE  Plus(Invalidated(T, s), U) = Invalidated(Plus(T, U), s)
<1>1. PICK c, d, e, f, v : TallyIs(T, c, d, e, f, v)
  BY TallyFields
<1>2. PICK cc, dd, ee, ff, vv : TallyIs(U, cc, dd, ee, ff, vv)
  BY TallyFields
<1>3. PICK w, x, y : /\ w = [v EXCEPT ![s] = @ + 1]
                     /\ x = [u \in Side |-> v[u] + vv[u]]
                     /\ y = [u \in Side |-> w[u] + vv[u]]
  OBVIOUS
<1>4. [x EXCEPT ![s] = @ + 1] = y
  <2>1. \A u \in Side : y[u] = IF u = s THEN x[u] + 1 ELSE x[u]
    BY <1>1, <1>2, <1>3 DEF TallyIs
  <2>2. QED
    BY <1>3, <2>1
<1>5. /\ T = [crossing_new_orders |-> c, crossing_modify_orders |-> d, match_events |-> e,
              traded_qty |-> f, invalidations |-> v]
      /\ U = [crossing_new_orders |-> cc, crossing_modify_orders |-> dd, match_events |-> ee,
              traded_qty |-> ff, invalidations |-> vv]
  BY <1>1, <1>2 DEF TallyIs
<1>6. Plus(T, U) = [crossing_new_orders |-> c + cc, crossing_modify_orders |-> d + dd,
                    match_events |-> e + ee, traded_qty |-> f + ff, invalidations |-> x]
  BY <1>3, <1>5, PlusOf
<1>7. PICK A, B : A = Invalidated(T, s) /\ B = Plus(T, U)
  OBVIOUS
<1>8. A = [crossing_new_orders |-> c, crossing_modify_orders |-> d, match_events |-> e,
           traded_qty |-> f, invalidations |-> w]
  <2>1. A = [T EXCEPT !.invalidations = w]
    BY <1>3, <1>5, <1>7 DEF Invalidated
  <2>2. QED
    BY <1>5, <2>1
<1>9. Plus(A, U) = [crossing_new_orders |-> c + cc, crossing_modify_orders |-> d + dd,
                    match_events |-> e + ee, traded_qty |-> f + ff, invalidations |-> y]
  <2>1. y = [u \in Side |-> w[u] + vv[u]]
    BY <1>3
  <2>2. QED
    BY <1>5, <1>8, <2>1, PlusOf
<1>10. Invalidated(B, s) = [crossing_new_orders |-> c + cc, crossing_modify_orders |-> d + dd,
                            match_events |-> e + ee, traded_qty |-> f + ff, invalidations |-> y]
  <2>1. Invalidated(B, s) = [B EXCEPT !.invalidations = y]
    BY <1>4, <1>6, <1>7 DEF Invalidated
  <2>2. QED
    BY <1>6, <1>7, <2>1
<1>11. QED
  BY <1>7, <1>9, <1>10

\* There is nothing to trade: nothing is left to buy or sell, or nobody is within the limit.
NoTrade(bk, side, limit, qty) ==
  qty = 0 \/ \A p \in Price : bk[Opposite(side)][p] # <<>> => ~Crosses(side, limit, p)

\* An order with nothing to trade takes nothing from any resting order.
LEMMA NoTradeFills ==
  ASSUME NEW bk \in AnyBook, NEW side \in Side, NEW limit, NEW qty \in Nat,
         NoTrade(bk, side, limit, qty), NEW s, s = Opposite(side), NEW p \in Price,
         NEW i \in DOMAIN bk[s][p]
  PROVE  FillOf(bk, side, limit, qty, p, i) = 0
<1>1. s \in Side
  BY SideFacts
<1>2. bk[s][p] # <<>>
  BY <1>1, QueueFacts DEF AnyBook
<1>3. FillOf(bk, side, limit, qty, p, i) \in Nat
      /\ (FillOf(bk, side, limit, qty, p, i) > 0 <=> Crosses(side, limit, p) /\ qty > Ahead(bk, s, p, i))
  BY FillFacts
<1>4. Ahead(bk, s, p, i) \in Nat
  BY <1>1, AheadFacts
<1>5. QED
  BY <1>2, <1>3, <1>4 DEF NoTrade

\* A match with nothing to trade changes and counts nothing.
LEMMA NoTradeKeeps ==
  ASSUME NEW bk \in AnyBook, NEW side \in Side, NEW limit, NEW qty \in Nat,
         NoTrade(bk, side, limit, qty)
  PROVE  /\ MatchedBook(bk, side, limit, qty) = bk
         /\ Filled(bk, side, limit, qty) = 0
         /\ MatchTally(bk, side, limit, qty) = ZeroTally
<1>1. PICK s \in Side : s = Opposite(side) /\ s # side
  BY SideFacts
<1>2. PICK mb \in AnyBook : mb = MatchedBook(bk, side, limit, qty) /\ mb[side] = bk[side]
  BY MatchedFacts
<1>3. ASSUME NEW p \in Price PROVE mb[s][p] = bk[s][p]
  <2>1. PICK q \in Seq(Order), r \in Seq(Order) : q = bk[s][p] /\ r = mb[s][p]
    BY <1>1 DEF AnyBook
  <2>2. PICK fill : fill = MatchFill(bk, side, limit, qty, p)
    OBVIOUS
  <2>3. PICK m : Survivors(r, q, fill, m)
    BY <1>1, <1>2, <2>1, <2>2, MatchedLevel
  <2>4. \A i \in DOMAIN q : fill[i] = 0
    <3>1. fill = [i \in DOMAIN q |-> FillOf(bk, side, limit, qty, p, i)]
      BY <1>1, <2>1, <2>2 DEF MatchFill
    <3>2. \A i \in DOMAIN q : FillOf(bk, side, limit, qty, p, i) = 0
      BY <1>1, <2>1, NoTradeFills
    <3>3. QED
      BY <3>1, <3>2
  <2>5. PICK n : n = [i \in DOMAIN q |-> i]
    OBVIOUS
  <2>6. Survivors(q, q, fill, n)
    <3>1. \A i \in DOMAIN q : n[i] = i /\ q[i].qty \in Nat /\ q[i].qty > 0 /\ fill[i] = 0
      BY <2>4, <2>5, WeightsFacts
    <3>2. QED
      BY <3>1 DEF Survivors
  <2>7. q = r
    BY <2>3, <2>6, SurvivorsUnique
  <2>8. QED
    BY <2>1, <2>7
<1>4. mb = bk
  <2>1. mb[s] = bk[s]
    BY <1>1, <1>2, <1>3 DEF AnyBook
  <2>2. \A u \in Side : u = s \/ u = side
    BY <1>1 DEF Side
  <2>3. \A u \in Side : mb[u] = bk[u]
    BY <1>2, <2>1, <2>2
  <2>4. QED
    BY <2>3 DEF AnyBook
<1>5. Filled(bk, side, limit, qty) = 0
  <2>1. PICK P \in SUBSET Price : P = {p \in Price : Crosses(side, limit, p)}
    OBVIOUS
  <2>2. Filled(bk, side, limit, qty) = MinOf(qty, Liquidity(bk, s, P))
    BY <1>1, <2>1 DEF Filled
  <2>3. Liquidity(bk, s, P) \in Nat
    BY <1>1, LiquidityFacts
  <2>4. CASE qty = 0
    BY <2>2, <2>3, <2>4 DEF MinOf
  <2>5. CASE qty # 0
    <3>1. PICK f : f = [p \in P |-> 0]
      OBVIOUS
    <3>2. \A p \in P : f[p] = QueueQty(bk[s][p])
      <4> SUFFICES ASSUME NEW p \in P PROVE f[p] = QueueQty(bk[s][p])
        OBVIOUS
      <4>1. bk[s][p] = <<>>
        BY <1>1, <2>1, <2>5 DEF NoTrade
      <4>2. QED
        BY <3>1, <4>1, QueueQtyFacts
    <3>3. Liquidity(bk, s, P) = SumOf(f, P)
      BY <3>2, LiquidityIs
    <3>4. IsFiniteSet(P) /\ \A p \in P : f[p] = 0
      BY <3>1, PriceFinite, FS_Subset
    <3>5. SumOf(f, P) = 0
      BY <3>4, SumOfZeros
    <3>6. QED
      BY <2>2, <3>3, <3>5 DEF MinOf
  <2>6. QED
    BY <2>4, <2>5
<1>6. PICK c \in [Price -> Nat] : c = Hits(bk, side, limit, qty)
  BY MatchTallyIs
<1>7. SumOf(c, Price) = 0
  <2>1. ASSUME NEW p \in Price PROVE c[p] = 0
    <3>1. c[p] = Cardinality({i \in DOMAIN bk[s][p] : FillOf(bk, side, limit, qty, p, i) > 0})
      BY <1>1, <1>6 DEF Hits
    <3>2. \A i \in DOMAIN bk[s][p] : FillOf(bk, side, limit, qty, p, i) = 0
      BY <1>1, NoTradeFills
    <3>3. {i \in DOMAIN bk[s][p] : FillOf(bk, side, limit, qty, p, i) > 0} = {}
      BY <3>2
    <3>4. QED
      BY <3>1, <3>3, FS_EmptySet
  <2>2. QED
    BY <2>1, PriceFinite, SumOfZeros
<1>8. Cardinality(Swept(bk, side, limit, qty)) = 0
  <2>1. Swept(bk, side, limit, qty) = {}
    BY <1>1, <1>2, <1>4 DEF Swept, Active
  <2>2. QED
    BY <2>1, FS_EmptySet
<1>9. MatchTally(bk, side, limit, qty) = TallyOf(s, 0, 0, 0)
  <2>1. MatchTally(bk, side, limit, qty) =
          TallyOf(s, SumOf(Hits(bk, side, limit, qty), Price), Filled(bk, side, limit, qty),
                  Cardinality(Swept(bk, side, limit, qty)))
    BY <1>1, MatchTallyIs
  <2>2. QED
    BY <1>5, <1>6, <1>7, <1>8, <2>1
<1>10. TallyOf(s, 0, 0, 0) = ZeroTally
  <2>1. PICK i, j : i = [u \in Side |-> IF u = s THEN 0 ELSE 0] /\ j = [u \in Side |-> 0]
    OBVIOUS
  <2>2. i = j
    BY <2>1
  <2>3. PICK x : x = 0
    OBVIOUS
  <2>4. TallyOf(s, x, x, x) =
          [crossing_new_orders |-> 0, crossing_modify_orders |-> 0, match_events |-> x,
           traded_qty |-> x, invalidations |-> [u \in Side |-> IF u = s THEN x ELSE 0]]
    BY <1>1, TallyOfIs
  <2>5. QED
    BY <2>1, <2>2, <2>3, <2>4 DEF ZeroTally
<1>11. QED
  BY <1>2, <1>4, <1>5, <1>9, <1>10

\* With nothing to trade the whole order comes to rest, if there is anything left of it.
LEMMA NoTradeRests ==
  ASSUME NEW bk \in AnyBook, NEW side \in Side, NEW limit, NEW qty \in Nat,
         NoTrade(bk, side, limit, qty), NEW id, NEW o, o = [id |-> id, qty |-> qty]
  PROVE  /\ qty = 0 => AfterMatch(bk, side, id, limit, qty) = bk
         /\ qty # 0 => AfterMatch(bk, side, id, limit, qty) = Rested(bk, side, limit, o)
<1>1. MatchedBook(bk, side, limit, qty) = bk /\ Filled(bk, side, limit, qty) = 0
  BY NoTradeKeeps
<1>2. qty - 0 = qty
  OBVIOUS
<1>3. QED
  BY <1>1, <1>2 DEF AfterMatch, Rested

-----------------------------------------------------------------------------
(* Erasing an order through its reference, seen by the contract. *)

\* Counters add up in either order.
LEMMA PlusSwaps ==
  ASSUME NEW T \in Tally, NEW U \in Tally
  PROVE  Plus(T, U) = Plus(U, T)
<1>1. PICK c, d, e, f, v : TallyIs(T, c, d, e, f, v)
  BY TallyFields
<1>2. PICK cc, dd, ee, ff, vv : TallyIs(U, cc, dd, ee, ff, vv)
  BY TallyFields
<1>3. PICK x, y : x = [s \in Side |-> v[s] + vv[s]] /\ y = [s \in Side |-> vv[s] + v[s]]
  OBVIOUS
<1>4. /\ T = [crossing_new_orders |-> c, crossing_modify_orders |-> d, match_events |-> e,
              traded_qty |-> f, invalidations |-> v]
      /\ U = [crossing_new_orders |-> cc, crossing_modify_orders |-> dd, match_events |-> ee,
              traded_qty |-> ff, invalidations |-> vv]
  BY <1>1, <1>2 DEF TallyIs
<1>5. Plus(T, U) = [crossing_new_orders |-> c + cc, crossing_modify_orders |-> d + dd,
                    match_events |-> e + ee, traded_qty |-> f + ff, invalidations |-> x]
  BY <1>3, <1>4, PlusOf
<1>6. Plus(U, T) = [crossing_new_orders |-> cc + c, crossing_modify_orders |-> dd + d,
                    match_events |-> ee + e, traded_qty |-> ff + f, invalidations |-> y]
  BY <1>3, <1>4, PlusOf
<1>7. x = y
  <2>1. \A s \in Side : x[s] = y[s]
    BY <1>1, <1>2, <1>3 DEF TallyIs
  <2>2. QED
    BY <1>3, <2>1
<1>8. c + cc = cc + c /\ d + dd = dd + d /\ e + ee = ee + e /\ f + ff = ff + f
  BY <1>1, <1>2 DEF TallyIs
<1>9. QED
  BY <1>5, <1>6, <1>7, <1>8

\* Unlinking an order leaves the queue that erasing it leaves.
LEMMA UnlinkedSurvives ==
  ASSUME NEW q \in Seq(Order), NEW id, Holds(q, id), DistinctIds(q),
         NEW u, u = Unlinked(q, id), NEW fill, fill = ErasedFill(q, id)
  PROVE  u \in Seq(Order) /\ \E m : Survivors(u, q, fill, m)
<1>1. PICK n \in 1 .. Len(q) : n = NodeOf(q, id) /\ q[n].id = id
  BY NodeOfFacts, QueueFacts
<1>2. DOMAIN q = 1 .. Len(q) /\ Len(q) \in Nat
  BY QueueFacts
<1>3. /\ u \in Seq(Order) /\ Len(u) = Len(q) - 1
      /\ \A j \in 1 .. Len(q) - 1 : u[j] = IF j < n THEN q[j] ELSE q[j + 1]
  BY <1>1, RemoveAtFacts DEF Unlinked
<1>4. DOMAIN u = 1 .. Len(q) - 1
  BY <1>3, QueueFacts
<1>5. \A i \in DOMAIN q : /\ q[i].qty \in Nat /\ q[i].qty > 0
                          /\ i = n => fill[i] = q[i].qty
                          /\ i # n => fill[i] = 0
  <2>1. \A i \in DOMAIN q : q[i].qty \in Nat /\ q[i].qty > 0
    BY WeightsFacts
  <2>2. \A i \in DOMAIN q : q[i].id = id => i = n
    BY <1>1, <1>2 DEF DistinctIds
  <2>3. QED
    BY <1>1, <1>2, <2>1, <2>2 DEF ErasedFill
<1>6. PICK m : m = [k \in 1 .. Len(q) - 1 |-> IF k < n THEN k ELSE k + 1]
  OBVIOUS
<1>7. ASSUME NEW k \in DOMAIN u
      PROVE  /\ m[k] \in DOMAIN q /\ m[k] # n /\ u[k] = q[m[k]]
             /\ m[k] = IF k < n THEN k ELSE k + 1
  BY <1>1, <1>2, <1>3, <1>4, <1>6
<1>8. \A j, k \in DOMAIN u : j < k => m[j] < m[k]
  BY <1>1, <1>2, <1>4, <1>6
<1>9. ASSUME NEW i \in DOMAIN q, i # n PROVE \E k \in DOMAIN u : m[k] = i
  <2>1. CASE i < n
    <3>1. i \in DOMAIN u /\ m[i] = i
      BY <1>1, <1>2, <1>4, <1>6, <2>1
    <3>2. QED
      BY <3>1
  <2>2. CASE i > n
    <3>1. i - 1 \in DOMAIN u /\ m[i - 1] = i
      BY <1>1, <1>2, <1>4, <1>6, <2>2
    <3>2. QED
      BY <3>1
  <2>3. QED
    BY <1>1, <1>2, <1>9, <2>1, <2>2
<1>10. \A k \in DOMAIN u : /\ m[k] \in DOMAIN q /\ u[k].id = q[m[k]].id
                           /\ u[k].qty = q[m[k]].qty - fill[m[k]] /\ fill[m[k]] < q[m[k]].qty
  <2> SUFFICES ASSUME NEW k \in DOMAIN u
               PROVE  /\ m[k] \in DOMAIN q /\ u[k].id = q[m[k]].id
                      /\ u[k].qty = q[m[k]].qty - fill[m[k]] /\ fill[m[k]] < q[m[k]].qty
    OBVIOUS
  <2>1. PICK i \in DOMAIN q : i = m[k] /\ i # n /\ u[k] = q[i]
    BY <1>7
  <2>2. fill[i] = 0 /\ q[i].qty \in Nat /\ q[i].qty > 0
    BY <1>5, <2>1
  <2>3. QED
    BY <2>1, <2>2
<1>11. \A i \in DOMAIN q : fill[i] < q[i].qty => i # n
  BY <1>5
<1>12. Survivors(u, q, fill, m)
  BY <1>8, <1>9, <1>10, <1>11 DEF Survivors
<1>13. QED
  BY <1>3, <1>12

\* order_refs_ knows which orders the book has, and where they are.
LEMMA RefsAreHeld ==
  ASSUME BaseInv, NEW id \in OrderId
  PROVE  /\ Has(orders, id) <=> refs[id] # None
         /\ \A s \in Side, p \in Price : RefIs(id, s, p) => SideOf(orders, id) = s
<1>1. \A s \in Side, p \in Price : id \in IdsAt(orders, s, p) <=> Holds(orders[s][p], id)
  BY DEF IdsAt, Holds
<1>2. \A s \in Side, p \in Price : Holds(orders[s][p], id) => RefIs(id, s, p)
  BY DEF BaseInv, QueuesSound, RefIs
<1>3. ASSUME NEW s \in Side, NEW p \in Price, RefIs(id, s, p)
      PROVE  /\ Holds(orders[s][p], id) /\ refs[id] # None /\ refs[id].side = s
             /\ \A x \in Side, y \in Price : id \in IdsAt(orders, x, y) => x = s
  <2>1. Holds(orders[s][p], id) /\ refs[id] # None /\ refs[id].side = s
    BY <1>3, RefFacts
  <2>2. ASSUME NEW x \in Side, NEW y \in Price, id \in IdsAt(orders, x, y) PROVE x = s
    <3>1. RefIs(id, x, y)
      BY <1>1, <1>2, <2>2
    <3>2. refs[id].side = x
      BY <3>1, RefFacts
    <3>3. QED
      BY <2>1, <3>2
  <2>3. QED
    BY <2>1, <2>2
<1>4. Has(orders, id) <=> refs[id] # None
  <2>1. ASSUME Has(orders, id) PROVE refs[id] # None
    <3>1. PICK s \in Side, p \in Price : id \in IdsAt(orders, s, p)
      BY <2>1 DEF Has
    <3>2. QED
      BY <1>1, <1>2, <1>3, <3>1
  <2>2. ASSUME refs[id] # None PROVE Has(orders, id)
    <3>1. PICK s \in Side, p \in Price : RefIs(id, s, p)
      BY <2>2, RefExists
    <3>2. QED
      BY <1>1, <1>3, <3>1 DEF Has
  <2>3. QED
    BY <2>1, <2>2
<1>5. ASSUME NEW s \in Side, NEW p \in Price, RefIs(id, s, p)
      PROVE  SideOf(orders, id) = s
  <2> DEFINE In(x) == \E y \in Price : id \in IdsAt(orders, x, y)
  <2>1. In(s) /\ \A x \in Side : In(x) => x = s
    BY <1>1, <1>3, <1>5
  <2>2. SideOf(orders, id) = CHOOSE x \in Side : In(x)
    BY DEF SideOf
  <2> HIDE DEF In
  <2>3. QED
    BY <2>1, <2>2
<1>6. QED
  BY <1>4, <1>5

\* Unlinking the order that a reference names is erasing it from the book.
LEMMA UnlinkedErases ==
  ASSUME BaseInv, NEW id \in OrderId, NEW s \in Side, NEW p \in Price, RefIs(id, s, p),
         NEW u, u = Unlinked(orders[s][p], id), NEW nb, nb = [orders EXCEPT ![s][p] = u]
  PROVE  nb = Erased(orders, id)
<1>1. orders \in AnyBook
  BY DEF BaseInv, BaseTypeOK, AnyBook
<1>2. PICK eb \in AnyBook : eb = Erased(orders, id)
  BY <1>1, ErasedBook
<1>3. ASSUME NEW x \in Side, NEW y \in Price PROVE eb[x][y] = IF x = s /\ y = p THEN u ELSE orders[x][y]
  <2>1. PICK q \in Seq(Order), r \in Seq(Order) : q = orders[x][y] /\ r = eb[x][y]
    BY <1>1, <1>2 DEF AnyBook
  <2>2. PICK fill : fill = ErasedFill(q, id)
    OBVIOUS
  <2>3. PICK m : Survivors(r, q, fill, m)
    BY <1>1, <1>2, <2>1, <2>2, ErasedLevel
  <2>4. CASE x = s /\ y = p
    <3>1. DistinctIds(q) /\ Holds(q, id) /\ u = Unlinked(q, id)
      BY <2>1, <2>4, RefFacts
    <3>2. PICK n : u \in Seq(Order) /\ Survivors(u, q, fill, n)
      BY <2>2, <3>1, UnlinkedSurvives
    <3>3. r = u
      BY <2>3, <3>2, SurvivorsUnique
    <3>4. QED
      BY <2>1, <2>4, <3>3
  <2>5. CASE ~(x = s /\ y = p)
    <3>1. ~Holds(q, id)
      <4>1. SUFFICES ASSUME Holds(q, id) PROVE FALSE
        OBVIOUS
      <4>2. RefIs(id, x, y)
        BY <2>1, <4>1 DEF BaseInv, QueuesSound, RefIs
      <4>3. [side |-> x, price |-> y].side = [side |-> s, price |-> p].side
            /\ [side |-> x, price |-> y].price = [side |-> s, price |-> p].price
        BY <4>2 DEF RefIs
      <4>4. QED
        BY <2>5, <4>3
    <3>2. PICK n : n = [i \in DOMAIN q |-> i]
      OBVIOUS
    <3>3. Survivors(q, q, fill, n)
      <4>1. \A i \in DOMAIN q : n[i] = i /\ q[i].qty \in Nat /\ q[i].qty > 0 /\ fill[i] = 0
        BY <2>2, <3>1, <3>2, WeightsFacts DEF ErasedFill, Holds
      <4>2. QED
        BY <4>1 DEF Survivors
    <3>4. r = q
      BY <2>3, <3>3, SurvivorsUnique
    <3>5. QED
      BY <2>1, <2>5, <3>4
  <2>6. QED
    BY <2>4, <2>5
<1>4. nb = eb
  <2>1. \A x \in Side : nb[x] = eb[x]
    <3>1. ASSUME NEW x \in Side PROVE nb[x] = eb[x]
      <4>1. \A y \in Price : nb[x][y] = eb[x][y]
        BY <1>1, <1>3 DEF AnyBook
      <4>2. nb[x] = [y \in Price |-> nb[x][y]] /\ eb[x] = [y \in Price |-> eb[x][y]]
        BY <1>1, <1>2 DEF AnyBook
      <4>3. QED
        BY <4>1, <4>2
    <3>2. QED
      BY <3>1
  <2>2. nb = [x \in Side |-> nb[x]] /\ eb = [x \in Side |-> eb[x]]
    BY <1>1, <1>2 DEF AnyBook
  <2>3. QED
    BY <2>1, <2>2
<1>5. QED
  BY <1>2, <1>4

\* Erasing an order that is not there counts nothing.
LEMMA EraseTallyAbsent ==
  ASSUME NEW bk, NEW id, ~Has(bk, id)
  PROVE  EraseTally(bk, id) = ZeroTally
<1> DEFINE LastOne(s) == Active(bk, s) # {} /\ IdsAt(bk, s, BestOf(s, Active(bk, s))) = {id}
<1>1. ASSUME NEW s \in Side, LastOne(s) PROVE FALSE
  <2>1. PICK P \in SUBSET Price : P = Active(bk, s) /\ P # {}
    BY <1>1 DEF Active
  <2>2. BestOf(s, P) \in Price
    BY <2>1, BestOfExists
  <2>3. id \in IdsAt(bk, s, BestOf(s, P))
    BY <1>1, <2>1
  <2>4. QED
    BY <2>2, <2>3 DEF Has
<1>2. PICK i, j : i = [s \in Side |-> IF LastOne(s) THEN 1 ELSE 0] /\ j = [s \in Side |-> 0]
  OBVIOUS
<1>3. EraseTally(bk, id) = [ZeroTally EXCEPT !.invalidations = i]
  BY <1>2 DEF EraseTally
<1> HIDE DEF LastOne
<1>4. i = j
  BY <1>1, <1>2
<1>5. QED
  BY <1>2, <1>3, <1>4 DEF ZeroTally

\* Erasing an order invalidates the best level when it was the last order of that level.
LEMMA EraseCounts ==
  ASSUME BaseInv, pc # "consume", NEW id \in OrderId, NEW s \in Side, NEW p \in Price,
         RefIs(id, s, p), NEW u, u = Unlinked(orders[s][p], id)
  PROVE  /\ u = <<>> /\ p = BestOf(s, Standing(s)) =>
              EraseTally(orders, id) = Invalidated(ZeroTally, s)
         /\ ~(u = <<>> /\ p = BestOf(s, Standing(s))) => EraseTally(orders, id) = ZeroTally
<1> DEFINE LastOne(r) == Active(orders, r) # {} /\ IdsAt(orders, r, BestOf(r, Active(orders, r))) = {id}
<1>1. \A r \in Side : Active(orders, r) = Standing(r) /\ Standing(r) \in SUBSET Price
  BY DEF Active, Standing, Consuming
<1>2. PICK q \in Seq(Order) : /\ q = orders[s][p] /\ Holds(q, id) /\ DistinctIds(q)
                              /\ p \in Standing(s)
  BY RefFacts
<1>3. u \in Seq(Order) /\ \A x : Holds(u, x) <=> Holds(q, x) /\ x # id
  BY <1>2, UnlinkedFacts
<1>4. ASSUME NEW r \in Side, LastOne(r) PROVE r = s /\ u = <<>> /\ p = BestOf(s, Standing(s))
  <2>1. PICK b \in Price : b = BestOf(r, Standing(r)) /\ IdsAt(orders, r, b) = {id}
    <3>1. Standing(r) # {} /\ IdsAt(orders, r, BestOf(r, Standing(r))) = {id}
      BY <1>1, <1>4
    <3>2. BestOf(r, Standing(r)) \in Price
      BY <1>1, <3>1, BestOfExists
    <3>3. QED
      BY <3>1, <3>2
  <2>2. \A x : x \in IdsAt(orders, r, b) <=> Holds(orders[r][b], x)
    BY DEF IdsAt, Holds
  <2>3. RefIs(id, r, b)
    BY <2>1, <2>2 DEF BaseInv, QueuesSound, RefIs
  <2>4. r = s /\ b = p
    <3>1. refs[id].side = r /\ refs[id].price = b
      BY <2>3, RefFacts
    <3>2. refs[id].side = s /\ refs[id].price = p
      BY RefFacts
    <3>3. QED
      BY <3>1, <3>2
  <2>5. \A x : Holds(q, x) <=> x = id
    BY <1>2, <2>1, <2>2, <2>4
  <2>6. \A x : ~Holds(u, x)
    BY <1>3, <2>5
  <2>7. u = <<>>
    <3>1. Len(u) \in Nat /\ DOMAIN u = 1 .. Len(u) /\ (u = <<>> <=> Len(u) = 0)
      BY <1>3, QueueFacts
    <3>2. DOMAIN u = {}
      BY <2>6 DEF Holds
    <3>3. QED
      BY <3>1, <3>2
  <2>8. QED
    BY <2>1, <2>4, <2>7
<1>5. ASSUME u = <<>>, p = BestOf(s, Standing(s)) PROVE LastOne(s)
  <2>1. \A x : x \in IdsAt(orders, s, p) <=> Holds(q, x)
    BY <1>2 DEF IdsAt, Holds
  <2>2. \A x : ~Holds(u, x)
    BY <1>5 DEF Holds
  <2>3. IdsAt(orders, s, p) = {id}
    BY <1>2, <1>3, <2>1, <2>2
  <2>4. QED
    BY <1>1, <1>2, <1>5, <2>3
<1>6. PICK i, j, z : /\ i = [r \in Side |-> IF LastOne(r) THEN 1 ELSE 0]
                     /\ j = [r \in Side |-> 0]
                     /\ z = [j EXCEPT ![s] = @ + 1]
  OBVIOUS
<1>7. EraseTally(orders, id) = [ZeroTally EXCEPT !.invalidations = i]
  BY <1>6 DEF EraseTally
<1> HIDE DEF LastOne
<1>8. ASSUME u = <<>> /\ p = BestOf(s, Standing(s))
      PROVE  EraseTally(orders, id) = Invalidated(ZeroTally, s)
  <2>1. i = z
    <3>1. \A r \in Side : i[r] = z[r]
      BY <1>4, <1>5, <1>6, <1>8
    <3>2. QED
      BY <1>6, <3>1
  <2>2. [ZeroTally EXCEPT !.invalidations[s] = @ + 1] = [ZeroTally EXCEPT !.invalidations = z]
    BY <1>6 DEF ZeroTally
  <2>3. QED
    BY <1>7, <2>1, <2>2 DEF Invalidated
<1>9. ASSUME ~(u = <<>> /\ p = BestOf(s, Standing(s)))
      PROVE  EraseTally(orders, id) = ZeroTally
  <2>1. i = j
    BY <1>4, <1>6, <1>9
  <2>2. QED
    BY <1>6, <1>7, <2>1 DEF ZeroTally
<1>10. QED
  BY <1>8, <1>9

\* The counters of an erasing step.
LEMMA EraseAdds ==
  ASSUME BaseInv, pc # "consume", NEW id \in OrderId, NEW s \in Side, NEW p \in Price,
         RefIs(id, s, p), NEW u, u = Unlinked(orders[s][p], id), NEW T \in Tally, NEW t,
         u = <<>> /\ p = BestOf(s, Standing(s)) => t = Invalidated(T, s),
         ~(u = <<>> /\ p = BestOf(s, Standing(s))) => t = T
  PROVE  t = Plus(T, EraseTally(orders, id))
<1>1. ZeroTally \in Tally /\ Plus(T, ZeroTally) = T /\ Plus(ZeroTally, T) = T
  BY ZeroQuiet, PlusZero DEF Quiet
<1>2. CASE u = <<>> /\ p = BestOf(s, Standing(s))
  <2>1. PICK U \in Tally : U = Invalidated(ZeroTally, s) /\ EraseTally(orders, id) = U
    BY <1>1, <1>2, TallyFacts, EraseCounts
  <2>2. Plus(T, U) = Plus(U, T)
    BY PlusSwaps
  <2>3. Plus(U, T) = Invalidated(T, s)
    BY <1>1, <2>1, PlusInvalidated
  <2>4. QED
    BY <1>2, <2>1, <2>2, <2>3
<1>3. CASE ~(u = <<>> /\ p = BestOf(s, Standing(s)))
  BY <1>1, <1>3, EraseCounts
<1>4. QED
  BY <1>2, <1>3

-----------------------------------------------------------------------------
(* The refinement of L3Book, action by action. *)

\* The operators that the contract defines its steps with are those of L3BookOps.
LEMMA ContractOperators ==
  /\ Contract!Side = Side /\ Contract!Price = Price /\ Contract!Qty = Qty
  /\ Contract!ZeroTally = ZeroTally
  /\ \A t, u : Contract!Plus(t, u) = Plus(t, u)
  /\ \A bk, id : /\ Contract!Erased(bk, id) = Erased(bk, id)
                 /\ Contract!Has(bk, id) <=> Has(bk, id)
                 /\ Contract!SideOf(bk, id) = SideOf(bk, id)
                 /\ Contract!EraseTally(bk, id) = EraseTally(bk, id)
<1>1. Contract!Side = Side /\ Contract!Price = Price /\ Contract!Qty = Qty
  BY DEF Contract!Side, Contract!Price, Contract!Qty, Side, Price, Qty
<1>2. Contract!ZeroTally = ZeroTally
  BY DEF Contract!ZeroTally, Contract!Side, ZeroTally, Side
<1>3. \A t, u : Contract!Plus(t, u) = Plus(t, u)
  BY DEF Contract!Plus, Contract!With, Contract!Side, Plus, With, Side
<1>4. \A bk, id : Contract!Erased(bk, id) = Erased(bk, id)
  BY DEF Contract!Erased, Contract!Kept, Contract!Cardinality, Contract!Side, Contract!Price,
         Erased, Kept, Cardinality, Side, Price
<1>5. \A bk, id : Contract!Has(bk, id) <=> Has(bk, id)
  BY DEF Contract!Has, Contract!IdsAt, Contract!Side, Contract!Price, Has, IdsAt, Side, Price
<1>6. \A bk, id : Contract!SideOf(bk, id) = SideOf(bk, id)
  BY DEF Contract!SideOf, Contract!IdsAt, Contract!Side, Contract!Price, SideOf, IdsAt, Side, Price
<1>7. \A bk, id : Contract!EraseTally(bk, id) = EraseTally(bk, id)
  BY DEF Contract!EraseTally, Contract!ZeroTally, Contract!Active, Contract!IdsAt,
         Contract!BestOf, Contract!Better, Contract!Side, Contract!Price,
         EraseTally, ZeroTally, Active, IdsAt, BestOf, Better, Side, Price
<1>8. QED
  BY <1>1, <1>2, <1>3, <1>4, <1>5, <1>6, <1>7

\* The same holds of its matching.
LEMMA ContractMatching ==
  ASSUME NEW bk, NEW side, NEW id, NEW limit, NEW qty, NEW isNew
  PROVE  /\ Contract!AfterMatch(bk, side, id, limit, qty) = AfterMatch(bk, side, id, limit, qty)
         /\ Contract!MatchTally(bk, side, limit, qty) = MatchTally(bk, side, limit, qty)
         /\ Contract!CrossTally(bk, side, limit, isNew) = CrossTally(bk, side, limit, isNew)
<1>1. Contract!Filled(bk, side, limit, qty) = Filled(bk, side, limit, qty)
  BY DEF Contract!Filled, Contract!Liquidity, Contract!QueueQty, Contract!Opposite,
         Contract!Crosses, Contract!Better, Contract!MinOf, Contract!Price, Filled, Liquidity,
         QueueQty, Opposite, Crosses, Better, MinOf, Price, Contract!MapThenSumSet,
         Contract!MapThenFoldSet, MapThenSumSet, MapThenFoldSet
<1>2. Contract!MatchedBook(bk, side, limit, qty) = MatchedBook(bk, side, limit, qty)
  BY DEF Contract!MatchedBook, Contract!Kept, Kept, Contract!Cardinality, Cardinality,
         Contract!FillOf, Contract!Ahead, Contract!Liquidity, Contract!QueueQty,
         Contract!Opposite, Contract!Crosses, Contract!Better, Contract!MinOf, Contract!Price,
         MatchedBook, FillOf, Ahead, Liquidity, QueueQty, Opposite, Crosses, Better, MinOf, Price,
         Contract!MapThenSumSet, Contract!MapThenFoldSet, MapThenSumSet, MapThenFoldSet
<1>3. Contract!AfterMatch(bk, side, id, limit, qty) = AfterMatch(bk, side, id, limit, qty)
  BY <1>1, <1>2 DEF Contract!AfterMatch, AfterMatch
<1>4. Contract!CrossTally(bk, side, limit, isNew) = CrossTally(bk, side, limit, isNew)
  BY DEF Contract!CrossTally, Contract!Best, Contract!Active, Contract!BestOf, Contract!QueueQty,
         Contract!Opposite, Contract!Crosses, Contract!Better, Contract!Price, Contract!Side,
         Contract!ZeroTally, CrossTally, Best, Active, BestOf, QueueQty, Opposite, Crosses,
         Better, Price, Side, ZeroTally, Contract!MapThenSumSet, Contract!MapThenFoldSet,
         MapThenSumSet, MapThenFoldSet
<1>5. Contract!MatchTally(bk, side, limit, qty) = MatchTally(bk, side, limit, qty)
  BY DEF Contract!MatchTally, Contract!With, Contract!Active, Contract!ZeroTally, Contract!Side,
         Contract!Filled, Contract!Cardinality,
         MatchTally, With, Active, ZeroTally, Side, Filled, Cardinality,
         Contract!MatchedBook, Contract!Kept, Kept,
         Contract!FillOf, Contract!Ahead, Contract!Liquidity, Contract!QueueQty,
         Contract!Opposite, Contract!Crosses, Contract!Better, Contract!MinOf, Contract!Price,
         MatchedBook, FillOf, Ahead, Liquidity, QueueQty, Opposite, Crosses, Better, MinOf, Price,
         Contract!MapThenSumSet, Contract!MapThenFoldSet, MapThenSumSet, MapThenFoldSet
<1>6. QED
  BY <1>3, <1>4, <1>5

\* And so do the effects of a whole order on the book and on the counters.
LEMMA ContractApplies ==
  ASSUME NEW bk, NEW side, NEW id, NEW price, NEW qty, NEW isNew
  PROVE  /\ Contract!AfterNew(bk, side, id, price, qty) = AfterNew(bk, side, id, price, qty)
         /\ Contract!NewTally(bk, side, id, price, qty, isNew)
              = NewTally(bk, side, id, price, qty, isNew)
<1>1. Contract!Refused(id, price, qty) <=> Refused(id, price, qty)
  BY DEF Contract!Refused, Refused
<1>2. PICK eb : eb = Erased(bk, id) /\ eb = Contract!Erased(bk, id)
  BY ContractOperators
<1>3. Contract!AfterNew(bk, side, id, price, qty) = AfterNew(bk, side, id, price, qty)
  <2>1. {Contract!AfterMatch(left, side, id, price, qty) : left \in {eb}}
        = {AfterMatch(left, side, id, price, qty) : left \in {eb}}
    BY ContractMatching
  <2>2. QED
    BY <1>1, <1>2, <2>1 DEF Contract!AfterNew, AfterNew, Contract!With, With
<1>4. Contract!NewTally(bk, side, id, price, qty, isNew) = NewTally(bk, side, id, price, qty, isNew)
  <2>1. {Contract!Plus(Contract!EraseTally(bk, id),
                       Contract!Plus(Contract!CrossTally(left, side, price, isNew),
                                     Contract!MatchTally(left, side, price, qty))) : left \in {eb}}
        = {Plus(EraseTally(bk, id),
                Plus(CrossTally(left, side, price, isNew),
                     MatchTally(left, side, price, qty))) : left \in {eb}}
    BY ContractOperators, ContractMatching
  <2>2. QED
    BY <1>1, <1>2, <2>1, ContractOperators DEF Contract!NewTally, NewTally, Contract!With, With
<1>5. QED
  BY <1>3, <1>4

\* What the refinement relies on in a call: applyNew() has not traded yet, and
\* consumeLevel() is called on levels within the limit.
CallExact ==
  /\ pc = "applyNew" => call.rem = call.qty
  /\ pc = "consume" => Crosses(call.side, call.price, call.at)

\* The state of the contract, between two calls and at the start of one.
LEMMA IdleIs ==
  ASSUME BaseInv, pc = "idle"
  PROVE  call = None /\ FinalBook = orders /\ FinalTally = tally /\ InProgress = None
BY DEF BaseInv, BaseTypeOK, FinalBook, FinalTally, InProgress

\* apply() of a new order does what the contract does for it.
LEMMA NewRefines ==
  ASSUME BaseInv, NEW s \in Side, NEW id \in OrderId \cup {ZeroId}, NEW p \in Price,
         NEW q \in Qty, BeginNew(s, id, p, q)
  PROVE  Contract!New(s, id, p, q) /\ CallExact'
<1>1. pc = "idle" /\ orders' = orders /\ tally' = ZeroTally /\ pc' = "applyNew"
  BY DEF BeginNew, EnterApplyNew
<1>2. call = None /\ FinalBook = orders /\ FinalTally = tally /\ InProgress = None
  BY <1>1, IdleIs
<1>3. PICK c \in Call : c = [side |-> s, id |-> id, price |-> p, qty |-> q, isNew |-> TRUE,
                             rem |-> q, at |-> p]
  BY DEF Call
<1>4. call' = c
  BY <1>3 DEF BeginNew, EnterApplyNew
<1>5. /\ FinalBook' = AfterNew(orders, s, id, p, q)
      /\ FinalTally' = Plus(ZeroTally, NewTally(orders, s, id, p, q, TRUE))
      /\ InProgress' = [side |-> s, id |-> id, price |-> p, qty |-> q, isNew |-> TRUE]
      /\ CallExact'
  BY <1>1, <1>3, <1>4, RefinesAssumption DEF FinalBook, FinalTally, InProgress, CallExact
<1>6. orders \in AnyBook /\ q \in Nat
  BY TypesAssumption DEF BaseInv, BaseTypeOK, AnyBook, Qty
<1>7. NewTally(orders, s, id, p, q, TRUE) \in Tally
  BY <1>6, NewTallyType
<1>8. FinalTally' = NewTally(orders, s, id, p, q, TRUE)
  BY <1>5, <1>7, PlusZero
<1>9. QED
  BY <1>2, <1>5, <1>8, ContractApplies DEF Contract!New

\* The step takes an order out of its level; t counts the invalidation if it was the last
\* order of the best level.
OrderErased(id, s, p, T) ==
  /\ RefIs(id, s, p)
  /\ orders' = [orders EXCEPT ![s][p] = Unlinked(orders[s][p], id)]
  /\ Unlinked(orders[s][p], id) = <<>> /\ p = BestOf(s, Standing(s)) => tally' = Invalidated(T, s)
  /\ ~(Unlinked(orders[s][p], id) = <<>> /\ p = BestOf(s, Standing(s))) => tally' = T

\* Such a step does to queues and counters what erasing the order does in the contract.
LEMMA ErasedIs ==
  ASSUME BaseInv, pc # "consume", NEW id \in OrderId, NEW s \in Side, NEW p \in Price,
         NEW T \in Tally, OrderErased(id, s, p, T)
  PROVE  /\ orders' = Erased(orders, id)
         /\ tally' = Plus(T, EraseTally(orders, id))
         /\ refs[id] # None /\ Has(orders, id) /\ SideOf(orders, id) = s
         /\ orders \in AnyBook /\ Erased(orders, id) \in AnyBook
<1>1. RefIs(id, s, p)
  BY DEF OrderErased
<1>2. PICK u : u = Unlinked(orders[s][p], id)
  OBVIOUS
<1>3. orders' = [orders EXCEPT ![s][p] = u]
  BY <1>2 DEF OrderErased
<1>4. orders' = Erased(orders, id)
  BY <1>1, <1>2, <1>3, UnlinkedErases
<1>5. PICK t : t = tally'
  OBVIOUS
<1>6. /\ u = <<>> /\ p = BestOf(s, Standing(s)) => t = Invalidated(T, s)
      /\ ~(u = <<>> /\ p = BestOf(s, Standing(s))) => t = T
  BY <1>2, <1>5 DEF OrderErased
<1>7. t = Plus(T, EraseTally(orders, id))
  BY <1>1, <1>2, <1>6, EraseAdds
<1>8. refs[id] # None /\ Has(orders, id) /\ SideOf(orders, id) = s
  BY <1>1, RefFacts, RefsAreHeld
<1>9. orders \in AnyBook /\ Erased(orders, id) \in AnyBook
  BY ErasedBook DEF BaseInv, BaseTypeOK, AnyBook
<1>10. QED
  BY <1>4, <1>5, <1>7, <1>8, <1>9

\* cancel() does what the contract does.
LEMMA CancelRefines ==
  ASSUME BaseInv, pc = "idle", NEW id \in OrderId, NEW s \in Side, NEW p \in Price,
         OrderErased(id, s, p, ZeroTally), UNCHANGED <<pc, call>>
  PROVE  Contract!Cancel(id) /\ CallExact'
<1>1. call = None /\ FinalBook = orders /\ FinalTally = tally /\ InProgress = None
  BY IdleIs
<1>2. FinalBook' = orders' /\ FinalTally' = tally' /\ InProgress' = None /\ CallExact'
  BY <1>1 DEF FinalBook, FinalTally, InProgress, CallExact
<1>3. /\ orders' = Erased(orders, id) /\ Has(orders, id)
      /\ tally' = Plus(ZeroTally, EraseTally(orders, id))
  BY ErasedIs, ZeroQuiet DEF Quiet
<1>4. tally' = EraseTally(orders, id)
  BY <1>3, PlusZero, EraseTallyType DEF Quiet
<1>5. QED
  BY <1>1, <1>2, <1>3, <1>4, ContractOperators DEF Contract!Cancel

\* modify() erases the order, then applies it as a new one.
LEMMA ModifyRefines ==
  ASSUME BaseInv, pc = "idle", NEW id \in OrderId, NEW s \in Side, NEW p \in Price,
         OrderErased(id, s, p, ZeroTally), NEW x \in Price, NEW q \in Qty, q > 0,
         EnterApplyNew(s, id, x, q, FALSE)
  PROVE  Contract!Modify(id, x, q) /\ CallExact'
<1>1. call = None /\ FinalBook = orders /\ FinalTally = tally /\ InProgress = None
  BY IdleIs
<1>2. PICK c \in Call : c = [side |-> s, id |-> id, price |-> x, qty |-> q, isNew |-> FALSE,
                             rem |-> q, at |-> x]
  BY DEF Call
<1>3. call' = c /\ pc' = "applyNew"
  BY <1>2 DEF EnterApplyNew
<1>4. /\ FinalBook' = AfterNew(orders', s, id, x, q)
      /\ FinalTally' = Plus(tally', NewTally(orders', s, id, x, q, FALSE))
      /\ InProgress' = [side |-> s, id |-> id, price |-> x, qty |-> q, isNew |-> FALSE]
      /\ CallExact'
  BY <1>2, <1>3, RefinesAssumption DEF FinalBook, FinalTally, InProgress, CallExact
<1>5. /\ orders' = Erased(orders, id) /\ Has(orders, id) /\ SideOf(orders, id) = s
      /\ tally' = Plus(ZeroTally, EraseTally(orders, id))
  BY ErasedIs, ZeroQuiet DEF Quiet
<1>6. tally' = EraseTally(orders, id)
  BY <1>5, PlusZero, EraseTallyType DEF Quiet
<1>7. /\ Contract!Has(orders, id) /\ Contract!SideOf(orders, id) = s
      /\ Contract!Erased(orders, id) = orders' /\ Contract!EraseTally(orders, id) = tally'
  BY <1>5, <1>6, ContractOperators
<1>8. /\ FinalBook' = Contract!AfterNew(orders', s, id, x, q)
      /\ FinalTally' = Contract!Plus(tally', Contract!NewTally(orders', s, id, x, q, FALSE))
  BY <1>4, ContractOperators, ContractApplies
<1>9. QED
  BY <1>1, <1>4, <1>7, <1>8 DEF Contract!Modify

\* A message that changes nothing is one the contract ignores.
LEMMA NothingRefines ==
  ASSUME BaseInv, BeginNothing
  PROVE  Contract!Ignore /\ CallExact'
<1>1. pc = "idle" /\ orders' = orders /\ tally' = ZeroTally /\ pc' = pc /\ call' = call
  BY DEF BeginNothing
<1>2. call = None /\ FinalBook = orders /\ FinalTally = tally /\ InProgress = None
  BY <1>1, IdleIs
<1>3. FinalBook' = orders' /\ FinalTally' = tally' /\ InProgress' = None /\ CallExact'
  BY <1>1, <1>2 DEF FinalBook, FinalTally, InProgress, CallExact
<1>4. QED
  BY <1>1, <1>2, <1>3, ContractOperators DEF Contract!Ignore

\* A call in progress, field by field.
LEMMA CallIs ==
  ASSUME BaseInv, pc # "idle"
  PROVE  /\ call \in Call /\ call # None /\ InProgress # None
         /\ call.side \in Side /\ call.id \in OrderId \cup {ZeroId} /\ call.price \in Price
         /\ call.qty \in Nat /\ call.rem \in Nat /\ call.rem \in Qty /\ call.at \in Price
         /\ call.isNew \in BOOLEAN
         /\ orders \in AnyBook /\ tally \in Tally
<1>1. call \in Call /\ orders \in AnyBook /\ tally \in Tally
  BY DEF BaseInv, BaseTypeOK, AnyBook
<1>2. call # None
  BY <1>1, RefinesAssumption
<1>3. /\ call.side \in Side /\ call.id \in OrderId \cup {ZeroId} /\ call.price \in Price
      /\ call.qty \in Qty /\ call.rem \in Qty /\ call.at \in Price /\ call.isNew \in BOOLEAN
  BY <1>1 DEF Call
<1>4. call.qty \in Nat /\ call.rem \in Nat
  BY <1>3, TypesAssumption DEF Qty
<1>5. InProgress # None
  BY <1>2, <1>3, RefinesAssumption DEF InProgress
<1>6. QED
  BY <1>1, <1>2, <1>3, <1>4, <1>5

\* The state of the contract after a call returns.
LEMMA ReturnIs ==
  ASSUME Return
  PROVE  FinalBook' = orders' /\ FinalTally' = tally' /\ InProgress' = None /\ CallExact'
BY DEF Return, FinalBook, FinalTally, InProgress, CallExact

\* The state of the contract while an order is matched.
LEMMA MatchIs ==
  ASSUME pc = "match"
  PROVE  /\ FinalBook = AfterMatch(orders, call.side, call.id, call.price, call.rem)
         /\ FinalTally = Plus(tally, MatchTally(orders, call.side, call.price, call.rem))
BY DEF FinalBook, FinalTally, EmptiedBest

\* applyNew() of an order it refuses just returns.
LEMMA RefuseRefines ==
  ASSUME BaseInv, pc = "applyNew", Refused(call.id, call.price, call.qty),
         Return, UNCHANGED <<orders, tally>>
  PROVE  Contract!Return /\ CallExact'
<1>1. InProgress # None /\ tally \in Tally
  BY CallIs
<1>2. /\ FinalBook = AfterNew(orders, call.side, call.id, call.price, call.qty)
      /\ FinalTally = Plus(tally, NewTally(orders, call.side, call.id, call.price, call.qty, call.isNew))
  BY DEF FinalBook, FinalTally
<1>3. FinalBook = orders
  BY <1>2 DEF AfterNew
<1>4. FinalTally = tally
  BY <1>1, <1>2, PlusZero DEF NewTally
<1>5. QED
  BY <1>1, <1>3, <1>4, ReturnIs DEF Contract!Return

\* matchIncoming() has ended with the order filled, and the call returns.
LEMMA DoneRefines ==
  ASSUME BaseInv, pc = "match", call.rem = 0, Return, UNCHANGED <<orders, tally>>
  PROVE  Contract!Return /\ CallExact'
<1>1. InProgress # None /\ tally \in Tally /\ orders \in AnyBook /\ call.side \in Side
  BY CallIs
<1>2. NoTrade(orders, call.side, call.price, 0)
  BY DEF NoTrade
<1>3. /\ MatchTally(orders, call.side, call.price, 0) = ZeroTally
      /\ AfterMatch(orders, call.side, call.id, call.price, 0) = orders
  <2>1. PICK n \in Nat : n = 0
    OBVIOUS
  <2>2. PICK s \in Side, b \in AnyBook : s = call.side /\ b = orders
    BY <1>1
  <2>3. NoTrade(b, s, call.price, n)
    BY <1>2, <2>1, <2>2
  <2>4. MatchTally(b, s, call.price, n) = ZeroTally
    BY <2>3, NoTradeKeeps
  <2>5. AfterMatch(b, s, call.id, call.price, n) = b
    <3>1. PICK o : o = [id |-> call.id, qty |-> n]
      OBVIOUS
    <3>2. QED
      BY <2>1, <2>3, <3>1, NoTradeRests
  <2>6. QED
    BY <2>1, <2>2, <2>4, <2>5
<1>4. FinalBook = orders /\ FinalTally = tally
  BY <1>1, <1>3, MatchIs, PlusZero
<1>5. QED
  BY <1>1, <1>4, ReturnIs DEF Contract!Return

\* matchIncoming() has ended with nobody left within the limit, and the rest is queued.
LEMMA RestRefines ==
  ASSUME BaseInv, pc = "match", call.rem > 0,
         \A x \in Standing(Opposite(call.side)) : ~Crosses(call.side, call.price, x),
         OrderRests(call.side, call.price), UNCHANGED tally
  PROVE  Contract!Return /\ CallExact'
<1>1. /\ InProgress # None /\ tally \in Tally /\ orders \in AnyBook /\ call.side \in Side
      /\ call.rem \in Nat /\ call.rem # 0
  BY CallIs
<1>2. NoTrade(orders, call.side, call.price, call.rem)
  BY DEF NoTrade, Standing
<1>3. PICK o : o = [id |-> call.id, qty |-> call.rem]
  OBVIOUS
<1>4. /\ MatchTally(orders, call.side, call.price, call.rem) = ZeroTally
      /\ AfterMatch(orders, call.side, call.id, call.price, call.rem)
           = [orders EXCEPT ![call.side][call.price] = Append(@, o)]
  <2>1. PICK s \in Side, b \in AnyBook, n \in Nat : s = call.side /\ b = orders /\ n = call.rem
    BY <1>1
  <2>2. NoTrade(b, s, call.price, n) /\ n # 0
    BY <1>1, <1>2, <2>1
  <2>3. MatchTally(b, s, call.price, n) = ZeroTally
    BY <2>2, NoTradeKeeps
  <2>4. AfterMatch(b, s, call.id, call.price, n) = Rested(b, s, call.price, o)
    BY <1>3, <2>1, <2>2, NoTradeRests
  <2>5. QED
    BY <2>1, <2>3, <2>4 DEF Rested
<1>5. orders' = [orders EXCEPT ![call.side][call.price] = Append(@, o)] /\ Return
  BY <1>3 DEF OrderRests
<1>6. FinalBook = orders' /\ FinalTally = tally
  BY <1>1, <1>4, <1>5, MatchIs, PlusZero
<1>7. QED
  BY <1>1, <1>5, <1>6, ReturnIs DEF Contract!Return

\* What an accepted order counts.
LEMMA NewTallyIs ==
  ASSUME NEW bk \in AnyBook, NEW side \in Side, NEW id, NEW price, NEW qty \in Nat,
         NEW isNew \in BOOLEAN, ~Refused(id, price, qty), NEW eb, eb = Erased(bk, id)
  PROVE  /\ NewTally(bk, side, id, price, qty, isNew)
              = Plus(EraseTally(bk, id), Plus(CrossTally(eb, side, price, isNew),
                                              MatchTally(eb, side, price, qty)))
         /\ EraseTally(bk, id) \in Tally
         /\ CrossTally(eb, side, price, isNew) \in Tally
         /\ MatchTally(eb, side, price, qty) \in Tally
         /\ Plus(CrossTally(eb, side, price, isNew), MatchTally(eb, side, price, qty)) \in Tally
<1> DEFINE f(left) == Plus(EraseTally(bk, id), Plus(CrossTally(left, side, price, isNew),
                                                    MatchTally(left, side, price, qty)))
<1>1. NewTally(bk, side, id, price, qty, isNew) = CHOOSE y \in {f(v) : v \in {eb}} : TRUE
  BY DEF NewTally, With
<1>2. NewTally(bk, side, id, price, qty, isNew) = f(eb)
  <2> HIDE DEF f
  <2>1. {f(v) : v \in {eb}} = {f(eb)}
    OBVIOUS
  <2>2. QED
    BY <1>1, <2>1
<1>3. EraseTally(bk, id) \in Tally
  BY EraseTallyType DEF Quiet
<1>4. eb \in AnyBook
  BY ErasedBook
<1>5. PICK C \in Tally, M \in Tally : /\ C = CrossTally(eb, side, price, isNew)
                                      /\ M = MatchTally(eb, side, price, qty) /\ Quiet(M)
  BY <1>4, CrossTallyType, MatchTallyType DEF Quiet
<1>6. Plus(C, M) \in Tally
  BY <1>5, PlusFacts
<1>7. QED
  BY <1>2, <1>3, <1>5, <1>6

\* The step changes nothing that the contract tells of.
ContractKept == FinalBook' = FinalBook /\ FinalTally' = FinalTally /\ InProgress' = InProgress

\* applyNew() erases the order that has its id: the contract has done so already.
LEMMA ReplaceRefines ==
  ASSUME BaseInv, CallExact, pc = "applyNew", ~Refused(call.id, call.price, call.qty),
         NEW id \in OrderId, id = call.id, NEW s \in Side, NEW p \in Price,
         OrderErased(id, s, p, tally), UNCHANGED <<pc, call>>
  PROVE  ContractKept /\ CallExact'
<1>1. /\ call.side \in Side /\ call.qty \in Nat /\ call.isNew \in BOOLEAN /\ tally \in Tally
  BY CallIs
<1>2. PICK eb \in AnyBook, bk \in AnyBook : eb = Erased(orders, id) /\ bk = orders
  BY <1>1, ErasedIs
<1>3. orders' = eb /\ tally' = Plus(tally, EraseTally(bk, id))
  BY <1>1, <1>2, ErasedIs
<1>4. Erased(eb, id) = eb /\ ~Has(eb, id)
  BY <1>2, ErasedBook
<1>5. PICK E \in Tally, A \in Tally :
        /\ E = EraseTally(bk, id)
        /\ A = Plus(CrossTally(eb, call.side, call.price, call.isNew),
                    MatchTally(eb, call.side, call.price, call.qty))
        /\ NewTally(bk, call.side, id, call.price, call.qty, call.isNew) = Plus(E, A)
  BY <1>1, <1>2, NewTallyIs
<1>6. NewTally(eb, call.side, id, call.price, call.qty, call.isNew) = Plus(ZeroTally, A)
  BY <1>1, <1>4, <1>5, NewTallyIs, EraseTallyAbsent
<1>7. /\ FinalBook = AfterNew(bk, call.side, id, call.price, call.qty)
      /\ FinalTally = Plus(tally, Plus(E, A))
  BY <1>2, <1>5 DEF FinalBook, FinalTally
<1>8. /\ FinalBook' = AfterNew(eb, call.side, id, call.price, call.qty)
      /\ FinalTally' = Plus(Plus(tally, E), Plus(ZeroTally, A))
  BY <1>3, <1>5, <1>6 DEF FinalBook, FinalTally
<1>9. FinalBook' = FinalBook
  BY <1>2, <1>4, <1>7, <1>8, AfterNewIs
<1>10. FinalTally' = FinalTally
  BY <1>1, <1>5, <1>7, <1>8, PlusZero, PlusGroups
<1>11. InProgress' = InProgress /\ CallExact'
  BY DEF InProgress, CallExact
<1>12. QED
  BY <1>9, <1>10, <1>11 DEF ContractKept

\* An order of this limit would trade at once.
WouldTrade(bk, side, limit) ==
  LET best == Best(bk, Opposite(side)) IN best # None /\ Crosses(side, limit, best.price)

\* A crossing order, counted under the kind of its message.
CrossingCounted(T, c, isNew) ==
  [T EXCEPT !.crossing_new_orders = @ + (IF c /\ isNew THEN 1 ELSE 0),
            !.crossing_modify_orders = @ + (IF c /\ ~isNew THEN 1 ELSE 0)]

\* Counting a crossing order adds what CrossTally counts.
LEMMA CrossingCounts ==
  ASSUME NEW T \in Tally, NEW bk, NEW side, NEW limit, NEW isNew \in BOOLEAN, NEW c \in BOOLEAN,
         c <=> WouldTrade(bk, side, limit)
  PROVE  CrossingCounted(T, c, isNew) = Plus(T, CrossTally(bk, side, limit, isNew))
<1>1. PICK x, y : x = (IF c /\ isNew THEN 1 ELSE 0) /\ y = (IF c /\ ~isNew THEN 1 ELSE 0)
  OBVIOUS
<1>2. CrossTally(bk, side, limit, isNew) =
        [ZeroTally EXCEPT !.crossing_new_orders = IF c /\ isNew THEN 1 ELSE 0,
                          !.crossing_modify_orders = IF c /\ ~isNew THEN 1 ELSE 0]
  BY DEF CrossTally, WouldTrade
<1>3. PICK d, e, f, g, v : TallyIs(T, d, e, f, g, v)
  BY TallyFields
<1>4. PICK z, w : z = [s \in Side |-> 0] /\ w = [s \in Side |-> v[s] + z[s]]
  OBVIOUS
<1>5. T = [crossing_new_orders |-> d, crossing_modify_orders |-> e, match_events |-> f,
           traded_qty |-> g, invalidations |-> v]
  BY <1>3 DEF TallyIs
<1>6. PICK C : C = CrossTally(bk, side, limit, isNew)
  OBVIOUS
<1>7. C = [crossing_new_orders |-> x, crossing_modify_orders |-> y, match_events |-> 0,
           traded_qty |-> 0, invalidations |-> z]
  BY <1>1, <1>2, <1>4, <1>6 DEF ZeroTally
<1>8. CrossingCounted(T, c, isNew) =
        [crossing_new_orders |-> d + x, crossing_modify_orders |-> e + y, match_events |-> f,
         traded_qty |-> g, invalidations |-> v]
  <2>1. CrossingCounted(T, c, isNew) =
          [T EXCEPT !.crossing_new_orders = @ + x, !.crossing_modify_orders = @ + y]
    BY <1>1 DEF CrossingCounted
  <2>2. QED
    BY <1>5, <2>1
<1>9. Plus(T, C) = [crossing_new_orders |-> d + x, crossing_modify_orders |-> e + y,
                    match_events |-> f + 0, traded_qty |-> g + 0, invalidations |-> w]
  BY <1>4, <1>5, <1>7, PlusOf
<1>10. w = v /\ f + 0 = f /\ g + 0 = g
  <2>1. v \in [Side -> Nat] /\ f \in Nat /\ g \in Nat
    BY <1>3 DEF TallyIs
  <2>2. \A s \in Side : w[s] = v[s]
    BY <1>4, <2>1
  <2>3. QED
    BY <1>4, <2>1, <2>2
<1>11. QED
  BY <1>6, <1>8, <1>9, <1>10

\* The best level, if it is within the limit, is what the order would trade with.
LEMMA CrossingIs ==
  ASSUME BaseInv, pc # "consume", NEW side \in Side, NEW limit, NEW s, s = Opposite(side)
  PROVE  WouldTrade(orders, side, limit)
           <=> Standing(s) # {} /\ Crosses(side, limit, BestOf(s, Standing(s)))
<1>1. Active(orders, s) = Standing(s) /\ s \in Side
  BY SideFacts DEF Active, Standing, Consuming
<1>2. CASE Standing(s) = {}
  BY <1>1, <1>2 DEF Best, WouldTrade
<1>3. CASE Standing(s) # {}
  <2>1. PICK P \in SUBSET Price : P = Standing(s) /\ P # {}
    BY <1>3 DEF Standing
  <2>2. PICK p \in Price : p = BestOf(s, P)
    BY <1>1, <2>1, BestOfExists
  <2>3. PICK n \in Int : n = QueueQty(orders[s][p])
    BY <1>1, QueueQtyFacts DEF BaseInv, BaseTypeOK
  <2>4. Best(orders, s) = [price |-> p, qty |-> n]
    BY <1>1, <2>1, <2>2, <2>3 DEF Best
  <2>5. [price |-> p, qty |-> n] # None
    BY NoneFacts DEF Level
  <2>6. QED
    BY <1>3, <2>1, <2>2, <2>4, <2>5 DEF WouldTrade
<1>4. QED
  BY <1>2, <1>3

\* applyNew() counts the order as crossing and begins to match it.
LEMMA StartMatchRefines ==
  ASSUME BaseInv, CallExact, pc = "applyNew", ~Refused(call.id, call.price, call.qty),
         ~HasOrder(call.id), NEW c \in BOOLEAN, NEW s, s = Opposite(call.side),
         c <=> Standing(s) # {} /\ Crosses(call.side, call.price, BestOf(s, Standing(s))),
         BeginMatch(c)
  PROVE  ContractKept /\ CallExact'
<1>1. /\ call.side \in Side /\ call.qty \in Nat /\ call.isNew \in BOOLEAN /\ tally \in Tally
      /\ call.rem = call.qty /\ s \in Side
  BY CallIs, SideFacts DEF CallExact
<1>2. call.id \in OrderId /\ refs[call.id] = None
  BY CallIs DEF Refused, HasOrder
<1>3. PICK bk \in AnyBook : bk = orders /\ ~Has(bk, call.id)
  BY <1>2, CallIs, RefsAreHeld
<1>4. Erased(bk, call.id) = bk /\ EraseTally(bk, call.id) = ZeroTally
  BY <1>3, ErasedAbsent, EraseTallyAbsent
<1>5. PICK C \in Tally, M \in Tally :
        /\ C = CrossTally(bk, call.side, call.price, call.isNew)
        /\ M = MatchTally(bk, call.side, call.price, call.qty)
        /\ NewTally(bk, call.side, call.id, call.price, call.qty, call.isNew)
             = Plus(ZeroTally, Plus(C, M))
        /\ Plus(C, M) \in Tally
  BY <1>1, <1>4, NewTallyIs
<1>6. orders' = orders /\ call' = call /\ pc' = "match"
  BY DEF BeginMatch
<1>7. tally' = Plus(tally, C)
  <2>1. PICK n \in BOOLEAN : n = call.isNew
    BY <1>1
  <2>2. tally' = CrossingCounted(tally, c, n)
    BY <2>1 DEF BeginMatch, CountCrossing, CrossingCounted
  <2>3. c <=> WouldTrade(bk, call.side, call.price)
    BY <1>1, <1>3, CrossingIs
  <2>4. CrossingCounted(tally, c, n) = Plus(tally, CrossTally(bk, call.side, call.price, n))
    BY <1>1, <2>3, CrossingCounts
  <2>5. QED
    BY <1>5, <2>1, <2>2, <2>4
<1>8. /\ FinalBook = AfterMatch(bk, call.side, call.id, call.price, call.rem)
      /\ FinalTally = Plus(tally, Plus(ZeroTally, Plus(C, M)))
  BY <1>1, <1>3, <1>4, <1>5, AfterNewIs DEF FinalBook, FinalTally
<1>9. /\ FinalBook' = AfterMatch(bk, call.side, call.id, call.price, call.rem)
      /\ FinalTally' = Plus(Plus(tally, C), M)
  BY <1>1, <1>3, <1>5, <1>6, <1>7 DEF FinalBook, FinalTally, EmptiedBest
<1>10. FinalTally' = FinalTally
  BY <1>1, <1>5, <1>8, <1>9, PlusZero, PlusGroups
<1>11. InProgress' = InProgress /\ CallExact'
  BY <1>6 DEF InProgress, CallExact
<1>12. QED
  BY <1>8, <1>9, <1>10, <1>11 DEF ContractKept

\* matchIncoming() turns to a level that has orders and is within the limit.
LEMMA MatchLevelRefines ==
  ASSUME BaseInv, NEW b \in Price, BeginConsume(b), orders[Opposite(call.side)][b] # <<>>,
         Crosses(call.side, call.price, b)
  PROVE  ContractKept /\ CallExact'
<1>1. /\ pc = "match" /\ pc' = "consume" /\ orders' = orders /\ tally' = tally
      /\ call' = [call EXCEPT !.at = b]
  BY DEF BeginConsume
<1>2. call \in Call /\ call # None
  BY <1>1, CallIs
<1>3. PICK c \in Call : c = call'
  BY <1>1, <1>2 DEF Call
<1>4. /\ c.side = call.side /\ c.id = call.id /\ c.price = call.price /\ c.qty = call.qty
      /\ c.isNew = call.isNew /\ c.rem = call.rem /\ c.at = b
  BY <1>1, <1>2, <1>3 DEF Call
<1>5. c # None
  BY <1>3, RefinesAssumption
<1>6. InProgress' = InProgress
  BY <1>2, <1>3, <1>4, <1>5 DEF InProgress
<1>7. CallExact'
  BY <1>1, <1>3, <1>4 DEF CallExact
<1>8. FinalBook' = AfterMatch(orders, call.side, call.id, call.price, call.rem)
  BY <1>1, <1>3, <1>4 DEF FinalBook
<1>9. FinalTally' = Plus(tally, MatchTally(orders, call.side, call.price, call.rem))
  BY <1>1, <1>3, <1>4 DEF FinalTally, EmptiedBest
<1>10. QED
  BY <1>1, <1>6, <1>7, <1>8, <1>9, MatchIs DEF ContractKept

\* consumeLevel() is left: an emptied level is the best one, and counted as such.
LEMMA LeaveLevelRefines ==
  ASSUME BaseInv, pc = "consume", pc' = "match", UNCHANGED <<orders, call>>,
         NEW r, r = Opposite(call.side),
         tally' = IF orders[r][call.at] = <<>> THEN Invalidated(tally, r) ELSE tally
  PROVE  ContractKept /\ CallExact'
<1>1. /\ call.side \in Side /\ r \in Side /\ tally \in Tally /\ orders \in AnyBook
      /\ call.rem \in Nat
  BY CallIs, SideFacts
<1>2. PICK M \in Tally : M = MatchTally(orders, call.side, call.price, call.rem)
  BY <1>1, MatchTallyType DEF Quiet
<1>3. InProgress' = InProgress /\ FinalBook' = FinalBook /\ CallExact'
  BY DEF InProgress, FinalBook, CallExact
<1>4. FinalTally' = Plus(tally', M)
  BY <1>2 DEF FinalTally, EmptiedBest
<1>5. FinalTally = IF orders[r][call.at] = <<>> THEN Invalidated(Plus(tally, M), r) ELSE Plus(tally, M)
  BY <1>2 DEF FinalTally, EmptiedBest
<1>6. Plus(Invalidated(tally, r), M) = Invalidated(Plus(tally, M), r)
  BY <1>1, <1>2, PlusInvalidated
<1>7. QED
  BY <1>3, <1>4, <1>5, <1>6 DEF ContractKept

\* The loop of consumeLevel() fills the order that has priority over all others.
LEMMA FillRefines ==
  ASSUME BaseInv, CallExact, FillFront
  PROVE  ContractKept /\ CallExact'
<1>1. PICK side \in Side, r \in Side, at \in Price, rem \in Nat, limit \in Price :
        /\ side = call.side /\ r = Opposite(side) /\ at = call.at /\ rem = call.rem
        /\ limit = call.price
  BY CallIs, SideFacts DEF FillFront
<1>2. /\ pc = "consume" /\ call \in Call /\ call # None /\ tally \in Tally /\ orders \in AnyBook
      /\ rem \in 1 .. MaxQty /\ orders[r][at] # <<>> /\ Crosses(side, limit, at)
  <2>1. pc = "consume" /\ rem > 0 /\ orders[r][at] # <<>>
    BY <1>1 DEF FillFront, CanFill
  <2>2. rem \in 1 .. MaxQty
    BY <1>1, <2>1, CallIs, TypesAssumption DEF Qty
  <2>3. QED
    BY <1>1, <2>1, <2>2, CallIs DEF CallExact
<1>3. PICK q \in Seq(Order) : q = orders[r][at]
  BY <1>2 DEF AnyBook
<1>4. PICK t, u : t = Traded(q, rem) /\ u = AfterTrade(q, rem)
  OBVIOUS
<1>5. u \in Seq(Order) /\ t \in 1 .. rem
  BY <1>2, <1>3, <1>4, TradeShape
<1>6. /\ orders' = [orders EXCEPT ![r][at] = u]
      /\ call' = [call EXCEPT !.rem = @ - t]
      /\ tally' = FillCounted(tally, t) /\ pc' = pc
  BY <1>1, <1>3, <1>4 DEF FillFront, FillCounted
<1>7. PICK nb \in AnyBook : /\ nb = orders' /\ nb[r][at] = u
                            /\ \A p \in Price : p # at => nb[r][p] = orders[r][p]
                            /\ nb[Opposite(r)] = orders[Opposite(r)]
  <2>1. Opposite(r) \in Side /\ Opposite(r) # r
    BY <1>1, SideFacts
  <2>2. PICK v : v = [orders[r] EXCEPT ![at] = u]
    OBVIOUS
  <2>3. orders \in [Side -> [Price -> Seq(Order)]]
    BY <1>2 DEF AnyBook
  <2>4. v \in [Price -> Seq(Order)] /\ v[at] = u /\ \A p \in Price : p # at => v[p] = orders[r][p]
    BY <1>1, <1>5, <2>2, <2>3
  <2>5. orders' = [orders EXCEPT ![r] = v]
    BY <1>6, <2>2
  <2>6. PICK nb : nb = orders'
    OBVIOUS
  <2>7. nb \in [Side -> [Price -> Seq(Order)]] /\ nb[r] = v /\ nb[Opposite(r)] = orders[Opposite(r)]
    BY <1>1, <2>1, <2>3, <2>4, <2>5, <2>6
  <2>8. nb \in AnyBook
    BY <2>7 DEF AnyBook
  <2>9. QED
    BY <2>4, <2>6, <2>7, <2>8
<1>8. Fills(orders, nb, r, at, rem, t)
  <2>1. \A x \in Beyond(r, at) : orders[r][x] = <<>>
    <3>1. PICK P \in SUBSET Price : P = Standing(r) /\ at \in P /\ at = BestOf(r, P)
      <4>1. at \in Standing(r) /\ at = BestOf(r, Standing(r))
        BY <1>1, <1>2, ConsumeFacts
      <4>2. Standing(r) \in SUBSET Price
        BY DEF Standing
      <4>3. QED
        BY <4>1, <4>2
    <3>2. \A x \in P : ~Better(r, x, at)
      BY <1>1, <3>1, BestOfExists
    <3>3. QED
      BY <3>1, <3>2 DEF Beyond, Standing
  <2>2. QED
    BY <1>1, <1>2, <1>3, <1>4, <1>7, <2>1 DEF Fills
<1>9. PICK n \in Nat : n = rem - t /\ t \in Nat
  BY <1>1, <1>5
<1>10. PICK c \in Call : c = call'
  BY <1>1, <1>2, <1>6, <1>9, TypesAssumption DEF Call, Qty
<1>11. /\ c.side = side /\ c.id = call.id /\ c.price = limit /\ c.qty = call.qty
       /\ c.isNew = call.isNew /\ c.rem = n /\ c.at = at
  BY <1>1, <1>2, <1>6, <1>9, <1>10 DEF Call
<1>12. c # None
  BY <1>10, RefinesAssumption
<1>13. InProgress' = InProgress
  BY <1>1, <1>2, <1>10, <1>11, <1>12 DEF InProgress
<1>14. CallExact'
  BY <1>2, <1>6, <1>10, <1>11 DEF CallExact
<1>15. FinalBook' = FinalBook
  <2>1. FinalBook = AfterMatch(orders, side, call.id, limit, rem)
    BY <1>1, <1>2 DEF FinalBook
  <2>2. FinalBook' = AfterMatch(nb, side, call.id, limit, n)
    BY <1>2, <1>6, <1>7, <1>10, <1>11 DEF FinalBook
  <2>3. AfterMatch(nb, side, call.id, limit, rem - t) = AfterMatch(orders, side, call.id, limit, rem)
    BY <1>1, <1>2, <1>8, FillsAfterMatch
  <2>4. QED
    BY <1>9, <2>1, <2>2, <2>3
<1>16. FinalTally' = FinalTally
  <2>1. FinalTally = Plus(tally, MatchTally(orders, side, limit, rem))
    BY <1>1, <1>2 DEF FinalTally, EmptiedBest
  <2>2. PICK b : b = Plus(FillCounted(tally, t), MatchTally(nb, side, limit, n))
    OBVIOUS
  <2>3. FinalTally' = IF nb[r][at] = <<>> THEN Invalidated(b, r) ELSE b
    BY <1>1, <1>2, <1>6, <1>7, <1>10, <1>11, <2>2 DEF FinalTally, EmptiedBest
  <2>4. b = Plus(FillCounted(tally, t), MatchTally(nb, side, limit, rem - t))
    BY <1>9, <2>2
  <2>5. /\ nb[r][at] = <<>> => Plus(tally, MatchTally(orders, side, limit, rem)) = Invalidated(b, r)
        /\ nb[r][at] # <<>> => Plus(tally, MatchTally(orders, side, limit, rem)) = b
    BY <1>1, <1>2, <1>8, <2>4, FillsTally
  <2>6. QED
    BY <2>1, <2>3, <2>5
<1>17. QED
  BY <1>13, <1>14, <1>15, <1>16 DEF ContractKept

\* The empty book is the contract's.
LEMMA InitRefines ==
  ASSUME BaseInit
  PROVE  Contract!BookInit /\ CallExact
<1>1. /\ orders = [s \in Side |-> [p \in Price |-> <<>>]]
      /\ pc = "idle" /\ call = None /\ tally = ZeroTally
  BY DEF BaseInit
<1>2. FinalBook = orders /\ FinalTally = tally /\ InProgress = None /\ CallExact
  BY <1>1 DEF FinalBook, FinalTally, InProgress, CallExact
<1>3. QED
  BY <1>1, <1>2, ContractOperators DEF Contract!BookInit

\* A step that changes nothing is nothing to the contract.
LEMMA StutterRefines ==
  ASSUME CallExact, UNCHANGED baseVars
  PROVE  ContractKept /\ CallExact'
BY DEF baseVars, ContractKept, CallExact, FinalBook, FinalTally, EmptiedBest, InProgress

\* The step is a step of the contract, or nothing to it.
StepRefines == [Contract!BookNext]_(Contract!bookVars) /\ CallExact'

\* A step that the contract cannot see refines it.
LEMMA KeptRefines ==
  ASSUME ContractKept, CallExact'
  PROVE  StepRefines
BY DEF ContractKept, StepRefines, Contract!bookVars

\* Each action of the contract is a step of it.
LEMMA ActionRefines ==
  ASSUME CallExact'
  PROVE  /\ \A s \in Side, id \in OrderId \cup {ZeroId}, p \in Price, q \in Qty :
              Contract!New(s, id, p, q) => StepRefines
         /\ \A id \in OrderId : Contract!Cancel(id) => StepRefines
         /\ \A id \in OrderId, p \in Price, q \in Qty : Contract!Modify(id, p, q) => StepRefines
         /\ Contract!Ignore => StepRefines
         /\ Contract!Return => StepRefines
<1>1. Contract!Side = Side /\ Contract!Price = Price /\ Contract!Qty = Qty
  BY ContractOperators
<1>2. Contract!BookNext => StepRefines
  BY DEF StepRefines
<1>3. ASSUME NEW s \in Side, NEW id \in OrderId \cup {ZeroId}, NEW p \in Price, NEW q \in Qty,
             Contract!New(s, id, p, q)
      PROVE  StepRefines
  <2>1. Contract!BookNext
    BY <1>1, <1>3 DEF Contract!BookNext
  <2>2. QED
    BY <1>2, <2>1
<1>4. ASSUME NEW id \in OrderId, Contract!Cancel(id) PROVE StepRefines
  <2>1. Contract!BookNext
    BY <1>4 DEF Contract!BookNext
  <2>2. QED
    BY <1>2, <2>1
<1>5. ASSUME NEW id \in OrderId, NEW p \in Price, NEW q \in Qty, Contract!Modify(id, p, q)
      PROVE  StepRefines
  <2>1. Contract!BookNext
    BY <1>1, <1>5 DEF Contract!BookNext
  <2>2. QED
    BY <1>2, <2>1
<1>6. Contract!Ignore \/ Contract!Return => StepRefines
  BY <1>2 DEF Contract!BookNext
<1>7. QED
  BY <1>3, <1>4, <1>5, <1>6
=============================================================================
