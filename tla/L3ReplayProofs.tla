---------------------------- MODULE L3ReplayProofs ----------------------------
(***************************************************************************)
(* Proofs about the contract of the order books and about the replay of    *)
(* books that keep it, for any ids, prices, quantities and spread and any  *)
(* choices of the generator.                                               *)
(***************************************************************************)
EXTENDS L3Replay, L3Book, L3BookOpsProofs
-----------------------------------------------------------------------------
(* The contract: L3Book. *)

\* The inductive invariant of the contract: typing, no id twice, not crossed.
BookInv == BookTypeOK /\ RestsOnce /\ Uncrossed

\* The empty book satisfies the invariant.
LEMMA BookInvInit == BookInit => BookInv
<1> SUFFICES ASSUME BookInit PROVE BookInv
  OBVIOUS
<1>1. GoodBook(book)
  BY EmptyGood DEF BookInit
<1>2. tally \in Tally
  BY ZeroQuiet DEF BookInit, Quiet
<1>3. QED
  BY <1>1, <1>2 DEF BookInit, BookInv, BookTypeOK, GoodBook, AnyBook, Uncrossed, RestsOnce

\* Every message preserves the invariant.
LEMMA BookInvStep == BookInv /\ [BookNext]_bookVars => BookInv'
<1> SUFFICES ASSUME BookInv, [BookNext]_bookVars PROVE BookInv'
  OBVIOUS
<1> USE DEF AnyBook
<1>1. GoodBook(book) /\ book \in AnyBook /\ tally \in Tally /\ request \in Request \cup {None}
  BY DEF BookInv, BookTypeOK, GoodBook, Uncrossed, RestsOnce
<1>2. SUFFICES GoodBook(book') /\ tally' \in Tally /\ request' \in Request \cup {None}
  BY DEF BookInv, BookTypeOK, GoodBook, Uncrossed, RestsOnce
<1>3. ASSUME NEW s \in Side, NEW id \in OrderId \cup {ZeroId}, NEW p \in Price, NEW q \in Qty,
             New(s, id, p, q)
      PROVE  GoodBook(book') /\ tally' \in Tally /\ request' \in Request \cup {None}
  <2>1. GoodBook(book')
    BY <1>1, <1>3, AfterNewGood DEF New
  <2>2. q \in Nat
    BY TypesAssumption DEF Qty
  <2>3. tally' \in Tally
    BY <1>1, <1>3, <2>2, NewTallyType DEF New
  <2>4. request' \in Request
    BY <1>3 DEF New, Request
  <2>5. QED
    BY <2>1, <2>3, <2>4
<1>4. ASSUME NEW id \in OrderId, Cancel(id)
      PROVE  GoodBook(book') /\ tally' \in Tally /\ request' \in Request \cup {None}
  <2>1. GoodBook(book')
    BY <1>1, <1>4, ErasedGood DEF Cancel
  <2>2. tally' \in Tally
    BY <1>4, EraseTallyType DEF Cancel, Quiet
  <2>3. QED
    BY <1>1, <1>4, <2>1, <2>2 DEF Cancel
<1>5. ASSUME NEW id \in OrderId, NEW p \in Price, NEW q \in Qty, Modify(id, p, q)
      PROVE  GoodBook(book') /\ tally' \in Tally /\ request' \in Request \cup {None}
  <2>1. PICK side \in Side : side = SideOf(book, id)
    BY <1>5, SideOfFacts DEF Modify
  <2>2. PICK left : left = Erased(book, id)
    OBVIOUS
  <2>3. GoodBook(left) /\ left \in AnyBook
    BY <1>1, <2>2, ErasedGood DEF GoodBook
  <2>4. /\ book' = AfterNew(left, side, id, p, q)
        /\ tally' = Plus(EraseTally(book, id), NewTally(left, side, id, p, q, FALSE))
        /\ request' = [side |-> side, id |-> id, price |-> p, qty |-> q, isNew |-> FALSE]
    BY <1>5, <2>1, <2>2 DEF Modify
  <2>5. GoodBook(book')
    BY <2>3, <2>4, AfterNewGood
  <2>6. q \in Nat
    BY TypesAssumption DEF Qty
  <2>7. tally' \in Tally
    <3>1. NewTally(left, side, id, p, q, FALSE) \in Tally
      BY <2>3, <2>6, NewTallyType
    <3>2. Quiet(EraseTally(book, id)) /\ EraseTally(book, id) \in Tally
      BY EraseTallyType DEF Quiet
    <3>3. QED
      BY <2>4, <3>1, <3>2, PlusFacts
  <2>8. request' \in Request
    BY <2>4 DEF Request
  <2>9. QED
    BY <2>5, <2>7, <2>8
<1>6. ASSUME Ignore
      PROVE  GoodBook(book') /\ tally' \in Tally /\ request' \in Request \cup {None}
  BY <1>1, <1>6, ZeroQuiet DEF Ignore, Quiet
<1>7. ASSUME Return
      PROVE  GoodBook(book') /\ tally' \in Tally /\ request' \in Request \cup {None}
  BY <1>1, <1>7 DEF Return
<1>8. ASSUME UNCHANGED bookVars
      PROVE  GoodBook(book') /\ tally' \in Tally /\ request' \in Request \cup {None}
  BY <1>1, <1>8 DEF bookVars
<1>9. QED
  BY <1>3, <1>4, <1>5, <1>6, <1>7, <1>8 DEF BookNext

\* The invariant holds in every reachable state of the contract.
THEOREM BookInvariant == BookSpec => []BookInv
<1>1. QED
  BY BookInvInit, BookInvStep, PTL DEF BookSpec

\* Books, counters and requests keep their types; in particular no order rests without
\* quantity, whatever is traded.
THEOREM BookTyped == BookSpec => []BookTypeOK
<1>1. BookInv => BookTypeOK
  BY DEF BookInv
<1>2. QED
  BY <1>1, BookInvariant, PTL

\* No two resting orders could trade with each other: crossed() is never true.
THEOREM BookUncrossed == BookSpec => []Uncrossed
<1>1. BookInv => Uncrossed
  BY DEF BookInv
<1>2. QED
  BY <1>1, BookInvariant, PTL

\* One order id never rests twice: hasOrder() and order_refs_ have one place to name.
THEOREM BookRestsOnce == BookSpec => []RestsOnce
<1>1. BookInv => RestsOnce
  BY DEF BookInv
<1>2. QED
  BY <1>1, BookInvariant, PTL

\* What New and Modify do is that.
LEMMA AppliedStep ==
  ASSUME BookInv, BookNext, Applies
  PROVE  AppliesTo(book, request', book', tally'.traded_qty)
<1>1. book \in AnyBook /\ GoodBook(book)
  BY DEF BookInv, BookTypeOK, AnyBook, GoodBook, Uncrossed, RestsOnce
<1>2. ASSUME NEW id \in OrderId \cup {ZeroId}, NEW p, NEW q \in Qty, ~Refused(id, p, q)
      PROVE  id \in OrderId /\ q \in 1 .. MaxQty
  BY <1>2, TypesAssumption DEF Refused, Qty
<1>3. \A q \in Qty : q \in Nat
  BY TypesAssumption DEF Qty
<1>4. ASSUME NEW s \in Side, NEW id \in OrderId \cup {ZeroId}, NEW p \in Price, NEW q \in Qty,
             New(s, id, p, q)
      PROVE  AppliesTo(book, request', book', tally'.traded_qty)
  <2>1. PICK req : req = [side |-> s, id |-> id, price |-> p, qty |-> q, isNew |-> TRUE]
    OBVIOUS
  <2>2. /\ request' = req /\ req.side = s /\ req.id = id /\ req.price = p /\ req.qty = q
        /\ book' = AfterNew(book, s, id, p, q)
        /\ tally' = NewTally(book, s, id, p, q, TRUE)
    BY <1>4, <2>1 DEF New
  <2>3. CASE Refused(id, p, q)
    BY <2>2, <2>3 DEF AppliesTo, AfterNew
  <2>4. CASE ~Refused(id, p, q)
    <3>1. book' = AfterMatch(Erased(book, id), s, id, p, q)
      BY <2>2, <2>4, AfterNewIs
    <3>2. tally'.traded_qty = Filled(Erased(book, id), s, p, q)
      <4>1. q \in Nat /\ TRUE \in BOOLEAN
        BY <1>3
      <4>2. NewTally(book, s, id, p, q, TRUE).traded_qty = Filled(Erased(book, id), s, p, q)
        <5>1. PICK bk \in AnyBook, new \in BOOLEAN : bk = book /\ new = TRUE
          BY <1>1
        <5>2. NewTally(bk, s, id, p, q, new).traded_qty = Filled(Erased(bk, id), s, p, q)
          BY <2>4, <4>1, NewTallyType
        <5>3. QED
          BY <5>1, <5>2
      <4>3. QED
        BY <2>2, <4>2
    <3>3. id \in OrderId /\ q \in 1 .. MaxQty
      BY <1>2, <2>4
    <3>4. QED
      BY <2>2, <2>4, <3>1, <3>2, <3>3 DEF AppliesTo
  <2>5. QED
    BY <2>3, <2>4
<1>5. ASSUME NEW id \in OrderId, NEW p \in Price, NEW q \in Qty, Modify(id, p, q)
      PROVE  AppliesTo(book, request', book', tally'.traded_qty)
  <2>1. PICK s \in Side : s = SideOf(book, id)
    BY <1>5, SideOfFacts DEF Modify
  <2>2. PICK req : req = [side |-> s, id |-> id, price |-> p, qty |-> q, isNew |-> FALSE]
    OBVIOUS
  <2>3. PICK eb \in AnyBook : eb = Erased(book, id) /\ Erased(eb, id) = eb
    BY <1>1, ErasedBook
  <2>4. /\ request' = req /\ req.side = s /\ req.id = id /\ req.price = p /\ req.qty = q
        /\ book' = AfterNew(eb, s, id, p, q)
        /\ tally' = Plus(EraseTally(book, id), NewTally(eb, s, id, p, q, FALSE))
    BY <1>5, <2>1, <2>2, <2>3 DEF Modify
  <2>5. CASE Refused(id, p, q)
    <3>1. book' = eb
      BY <2>4, <2>5 DEF AfterNew
    <3>2. QED
      BY <2>3, <2>4, <2>5, <3>1 DEF AppliesTo
  <2>6. CASE ~Refused(id, p, q)
    <3>1. book' = AfterMatch(eb, s, id, p, q)
      BY <2>3, <2>4, <2>6, AfterNewIs
    <3>2. PICK t, u : t = EraseTally(book, id) /\ u = NewTally(eb, s, id, p, q, FALSE)
      OBVIOUS
    <3>3. Quiet(t) /\ t.traded_qty = 0
      BY <3>2, EraseTallyType
    <3>4. u \in Tally /\ u.traded_qty = Filled(eb, s, p, q)
      <4>1. q \in Nat /\ FALSE \in BOOLEAN
        BY <1>3
      <4>2. /\ NewTally(eb, s, id, p, q, FALSE) \in Tally
            /\ NewTally(eb, s, id, p, q, FALSE).traded_qty = Filled(Erased(eb, id), s, p, q)
        <5>1. PICK old \in BOOLEAN : old = FALSE
          BY <4>1
        <5>2. /\ NewTally(eb, s, id, p, q, old) \in Tally
              /\ NewTally(eb, s, id, p, q, old).traded_qty = Filled(Erased(eb, id), s, p, q)
          BY <2>6, <4>1, NewTallyType
        <5>3. QED
          BY <5>1, <5>2
      <4>3. QED
        BY <2>3, <3>2, <4>2
    <3>5. Plus(t, u).traded_qty = t.traded_qty + u.traded_qty
      BY <3>3, <3>4, PlusFacts DEF Quiet
    <3>6. u.traded_qty \in Nat
      BY <3>4 DEF Tally
    <3>7. tally'.traded_qty = Filled(eb, s, p, q)
      <4>1. tally' = Plus(t, u)
        BY <2>4, <3>2
      <4>2. tally'.traded_qty = u.traded_qty
        BY <3>3, <3>5, <3>6, <4>1
      <4>3. QED
        BY <3>4, <4>2
    <3>8. id \in OrderId /\ q \in 1 .. MaxQty
      BY <1>2, <2>6
    <3>9. QED
      BY <2>3, <2>4, <2>6, <3>1, <3>7, <3>8 DEF AppliesTo
  <2>7. QED
    BY <2>5, <2>6
<1>6. QED
  BY <1>4, <1>5 DEF BookNext, Applies, Cancel, Ignore, Return

\* Price-time priority: an order that loses quantity has no better-priced and no older
\* equally-priced order left in front of it.
THEOREM BookPriority == BookSpec => PriorityRespected
<1> DEFINE Respects == Applies =>
             \A s \in Side, p, q \in Price :
               \A i \in DOMAIN book[s][p], j \in DOMAIN book[s][q] :
                 LET first == book[s][p][i]
                     other == book[s][q][j]
                 IN  /\ HasPriority(s, <<p, i>>, <<q, j>>)
                     /\ request'.id \notin {first.id, other.id}
                     /\ other \notin ToSet(book'[s][q])
                     => ~Has(book', first.id)
<1>1. BookInv /\ [BookNext]_bookVars => [Respects]_bookVars
  <2> SUFFICES ASSUME BookInv, BookNext, Applies PROVE Respects
    BY DEF bookVars, Applies
  <2>1. AppliesTo(book, request', book', tally'.traded_qty)
    BY AppliedStep
  <2>2. GoodBook(book)
    BY DEF BookInv, BookTypeOK, AnyBook, GoodBook, Uncrossed, RestsOnce
  <2>3. PICK req, bk, nb : req = request' /\ bk = book /\ nb = book'
    OBVIOUS
  <2>4. /\ req.side \in Side
        /\ IF Refused(req.id, req.price, req.qty) THEN nb \in {bk, Erased(bk, req.id)}
           ELSE /\ nb = AfterMatch(Erased(bk, req.id), req.side, req.id, req.price, req.qty)
                /\ req.id \in OrderId /\ req.price \in Price /\ req.qty \in 1 .. MaxQty
    BY <2>1, <2>3 DEF AppliesTo
  <2>5. ASSUME NEW s \in Side, NEW p \in Price, NEW q \in Price,
               NEW i \in DOMAIN bk[s][p], NEW j \in DOMAIN bk[s][q],
               HasPriority(s, <<p, i>>, <<q, j>>),
               bk[s][p][i].id # req.id, bk[s][q][j].id # req.id,
               bk[s][q][j] \notin ToSet(nb[s][q])
        PROVE  ~Has(nb, bk[s][p][i].id)
    BY <2>2, <2>3, <2>4, <2>5, PriorityOfOne
  <2>6. QED
    BY <2>3, <2>5
<1>2. QED
  BY <1>1, BookInvariant, PTL DEF BookSpec, PriorityRespected

\* A queue in the order of another keeps that order.
LEMMA SameKeeps ==
  ASSUME NEW r, NEW q, SameOrder(r, q), NEW mover
  PROVE  KeepsOrder(r, q, mover)
BY DEF SameOrder, KeepsOrder

\* Nothing is out of order in a queue that has not changed.
LEMMA SameSame ==
  ASSUME NEW q
  PROVE  SameOrder(q, q)
BY DEF SameOrder

\* The order of a queue is kept over two changes.
LEMMA KeepsAlong ==
  ASSUME NEW r, NEW q, NEW u, NEW mover, KeepsOrder(r, q, mover), SameOrder(q, u)
  PROVE  KeepsOrder(r, u, mover)
<1> SUFFICES ASSUME NEW j \in DOMAIN r, NEW k \in DOMAIN r, j <= k, mover \notin {r[j].id, r[k].id}
             PROVE  \E a, b \in DOMAIN u : a <= b /\ u[a].id = r[j].id /\ u[b].id = r[k].id
  BY DEF KeepsOrder
<1>1. PICK a \in DOMAIN q, b \in DOMAIN q : a <= b /\ q[a].id = r[j].id /\ q[b].id = r[k].id
  BY DEF KeepsOrder
<1>2. PICK c \in DOMAIN u, d \in DOMAIN u : c <= d /\ u[c].id = q[a].id /\ u[d].id = q[b].id
  BY <1>1 DEF SameOrder
<1>3. QED
  BY <1>1, <1>2

\* The mover may be put at the back.
LEMMA KeepsAppended ==
  ASSUME NEW q \in Seq(Order), NEW o \in Order
  PROVE  KeepsOrder(Append(q, o), q, o.id)
<1>1. PICK n \in Nat : n = Len(q) /\ DOMAIN q = 1 .. n
  BY QueueFacts
<1>2. PICK r : r = Append(q, o)
  OBVIOUS
<1>3. DOMAIN r = 1 .. n + 1 /\ r[n + 1] = o /\ \A i \in DOMAIN q : r[i] = q[i]
  BY <1>1, <1>2
<1>4. ASSUME NEW j \in DOMAIN r, NEW k \in DOMAIN r, j <= k, o.id \notin {r[j].id, r[k].id}
      PROVE  \E a, b \in DOMAIN q : a <= b /\ q[a].id = r[j].id /\ q[b].id = r[k].id
  <2>1. j # n + 1 /\ k # n + 1
    BY <1>3, <1>4
  <2>2. j \in DOMAIN q /\ k \in DOMAIN q
    BY <1>1, <1>3, <2>1
  <2>3. QED
    BY <1>3, <1>4, <2>2
<1>5. KeepsOrder(r, q, o.id)
  BY <1>4 DEF KeepsOrder
<1>6. QED
  BY <1>2, <1>5

\* Erasing keeps the order of each queue.
LEMMA ErasedKeeps ==
  ASSUME NEW bk, GoodBook(bk), NEW id, NEW s \in Side, NEW p \in Price
  PROVE  SameOrder(Erased(bk, id)[s][p], bk[s][p])
<1>1. bk \in AnyBook /\ Erased(bk, id) \in AnyBook /\ Survives(Erased(bk, id), bk)
  BY ErasedBook DEF GoodBook
<1>2. QED
  BY <1>1, SurvivesFacts

\* A message that applies an order keeps the order of the others.
LEMMA AppliedKeeps ==
  ASSUME NEW bk, GoodBook(bk), NEW req, NEW nb, NEW traded, AppliesTo(bk, req, nb, traded),
         NEW s \in Side, NEW p \in Price
  PROVE  KeepsOrder(nb[s][p], bk[s][p], req.id)
<1>1. PICK eb, side, id, limit, qty :
        /\ eb = Erased(bk, req.id) /\ side = req.side /\ id = req.id /\ limit = req.price
        /\ qty = req.qty
  OBVIOUS
<1>2. SameOrder(eb[s][p], bk[s][p])
  BY <1>1, ErasedKeeps
<1>3. CASE nb \in {bk, eb}
  BY <1>2, <1>3, SameSame, SameKeeps
<1>4. CASE nb \notin {bk, eb}
  <2>1. /\ nb = AfterMatch(eb, side, id, limit, qty) /\ side \in Side /\ limit \in Price
        /\ id \in OrderId /\ qty \in 1 .. MaxQty /\ qty \in Nat
    BY <1>1, <1>4, TypesAssumption DEF AppliesTo
  <2>2. eb \in AnyBook /\ ~Has(eb, id)
    BY <1>1, ErasedBook DEF GoodBook
  <2>3. PICK mb : mb = MatchedBook(eb, side, limit, qty)
    OBVIOUS
  <2>4. mb \in AnyBook /\ Survives(mb, eb)
    BY <2>1, <2>2, <2>3, MatchedFacts
  <2>5. SameOrder(mb[s][p], eb[s][p])
    BY <2>2, <2>4, SurvivesFacts
  <2>6. \/ nb = mb
        \/ \E o \in Order : o.id = id /\ nb = Rested(mb, side, limit, o)
    BY <2>1, <2>2, <2>3, AfterMatchFacts
  <2>7. KeepsOrder(nb[s][p], mb[s][p], id)
    <3>1. CASE nb = mb
      BY <3>1, SameSame, SameKeeps
    <3>2. CASE nb # mb
      <4>1. PICK o \in Order : o.id = id /\ nb = Rested(mb, side, limit, o)
        BY <2>6, <3>2
      <4>2. Rested(mb, side, limit, o)[s][p]
              = IF s = side /\ p = limit THEN Append(mb[s][p], o) ELSE mb[s][p]
        BY <2>1, <2>4, RestedFacts
      <4>3. PICK q \in Seq(Order) : q = mb[s][p]
        BY <2>4 DEF AnyBook
      <4>4. nb[s][p] = Append(q, o) \/ nb[s][p] = q
        BY <4>1, <4>2, <4>3
      <4>5. KeepsOrder(Append(q, o), q, id) /\ KeepsOrder(q, q, id)
        BY <4>1, KeepsAppended, SameSame, SameKeeps
      <4>6. QED
        BY <4>3, <4>4, <4>5
    <3>3. QED
      BY <3>1, <3>2
  <2>8. KeepsOrder(nb[s][p], eb[s][p], id)
    BY <2>5, <2>7, KeepsAlong
  <2>9. QED
    BY <1>1, <1>2, <2>8, KeepsAlong
<1>5. QED
  BY <1>3, <1>4

\* Erasing one order leaves the others at their levels, with their quantities.
LEMMA ErasedRemain ==
  ASSUME NEW bk, GoodBook(bk), NEW id
  PROVE  OthersRemain(Erased(bk, id), bk, id)
<1> SUFFICES ASSUME NEW s \in Side, NEW p \in Price, NEW i \in DOMAIN bk[s][p],
                    bk[s][p][i].id # id
             PROVE  bk[s][p][i] \in ToSet(Erased(bk, id)[s][p])
  BY DEF OthersRemain
<1>1. PICK q \in Seq(Order), r \in Seq(Order) : q = bk[s][p] /\ r = Erased(bk, id)[s][p]
  BY ErasedBook DEF GoodBook, AnyBook
<1>2. PICK m : OthersOf(r, q, id, m)
  BY <1>1, ErasedPlaces DEF GoodBook
<1>3. PICK k \in DOMAIN r : m[k] = i
  BY <1>1, <1>2 DEF OthersOf
<1>4. r[k].id = q[i].id /\ r[k].qty = q[i].qty
  BY <1>2, <1>3 DEF OthersOf
<1>5. q[i] = [id |-> q[i].id, qty |-> q[i].qty] /\ r[k] = [id |-> r[k].id, qty |-> r[k].qty]
  BY <1>1, QueueFacts DEF Order
<1>6. r[k] = q[i]
  BY <1>4, <1>5
<1>7. QED
  BY <1>1, <1>3, <1>6 DEF ToSet

\* A book that has not changed has all its orders.
LEMMA SameRemain ==
  ASSUME NEW bk, NEW gone
  PROVE  OthersRemain(bk, bk, gone)
BY DEF OthersRemain, ToSet

\* The step of a message that applies an order, in the words of PlacesKept.
LEMMA AppliesMessage ==
  ASSUME BookNext
  PROVE  \/ Applies
         \/ book' = book
         \/ \E id \in OrderId : Cancel(id)
<1>1. ASSUME NEW x \in Side, NEW id \in OrderId \cup {ZeroId}, NEW y \in Price, NEW q \in Qty,
             New(x, id, y, q)
      PROVE  Applies
  <2>1. request' \in Request
    BY <1>1 DEF New, Request
  <2>2. QED
    BY <1>1, <2>1, RequestAssumption DEF New, Applies
<1>2. ASSUME NEW id \in OrderId, NEW y \in Price, NEW q \in Qty, Modify(id, y, q)
      PROVE  Applies
  <2>1. request' \in Request
    BY <1>2, SideOfFacts DEF Modify, Request
  <2>2. QED
    BY <1>2, <2>1, RequestAssumption DEF Modify, Applies
<1>3. QED
  BY <1>1, <1>2 DEF BookNext, Ignore, Return

\* No message moves an order it does not name to another level or past another order, and
\* one that may not trade takes at most one order out of the book.
THEOREM BookPlaces == BookSpec => PlacesKept
<1> DEFINE Placed == LET mover == IF request' = None THEN None ELSE request'.id
                     IN  \A s \in Side, p \in Price : KeepsOrder(book'[s][p], book[s][p], mover)
           Left == (Applies => Refused(request'.id, request'.price, request'.qty)) =>
                     \E gone \in OrderId \cup {ZeroId, None} : OthersRemain(book', book, gone)
<1>1. BookInv /\ [BookNext]_bookVars => [Placed]_bookVars
  <2> SUFFICES ASSUME BookInv, BookNext PROVE Placed
    OBVIOUS
  <2>1. PICK mover : mover = IF request' = None THEN None ELSE request'.id
    OBVIOUS
  <2>2. SUFFICES ASSUME NEW s \in Side, NEW p \in Price
                 PROVE  KeepsOrder(book'[s][p], book[s][p], mover)
    BY <2>1
  <2>3. GoodBook(book)
    BY DEF BookInv, BookTypeOK, AnyBook, GoodBook, Uncrossed, RestsOnce
  <2>4. CASE Applies
    <3>1. AppliesTo(book, request', book', tally'.traded_qty)
      BY <2>4, AppliedStep
    <3>2. mover = request'.id
      BY <2>1, <2>4 DEF Applies
    <3>3. QED
      BY <2>3, <3>1, <3>2, AppliedKeeps
  <2>5. CASE book' = book
    BY <2>5, SameSame, SameKeeps
  <2>6. ASSUME NEW id \in OrderId, Cancel(id)
        PROVE  KeepsOrder(book'[s][p], book[s][p], mover)
    BY <2>3, <2>6, ErasedKeeps, SameKeeps DEF Cancel
  <2>7. QED
    BY <2>4, <2>5, <2>6, AppliesMessage
<1>2. BookInv /\ [BookNext]_bookVars => [Left]_bookVars
  <2> SUFFICES ASSUME BookInv, BookNext, Applies => Refused(request'.id, request'.price, request'.qty)
               PROVE  \E gone \in OrderId \cup {ZeroId, None} : OthersRemain(book', book, gone)
    OBVIOUS
  <2>1. GoodBook(book)
    BY DEF BookInv, BookTypeOK, AnyBook, GoodBook, Uncrossed, RestsOnce
  <2>2. CASE book' = book
    BY <2>2, SameRemain
  <2>3. ASSUME NEW id \in OrderId, Cancel(id)
        PROVE  \E gone \in OrderId \cup {ZeroId, None} : OthersRemain(book', book, gone)
    BY <2>1, <2>3, ErasedRemain DEF Cancel
  <2>4. CASE Applies
    <3>1. book' \in {book, Erased(book, request'.id)}
      BY <2>4, AppliedStep DEF AppliesTo
    <3>2. request' \in Request
      BY <2>4, BookInvStep DEF BookInv, BookTypeOK, Applies
    <3>3. request'.id \in OrderId \cup {ZeroId}
      BY <3>2 DEF Request
    <3>4. CASE book' = Erased(book, request'.id)
      BY <2>1, <3>3, <3>4, ErasedRemain
    <3>5. QED
      BY <2>2, <3>1, <3>4
  <2>5. QED
    BY <2>2, <2>3, <2>4, AppliesMessage
<1>3. [Placed]_bookVars /\ [Left]_bookVars => [Placed /\ Left]_bookVars
  OBVIOUS
<1>4. QED
  BY <1>1, <1>2, <1>3, BookInvariant, PTL DEF BookSpec, PlacesKept

\* An accepted order adds its quantity to its side and takes out of both sides what it
\* trades, which is what traded_qty reports.
THEOREM BookQuantity == BookSpec => QuantityConserved
<1> DEFINE Resting(bk, s) == Liquidity(bk, s, Price)
           Conserved ==
             Applies /\ ~Refused(request'.id, request'.price, request'.qty) =>
               LET side   == request'.side
                   traded == tally'.traded_qty
                   rest   == Erased(book, request'.id)
               IN  /\ Resting(book', Opposite(side)) = Resting(rest, Opposite(side)) - traded
                   /\ Resting(book', side) = Resting(rest, side) + request'.qty - traded
<1>1. BookInv /\ [BookNext]_bookVars => [Conserved]_bookVars
  <2> SUFFICES ASSUME BookInv, BookNext, Applies,
                      ~Refused(request'.id, request'.price, request'.qty)
               PROVE  Conserved
    BY DEF bookVars
  <2>1. AppliesTo(book, request', book', tally'.traded_qty)
    BY AppliedStep
  <2>2. book \in AnyBook
    BY DEF BookInv, BookTypeOK, AnyBook
  <2>3. PICK eb, side, id, limit, qty, nb, f :
          /\ eb = Erased(book, request'.id) /\ side = request'.side /\ id = request'.id
          /\ limit = request'.price /\ qty = request'.qty /\ nb = book' /\ f = tally'.traded_qty
    OBVIOUS
  <2>4. /\ side \in Side /\ limit \in Price /\ id \in OrderId /\ qty \in 1 .. MaxQty
        /\ nb = AfterMatch(eb, side, id, limit, qty) /\ f = Filled(eb, side, limit, qty)
    BY <2>1, <2>3 DEF AppliesTo
  <2>5. eb \in AnyBook /\ ~Has(eb, id)
    BY <2>2, <2>3, ErasedBook
  <2>6. /\ Liquidity(nb, Opposite(side), Price) = Liquidity(eb, Opposite(side), Price) - f
        /\ Liquidity(nb, side, Price) = Liquidity(eb, side, Price) + qty - f
    BY <2>4, <2>5, AppliedConserves
  <2>7. QED
    BY <2>3, <2>6
<1>2. QED
  BY <1>1, BookInvariant, PTL DEF BookSpec, QuantityConserved
-----------------------------------------------------------------------------
(* The replay: L3Replay. *)

\* What does not depend on the prices a book accepts is the same in both kinds.
LEMMA SameOperators ==
  \A bk : /\ \A id : Tick!Erased(bk, id) = Erased(bk, id)
          /\ \A id : Tick!Has(bk, id) <=> Has(bk, id)
          /\ \A id : Tick!SideOf(bk, id) = SideOf(bk, id)
          /\ \A side, id, limit, qty :
               Tick!AfterMatch(bk, side, id, limit, qty) = AfterMatch(bk, side, id, limit, qty)
<1> SUFFICES ASSUME NEW bk
             PROVE  /\ \A id : Tick!Erased(bk, id) = Erased(bk, id)
                    /\ \A id : Tick!Has(bk, id) <=> Has(bk, id)
                    /\ \A id : Tick!SideOf(bk, id) = SideOf(bk, id)
                    /\ \A side, id, limit, qty :
                         Tick!AfterMatch(bk, side, id, limit, qty)
                         = AfterMatch(bk, side, id, limit, qty)
  OBVIOUS
<1>1. \A id : Tick!Erased(bk, id) = Erased(bk, id)
  BY DEF Tick!Erased, Tick!Kept, Tick!Cardinality, Tick!Side, Tick!Price, Erased, Kept,
         Cardinality, Side, Price
<1>2. \A id : Tick!Has(bk, id) <=> Has(bk, id)
  BY DEF Tick!Has, Tick!IdsAt, Tick!Side, Tick!Price, Has, IdsAt, Side, Price
<1>3. \A id : Tick!SideOf(bk, id) = SideOf(bk, id)
  BY DEF Tick!SideOf, Tick!IdsAt, Tick!Side, Tick!Price, SideOf, IdsAt, Side, Price
<1>4. ASSUME NEW side, NEW id, NEW limit, NEW qty
      PROVE  Tick!AfterMatch(bk, side, id, limit, qty) = AfterMatch(bk, side, id, limit, qty)
  <2>1. Tick!Filled(bk, side, limit, qty) = Filled(bk, side, limit, qty)
    BY DEF Tick!Filled, Tick!Liquidity, Tick!QueueQty, Tick!Opposite, Tick!Crosses, Tick!Better,
           Tick!MinOf, Tick!Price, Filled, Liquidity, QueueQty, Opposite, Crosses, Better, MinOf,
           Price, Tick!MapThenSumSet, Tick!MapThenFoldSet, MapThenSumSet, MapThenFoldSet
  <2>2. Tick!MatchedBook(bk, side, limit, qty) = MatchedBook(bk, side, limit, qty)
    BY DEF Tick!MatchedBook, Tick!Kept, Kept, Tick!Cardinality, Cardinality, Tick!FillOf,
           Tick!Ahead, Tick!Liquidity, Tick!QueueQty, Tick!Opposite,
           Tick!Crosses, Tick!Better, Tick!MinOf, Tick!Price, MatchedBook, FillOf, Ahead, Liquidity,
           QueueQty, Opposite, Crosses, Better, MinOf, Price,
           Tick!MapThenSumSet, Tick!MapThenFoldSet, MapThenSumSet, MapThenFoldSet
  <2>3. QED
    BY <2>1, <2>2 DEF Tick!AfterMatch, AfterMatch
<1>5. QED
  BY <1>1, <1>2, <1>3, <1>4

\* A new order whose price has a slot is taken by both kinds, with one effect.
LEMMA SameAfterNew ==
  ASSUME NEW bk, NEW side, NEW id, NEW price \in TickPrice, NEW qty
  PROVE  Tick!AfterNew(bk, side, id, price, qty) = AfterNew(bk, side, id, price, qty)
<1>1. Tick!Refused(id, price, qty) <=> Refused(id, price, qty)
  BY ReplayAssumption, TypesAssumption DEF Tick!Refused, Refused, TickPrice, Price
<1>2. {Tick!AfterMatch(left, side, id, price, qty) : left \in {Tick!Erased(bk, id)}}
      = {AfterMatch(left, side, id, price, qty) : left \in {Erased(bk, id)}}
  BY SameOperators
<1>3. QED
  BY <1>1, <1>2 DEF Tick!AfterNew, AfterNew, Tick!With, With

\* A message that parseOne() lets through has one effect on both kinds.
LEMMA SameApply ==
  ASSUME NEW bk, NEW msg, Valid(msg)
  PROVE  Tick!Apply(bk, msg) = Apply(bk, msg)
<1>1. msg.op_code \in {"N", "X", "M", "T"}
  BY DEF Valid, OpCode
<1>2. CASE msg.op_code = "N"
  <2>1. msg.price_tick \in TickPrice
    BY <1>2 DEF Valid
  <2>2. QED
    BY <1>2, <2>1, SameAfterNew DEF Tick!Apply, Apply
<1>3. CASE msg.op_code = "X"
  BY <1>3, SameOperators DEF Tick!Apply, Apply
<1>4. CASE msg.op_code = "M"
  <2>1. msg.price_tick \in TickPrice /\ msg.quantity \in 1 .. MaxQty /\ msg.quantity # 0
    BY <1>4 DEF Valid
  <2>2. CASE ~Has(bk, msg.order_id)
    <3>1. ~Tick!Has(bk, msg.order_id)
      BY <2>2, SameOperators
    <3>2. Apply(bk, msg) = bk
      BY <1>4, <2>2 DEF Apply
    <3>3. Tick!Apply(bk, msg) = bk
      BY <1>4, <3>1 DEF Tick!Apply
    <3>4. QED
      BY <3>2, <3>3
  <2>3. CASE Has(bk, msg.order_id)
    <3> DEFINE Rest(left) == AfterNew(left, SideOf(bk, msg.order_id), msg.order_id,
                                      msg.price_tick, msg.quantity)
               TickRest(left) == Tick!AfterNew(left, Tick!SideOf(bk, msg.order_id), msg.order_id,
                                               msg.price_tick, msg.quantity)
    <3>1. \A left : TickRest(left) = Rest(left)
      BY <2>1, SameOperators, SameAfterNew
    <3>2. Apply(bk, msg) = With(Erased(bk, msg.order_id), Rest)
      BY <1>4, <2>1, <2>3 DEF Apply
    <3>3. Tick!Apply(bk, msg) = Tick!With(Tick!Erased(bk, msg.order_id), TickRest)
      BY <1>4, <2>1, <2>3, SameOperators DEF Tick!Apply
    <3> HIDE DEF Rest, TickRest
    <3>4. {TickRest(left) : left \in {Tick!Erased(bk, msg.order_id)}}
          = {Rest(left) : left \in {Erased(bk, msg.order_id)}}
      BY <3>1, SameOperators
    <3>5. QED
      BY <3>2, <3>3, <3>4 DEF With, Tick!With
  <2>4. QED
    BY <2>2, <2>3
<1>5. CASE msg.op_code = "T"
  BY <1>5 DEF Tick!Apply, Apply
<1>6. QED
  BY <1>1, <1>2, <1>3, <1>4, <1>5

\* parseOne() returns nothing or a message that has passed its checks.
LEMMA ParsedIsValid ==
  ASSUME NEW data
  PROVE  ParseOne(data) # None => Valid(ParseOne(data))
BY DEF ParseOne

\* Both kinds of book are in the same state after every message: parseOne() lets
\* no order through that only the map and list books would accept, whatever the
\* generator sends and whatever has been discarded.
THEOREM BooksStayEqual == Spec => []BooksAgree
<1>1. Init => BooksAgree
  BY DEF Init, BooksAgree, Kind
<1>2. BooksAgree /\ [Next]_vars => BooksAgree'
  <2> SUFFICES ASSUME BooksAgree, [Next]_vars PROVE BooksAgree'
    OBVIOUS
  <2>1. CASE Replay
    <3> DEFINE msg == ParseOne(Serialize(Head(stream)))
    <3>1. CASE msg = None
      BY <2>1, <3>1 DEF Replay, BooksAgree
    <3>2. CASE msg # None
      <4>1. books' = Applied(msg)
        BY <2>1, <3>2 DEF Replay
      <4>2. Tick!Apply(books.tick, msg) = Apply(books.tick, msg)
        BY <3>2, ParsedIsValid, SameApply
      <4> HIDE DEF msg
      <4>3. QED
        BY <4>1, <4>2 DEF Applied, BooksAgree
    <3>3. QED
      BY <3>1, <3>2
  <2>2. CASE UNCHANGED replayVars
    BY <2>2 DEF replayVars, BooksAgree
  <2>3. QED
    BY <2>1, <2>2 DEF Next, vars, replayVars
<1>3. QED
  BY <1>1, <1>2, PTL DEF Spec
-----------------------------------------------------------------------------
(* The wire format: what parseOne() reads of what serialize() wrote.         *)

\* The fields of the layout have names of their own and bytes of their own.
LEMMA LayoutSound ==
  /\ DOMAIN Layout = 1 .. 9
  /\ \A i \in 1 .. 9 : /\ Layout[i].at \in Nat /\ Layout[i].size \in Nat \ {0}
                       /\ Layout[i].at + Layout[i].size <= kMessageSize
  /\ \A i, j \in 1 .. 9 : i < j => Layout[i].at + Layout[i].size <= Layout[j].at
  /\ \A i, j \in 1 .. 9 : Layout[i].field = Layout[j].field => i = j
<1>1. PICK f, a, z :
        /\ f = <<"op_code", "side", "symbol", "seq_num", "send_timestamp_ns", "order_id",
                 "price_tick", "quantity", "trade_id">>
        /\ a = <<0, 1, 2, 16, 24, 32, 40, 44, 48>>
        /\ z = <<1, 1, 8, 8, 8, 8, 4, 4, 8>>
  OBVIOUS
<1>2. DOMAIN Layout = 1 .. 9
  BY DEF Layout
<1>3. \A i \in 1 .. 9 : i \in {1, 2, 3, 4, 5, 6, 7, 8, 9}
  OBVIOUS
<1>4. \A i \in 1 .. 9 : Layout[i].field = f[i] /\ Layout[i].at = a[i] /\ Layout[i].size = z[i]
  BY <1>1, <1>3 DEF Layout
<1>5. \A i \in 1 .. 9 : a[i] \in Nat /\ z[i] \in Nat \ {0} /\ a[i] + z[i] <= 64
  BY <1>1, <1>3
<1>6. \A i, j \in 1 .. 9 : i < j => a[i] + z[i] <= a[j]
  BY <1>1, <1>3
<1>7. \A i, j \in 1 .. 9 : f[i] = f[j] => i = j
  BY <1>1, <1>3
<1>8. QED
  BY <1>2, <1>4, <1>5, <1>6, <1>7 DEF kMessageSize

\* What is read from a field is what was written to it.
LEMMA ReadsWritten ==
  ASSUME NEW msg, NEW i \in 1 .. 9
  PROVE  Read(Serialize(msg), Layout[i].field) = Written(msg, Layout[i].field)
<1> DEFINE covers(b) == {j \in DOMAIN Layout :
                         b \in Layout[j].at .. Layout[j].at + Layout[j].size - 1}
           last(b) == CHOOSE j \in covers(b) : \A k \in covers(b) : k <= j
           byte(b) == IF covers(b) = {} THEN <<0, 0>>
                      ELSE <<Written(msg, Layout[last(b)].field), b - Layout[last(b)].at>>
<1>1. PICK at \in Nat, size \in Nat \ {0} : at = Layout[i].at /\ size = Layout[i].size
  BY LayoutSound
<1>2. PICK w : w = Written(msg, Layout[i].field)
  OBVIOUS
<1>3. ASSUME NEW k \in 0 .. size - 1, NEW b \in Nat, b = at + k
      PROVE  Serialize(msg)[b] = <<w, k>>
  <2>1. b \in 0 .. kMessageSize - 1
    <3>1. at + size <= kMessageSize
      BY <1>1, LayoutSound
    <3>2. QED
      BY <1>3, <3>1 DEF kMessageSize
  <2>2. covers(b) = {i}
    <3>1. i \in covers(b)
      BY <1>1, <1>3, LayoutSound
    <3>2. ASSUME NEW j \in covers(b) PROVE j = i
      <4>1. j \in 1 .. 9 /\ Layout[j].at <= b /\ b < Layout[j].at + Layout[j].size
        BY LayoutSound
      <4>2. ~(j < i) /\ ~(i < j)
        BY <1>1, <1>3, <4>1, LayoutSound
      <4>3. QED
        BY <4>1, <4>2
    <3> HIDE DEF covers
    <3>3. QED
      BY <3>1, <3>2
  <2>3. last(b) = i
    <3> HIDE DEF covers
    <3>1. QED
      BY <2>2
  <2>4. Serialize(msg)[b] = byte(b)
    <3>1. Serialize(msg) = [c \in 0 .. kMessageSize - 1 |-> byte(c)]
      BY DEF Serialize
    <3> HIDE DEF byte
    <3>2. QED
      BY <2>1, <3>1
  <2> HIDE DEF covers, last
  <2>5. byte(b) = <<Written(msg, Layout[i].field), b - Layout[i].at>>
    <3>1. PICK c, l : c = covers(b) /\ l = last(b)
      OBVIOUS
    <3>2. c # {} /\ l = i
      BY <2>2, <2>3, <3>1
    <3>3. byte(b) = IF c = {} THEN <<0, 0>>
                    ELSE <<Written(msg, Layout[l].field), b - Layout[l].at>>
      BY <3>1
    <3> HIDE DEF byte
    <3>4. QED
      BY <3>2, <3>3
  <2>6. b - Layout[i].at = k
    BY <1>1, <1>3
  <2> HIDE DEF byte
  <2>7. QED
    BY <1>2, <2>4, <2>5, <2>6
<1>4. PICK d, v : d = Serialize(msg) /\ v = d[at][1]
  OBVIOUS
<1>5. v = w
  <2>1. 0 \in 0 .. size - 1 /\ at = at + 0
    OBVIOUS
  <2>2. d[at] = <<w, 0>>
    BY <1>3, <1>4, <2>1
  <2>3. QED
    BY <1>4, <2>2
<1>6. Read(d, Layout[i].field) =
        IF \A k \in 0 .. size - 1 : d[at + k] = <<v, k>> THEN v ELSE None
  <2> DEFINE place == CHOOSE j \in DOMAIN Layout : Layout[j].field = Layout[i].field
  <2>1. place = i
    BY LayoutSound
  <2>2. Read(d, Layout[i].field) =
          IF \A k \in 0 .. Layout[place].size - 1 :
               d[Layout[place].at + k] = <<d[Layout[place].at][1], k>>
          THEN d[Layout[place].at][1] ELSE None
    BY DEF Read
  <2> HIDE DEF place
  <2>3. QED
    BY <1>1, <1>4, <2>1, <2>2
<1>7. \A k \in 0 .. size - 1 : d[at + k] = <<w, k>>
  BY <1>3, <1>4
<1>8. QED
  BY <1>2, <1>4, <1>5, <1>6, <1>7

\* A message that the checks of parseOne() accept is read back with every field it was
\* written with, and any other is discarded.
THEOREM RoundTrip ==
  ASSUME NEW msg \in Message
  PROVE  ParseOne(Serialize(msg)) = IF Valid(msg) THEN msg ELSE None
<1>1. PICK d : d = Serialize(msg)
  OBVIOUS
<1>2. /\ Read(d, "op_code") = Written(msg, "op_code") /\ Read(d, "side") = Written(msg, "side")
      /\ Read(d, "order_id") = Written(msg, "order_id")
      /\ Read(d, "price_tick") = Written(msg, "price_tick")
      /\ Read(d, "quantity") = Written(msg, "quantity")
  <2>1. /\ Layout[1].field = "op_code" /\ Layout[2].field = "side" /\ Layout[6].field = "order_id"
        /\ Layout[7].field = "price_tick" /\ Layout[8].field = "quantity"
    BY DEF Layout
  <2>2. \A i \in 1 .. 9 : Read(d, Layout[i].field) = Written(msg, Layout[i].field)
    BY <1>1, ReadsWritten
  <2>3. QED
    BY <2>1, <2>2
<1>3. /\ Written(msg, "op_code") = msg.op_code /\ Written(msg, "side") = encodeSideChar(msg.side)
      /\ Written(msg, "order_id") = msg.order_id /\ Written(msg, "price_tick") = msg.price_tick
      /\ Written(msg, "quantity") = msg.quantity
  BY DEF Written, Unread
<1>4. decodeSideChar(encodeSideChar(msg.side)) = msg.side
  BY DEF Message, Side, encodeSideChar, decodeSideChar
<1>5. msg = [op_code |-> msg.op_code, side |-> msg.side, order_id |-> msg.order_id,
             price_tick |-> msg.price_tick, quantity |-> msg.quantity]
  BY DEF Message
<1>6. ParseOne(d) =
        LET m == [op_code |-> Read(d, "op_code"), side |-> decodeSideChar(Read(d, "side")),
                  order_id |-> Read(d, "order_id"), price_tick |-> Read(d, "price_tick"),
                  quantity |-> Read(d, "quantity")]
        IN  IF Valid(m) THEN m ELSE None
  BY DEF ParseOne
<1>7. QED
  BY <1>1, <1>2, <1>3, <1>4, <1>5, <1>6

-----------------------------------------------------------------------------
(* What a sequence of messages does to a book.  The fold that defines it is  *)
(* a recursion over sets of places; g of Leads() is the books along the way.  *)

\* An order a book gains by a message is the one the message adds.
LEMMA NewIds ==
  ASSUME NEW bk, GoodBook(bk), NEW side \in Side, NEW id \in OrderId \cup {ZeroId},
         NEW price \in Price, NEW qty \in Qty, NEW x, Has(AfterNew(bk, side, id, price, qty), x)
  PROVE  Has(bk, x) \/ x = id
<1>1. CASE Refused(id, price, qty)
  BY <1>1 DEF AfterNew
<1>2. CASE ~Refused(id, price, qty)
  <2>1. id \in OrderId /\ qty \in 1 .. MaxQty /\ qty \in Nat
    BY <1>2, TypesAssumption DEF Refused, Qty
  <2>2. PICK eb : eb = Erased(bk, id)
    OBVIOUS
  <2>3. eb \in AnyBook /\ ~Has(eb, id) /\ \A y : Has(eb, y) => Has(bk, y) \/ y = id
    BY <2>2, ErasedBook DEF GoodBook
  <2>4. PICK nb, mb : /\ nb = AfterMatch(eb, side, id, price, qty)
                      /\ mb = MatchedBook(eb, side, price, qty)
    OBVIOUS
  <2>5. Has(nb, x) => Has(mb, x) \/ x = id
    BY <2>1, <2>3, <2>4, AfterMatchFacts
  <2>6. mb \in AnyBook /\ Survives(mb, eb)
    BY <2>1, <2>3, <2>4, MatchedFacts
  <2>7. Has(mb, x) => Has(eb, x)
    BY <2>3, <2>6, SurvivesFacts
  <2>8. Has(nb, x)
    BY <1>2, <2>2, <2>4, AfterNewIs
  <2>9. QED
    BY <2>3, <2>5, <2>7, <2>8
<1>3. QED
  BY <1>1, <1>2

\* What a modify does to an order that rests.
LEMMA ModifyIs ==
  ASSUME NEW bk, NEW msg, msg.op_code = "M", Has(bk, msg.order_id), msg.quantity \in Nat,
         msg.quantity # 0
  PROVE  Apply(bk, msg) = AfterNew(Erased(bk, msg.order_id), SideOf(bk, msg.order_id),
                                   msg.order_id, msg.price_tick, msg.quantity)
<1> DEFINE Rest(left) == AfterNew(left, SideOf(bk, msg.order_id), msg.order_id,
                                  msg.price_tick, msg.quantity)
<1>1. Apply(bk, msg) = With(Erased(bk, msg.order_id), Rest)
  BY DEF Apply
<1> HIDE DEF Rest
<1>2. {Rest(left) : left \in {Erased(bk, msg.order_id)}} = {Rest(Erased(bk, msg.order_id))}
  OBVIOUS
<1>3. With(Erased(bk, msg.order_id), Rest) = Rest(Erased(bk, msg.order_id))
  BY <1>2 DEF With
<1>4. QED
  BY <1>1, <1>3 DEF Rest

\* What a message does to a book.
LEMMA ApplyGood ==
  ASSUME NEW bk, GoodBook(bk), NEW msg \in Message
  PROVE  /\ GoodBook(Apply(bk, msg))
         /\ \A x : Has(Apply(bk, msg), x) =>
              Has(bk, x) \/ (msg.op_code \in {"N", "M"} /\ x = msg.order_id)
         /\ msg.op_code = "T" => Apply(bk, msg) = bk
<1>1. /\ msg.op_code \in {"N", "X", "M", "T"} /\ msg.side \in Side
      /\ msg.order_id \in OrderId \cup {ZeroId} /\ msg.price_tick \in Price
      /\ msg.quantity \in Qty /\ msg.quantity \in Nat
  BY TypesAssumption DEF Message, OpCode, Qty
<1>2. PICK op, side, id, price, qty :
        op = msg.op_code /\ side = msg.side /\ id = msg.order_id /\ price = msg.price_tick
        /\ qty = msg.quantity
  OBVIOUS
<1>3. PICK nb : nb = Apply(bk, msg)
  OBVIOUS
<1>4. SUFFICES /\ GoodBook(nb)
               /\ \A x : Has(nb, x) => Has(bk, x) \/ (op \in {"N", "M"} /\ x = id)
               /\ op = "T" => nb = bk
  BY <1>2, <1>3
<1>5. CASE nb = bk
  BY <1>5
<1>6. CASE op = "N"
  <2>1. nb = AfterNew(bk, side, id, price, qty)
    BY <1>2, <1>3, <1>6 DEF Apply
  <2>2. GoodBook(nb) /\ \A x : Has(nb, x) => Has(bk, x) \/ x = id
    BY <1>1, <1>2, <2>1, AfterNewGood, NewIds
  <2>3. QED
    BY <1>6, <2>2
<1>7. CASE nb = Erased(bk, id) /\ op \in {"X", "M"}
  <2>1. GoodBook(nb) /\ \A x : Has(nb, x) => Has(bk, x)
    BY <1>7, ErasedGood, ErasedBook DEF GoodBook
  <2>2. QED
    BY <1>7, <2>1
<1>8. CASE Has(bk, id) /\ op = "M" /\ qty # 0
  <2>1. PICK eb, s : eb = Erased(bk, id) /\ s = SideOf(bk, id) /\ s \in Side
    BY <1>8, SideOfFacts
  <2>2. GoodBook(eb) /\ \A x : Has(eb, x) => Has(bk, x) \/ x = id
    BY <2>1, ErasedGood, ErasedBook DEF GoodBook
  <2>3. nb = AfterNew(eb, s, id, price, qty)
    BY <1>1, <1>2, <1>3, <1>8, <2>1, ModifyIs
  <2>4. GoodBook(nb) /\ \A x : Has(nb, x) => Has(eb, x) \/ x = id
    BY <1>1, <1>2, <2>1, <2>2, <2>3, AfterNewGood, NewIds
  <2>5. QED
    BY <1>8, <2>2, <2>4
<1>9. CASE op = "T" \/ (op \in {"X", "M"} /\ ~Has(bk, id))
  <2>1. nb = bk
    BY <1>2, <1>3, <1>9 DEF Apply
  <2>2. QED
    BY <2>1
<1>10. CASE Has(bk, id) /\ (op = "X" \/ (op = "M" /\ qty = 0))
  <2>1. nb = Erased(bk, id)
    BY <1>2, <1>3, <1>10 DEF Apply
  <2>2. QED
    BY <1>7, <1>10, <2>1
<1>11. QED
  BY <1>1, <1>2, <1>6, <1>8, <1>9, <1>10

\* The books that no two of whose orders could trade and no two of whose orders share an id.
GoodBooks == {bk \in AnyBook : GoodBook(bk)}

\* g[k] is the book after the first k messages.
Leads(g, bk, s) ==
  /\ DOMAIN g = 0 .. Len(s)
  /\ g[0] = bk
  /\ \A k \in 1 .. Len(s) : g[k] = Apply(g[k - 1], s[k])

\* It is a good book.
LEMMA LeadsGood ==
  ASSUME NEW bk, GoodBook(bk), NEW s \in Seq(Message), NEW g, Leads(g, bk, s)
  PROVE  \A k \in 0 .. Len(s) : GoodBook(g[k])
<1> DEFINE T == {k \in Nat : k <= Len(s) /\ ~GoodBook(g[k])}
<1>1. SUFFICES ASSUME T # {} PROVE FALSE
  OBVIOUS
<1>2. T \in SUBSET Nat /\ Len(s) \in Nat
  OBVIOUS
<1>3. PICK k \in T : \A x \in T : k <= x
  <2> HIDE DEF T
  <2>1. QED
    BY <1>1, <1>2, SmallestNat
<1>4. k # 0 /\ k \in 1 .. Len(s)
  BY <1>2 DEF Leads
<1>5. k - 1 \in Nat /\ k - 1 <= Len(s) /\ ~(k <= k - 1)
  BY <1>2, <1>4
<1>6. GoodBook(g[k - 1])
  BY <1>3, <1>5
<1>7. g[k] = Apply(g[k - 1], s[k]) /\ s[k] \in Message
  BY <1>4 DEF Leads
<1>8. GoodBook(g[k])
  BY <1>6, <1>7, ApplyGood
<1>9. QED
  BY <1>3, <1>8

\* There is one such sequence of books.
LEMMA LeadsOnce ==
  ASSUME NEW bk, NEW s \in Seq(Message), NEW g, Leads(g, bk, s), NEW h, Leads(h, bk, s)
  PROVE  \A k \in 0 .. Len(s) : g[k] = h[k]
<1> DEFINE T == {k \in Nat : k <= Len(s) /\ g[k] # h[k]}
<1>1. SUFFICES ASSUME T # {} PROVE FALSE
  OBVIOUS
<1>2. T \in SUBSET Nat /\ Len(s) \in Nat
  OBVIOUS
<1>3. PICK k \in T : \A x \in T : k <= x
  <2> HIDE DEF T
  <2>1. QED
    BY <1>1, <1>2, SmallestNat
<1>4. k # 0 /\ k \in 1 .. Len(s)
  BY <1>2 DEF Leads
<1>5. k - 1 \in Nat /\ k - 1 <= Len(s) /\ ~(k <= k - 1)
  BY <1>2, <1>4
<1>6. g[k - 1] = h[k - 1]
  BY <1>3, <1>5
<1>7. g[k] = Apply(g[k - 1], s[k]) /\ h[k] = Apply(h[k - 1], s[k])
  BY <1>4 DEF Leads
<1>8. QED
  BY <1>3, <1>6, <1>7

\* The book after all messages is the fold.
LEMMA FoldLeads ==
  ASSUME NEW bk, GoodBook(bk), NEW s \in Seq(Message)
  PROVE  \E g : Leads(g, bk, s) /\ FoldLeft(Apply, bk, s) = g[Len(s)]
<1>1. PICK n \in Nat : n = Len(s) /\ DOMAIN s = 1 .. n
  OBVIOUS
<1>2. \A k \in 1 .. n : s[k] \in Message
  BY <1>1
<1> DEFINE h == [x \in (1 .. n) \X GoodBooks |-> Apply(x[2], s[x[1]])]
           Unfold(f) == f = [r \in SUBSET DOMAIN s |->
                               IF r = {} THEN bk ELSE Apply(f[r \ {Max(r)}], s[Max(r)])]
<1>3. h \in [(1 .. n) \X GoodBooks -> GoodBooks]
  <2>1. ASSUME NEW k \in 1 .. n, NEW b \in GoodBooks PROVE Apply(b, s[k]) \in GoodBooks
    BY <1>2, ApplyGood DEF GoodBooks, GoodBook
  <2>2. QED
    BY <2>1
<1>4. bk \in GoodBooks
  BY DEF GoodBooks, GoodBook
<1>5. PICK f \in [SUBSET (1 .. n) -> GoodBooks] : FoldsBy(f, n, bk, h)
  <2> HIDE DEF h
  <2>1. QED
    BY <1>3, <1>4, FoldExists
<1>6. ASSUME NEW r \in SUBSET (1 .. n)
      PROVE  f[r] = IF r = {} THEN bk ELSE Apply(f[r \ {Max(r)}], s[Max(r)])
  <2>1. r # {} => Max(r) \in 1 .. n /\ f[r \ {Max(r)}] \in GoodBooks
    BY MaxFacts
  <2>2. f[r] = IF r = {} THEN bk ELSE h[<<Max(r), f[r \ {Max(r)}]>>]
    BY <1>5 DEF FoldsBy
  <2>3. QED
    BY <2>1, <2>2
<1>7. Unfold(f)
  BY <1>1, <1>6
<1>8. PICK it : it = CHOOSE e : Unfold(e)
  OBVIOUS
<1>9. Unfold(it)
  <2> HIDE DEF Unfold
  <2>1. QED
    BY <1>7, <1>8
<1>10. /\ it[{}] = bk
       /\ \A k \in 1 .. n : it[1 .. k] = Apply(it[1 .. k - 1], s[k])
  <2>1. ASSUME NEW r \in SUBSET (1 .. n)
        PROVE  it[r] = IF r = {} THEN bk ELSE Apply(it[r \ {Max(r)}], s[Max(r)])
    BY <1>1, <1>9
  <2>2. ASSUME NEW k \in 1 .. n PROVE it[1 .. k] = Apply(it[1 .. k - 1], s[k])
    <3>1. 1 .. k \in SUBSET (1 .. n) /\ k \in 1 .. k /\ k \in Nat \ {0}
      OBVIOUS
    <3>2. Max(1 .. k) = k /\ (1 .. k) \ {k} = 1 .. k - 1
      BY <3>1, MaxOfFirst
    <3>3. QED
      BY <2>1, <3>1, <3>2
  <2>3. QED
    BY <2>1, <2>2
<1>11. FoldLeft(Apply, bk, s) = it[DOMAIN s]
  BY <1>8 DEF FoldLeft, MapThenFoldSet
<1>12. PICK g : g = [k \in 0 .. n |-> it[1 .. k]]
  OBVIOUS
<1>13. g[0] = bk /\ \A k \in 1 .. n : g[k] = Apply(g[k - 1], s[k])
  <2>1. 1 .. 0 = {} /\ 0 \in 0 .. n
    OBVIOUS
  <2>2. \A k \in 1 .. n : k \in 0 .. n /\ k - 1 \in 0 .. n
    OBVIOUS
  <2>3. QED
    BY <1>10, <1>12, <2>1, <2>2
<1>14. Leads(g, bk, s)
  BY <1>1, <1>12, <1>13 DEF Leads
<1>15. FoldLeft(Apply, bk, s) = g[n]
  BY <1>1, <1>11, <1>12
<1>16. QED
  BY <1>1, <1>14, <1>15

\* The fold is wherever the messages lead.
LEMMA FoldIs ==
  ASSUME NEW bk, GoodBook(bk), NEW s \in Seq(Message), NEW g, Leads(g, bk, s)
  PROVE  FoldLeft(Apply, bk, s) = g[Len(s)] /\ GoodBook(FoldLeft(Apply, bk, s))
<1>1. PICK h : Leads(h, bk, s) /\ FoldLeft(Apply, bk, s) = h[Len(s)]
  BY FoldLeads
<1>2. Len(s) \in 0 .. Len(s)
  OBVIOUS
<1>3. g[Len(s)] = h[Len(s)]
  BY <1>1, <1>2, LeadsOnce
<1>4. GoodBook(g[Len(s)])
  BY <1>2, LeadsGood
<1>5. QED
  BY <1>1, <1>3, <1>4

\* h gives what g gives, as far as it goes.
Extends(h, g, s) == \A k \in 0 .. Len(s) : h[k] = g[k]

\* h gives what g gives one place on.
Shifts(h, g, s) == \A k \in 0 .. Len(s) - 1 : h[k] = g[k + 1]

\* One message more.
LEMMA LeadsAppend ==
  ASSUME NEW bk, NEW s \in Seq(Message), NEW m \in Message, NEW g, Leads(g, bk, s)
  PROVE  \E h : /\ Leads(h, bk, Append(s, m))
                /\ h[Len(s) + 1] = Apply(g[Len(s)], m)
                /\ Extends(h, g, s)
<1>1. PICK n \in Nat : n = Len(s)
  OBVIOUS
<1>2. PICK t : t = Append(s, m)
  OBVIOUS
<1>3. Len(t) = n + 1 /\ t[n + 1] = m /\ \A k \in 1 .. n : t[k] = s[k]
  BY <1>1, <1>2, AppendProperties
<1>4. PICK h : h = [k \in 0 .. n + 1 |-> IF k <= n THEN g[k] ELSE Apply(g[n], m)]
  OBVIOUS
<1>5. h[n + 1] = Apply(g[n], m) /\ \A k \in 0 .. n : h[k] = g[k]
  BY <1>4
<1>6. g[0] = bk /\ \A k \in 1 .. n : g[k] = Apply(g[k - 1], s[k])
  BY <1>1 DEF Leads
<1>7. ASSUME NEW k \in 1 .. n + 1 PROVE h[k] = Apply(h[k - 1], t[k])
  <2>1. CASE k = n + 1
    <3>1. k - 1 = n /\ n \in 0 .. n
      BY <2>1
    <3>2. QED
      BY <1>3, <1>5, <2>1, <3>1
  <2>2. CASE k # n + 1
    <3>1. k \in 1 .. n /\ k - 1 \in 0 .. n /\ k \in 0 .. n
      BY <2>2
    <3>2. QED
      BY <1>3, <1>5, <1>6, <3>1
  <2>3. QED
    BY <2>1, <2>2
<1>8. h[0] = bk /\ DOMAIN h = 0 .. n + 1
  <2>1. 0 \in 0 .. n
    OBVIOUS
  <2>2. QED
    BY <1>4, <1>5, <1>6, <2>1
<1>9. Leads(h, bk, t)
  BY <1>3, <1>7, <1>8 DEF Leads
<1>10. Extends(h, g, s)
  BY <1>1, <1>5 DEF Extends
<1>11. QED
  BY <1>1, <1>2, <1>5, <1>9, <1>10

\* One message less.
LEMMA LeadsTail ==
  ASSUME NEW bk, NEW s \in Seq(Message), s # <<>>, NEW g, Leads(g, bk, s)
  PROVE  \E h : /\ Leads(h, Apply(bk, Head(s)), Tail(s))
                /\ Shifts(h, g, s)
<1>1. PICK n \in Nat : Len(s) = n + 1
  <2>1. Len(s) \in Nat /\ Len(s) # 0
    OBVIOUS
  <2>2. Len(s) - 1 \in Nat /\ Len(s) = (Len(s) - 1) + 1
    BY <2>1
  <2>3. QED
    BY <2>2
<1>2. PICK t : t = Tail(s)
  OBVIOUS
<1>3. Len(t) = n /\ \A k \in 1 .. n : t[k] = s[k + 1]
  BY <1>1, <1>2, HeadTailProperties
<1>4. PICK h : h = [k \in 0 .. n |-> g[k + 1]]
  OBVIOUS
<1>5. g[0] = bk /\ \A k \in 1 .. n + 1 : g[k] = Apply(g[k - 1], s[k])
  BY <1>1 DEF Leads
<1>6. h[0] = Apply(bk, Head(s))
  <2>1. 1 \in 1 .. n + 1 /\ 0 \in 0 .. n /\ Head(s) = s[1]
    BY <1>1
  <2>2. 1 - 1 = 0 /\ 0 + 1 = 1
    OBVIOUS
  <2>3. QED
    BY <1>4, <1>5, <2>1, <2>2
<1>7. ASSUME NEW k \in 1 .. n PROVE h[k] = Apply(h[k - 1], t[k])
  <2>1. /\ k + 1 \in 1 .. n + 1 /\ k - 1 \in 0 .. n /\ k \in 0 .. n
        /\ (k + 1) - 1 = k /\ (k - 1) + 1 = k
    OBVIOUS
  <2>2. g[k + 1] = Apply(g[k], s[k + 1])
    BY <1>5, <2>1
  <2>3. h[k] = g[k + 1] /\ h[k - 1] = g[k]
    BY <1>4, <2>1
  <2>4. QED
    BY <1>3, <2>2, <2>3
<1>8. Leads(h, Apply(bk, Head(s)), t)
  BY <1>3, <1>4, <1>6, <1>7 DEF Leads
<1>9. Shifts(h, g, s)
  BY <1>1, <1>4 DEF Shifts
<1>10. QED
  BY <1>2, <1>8, <1>9

\* A fold over one message more.
LEMMA FoldAppend ==
  ASSUME NEW bk, GoodBook(bk), NEW s \in Seq(Message), NEW m \in Message
  PROVE  FoldLeft(Apply, bk, Append(s, m)) = Apply(FoldLeft(Apply, bk, s), m)
<1>1. PICK g : Leads(g, bk, s) /\ FoldLeft(Apply, bk, s) = g[Len(s)]
  BY FoldLeads
<1>2. PICK h : Leads(h, bk, Append(s, m)) /\ h[Len(s) + 1] = Apply(g[Len(s)], m)
  BY <1>1, LeadsAppend
<1>3. PICK t : t = Append(s, m)
  OBVIOUS
<1>4. t \in Seq(Message) /\ Len(t) = Len(s) + 1
  BY <1>3, AppendProperties
<1>5. FoldLeft(Apply, bk, t) = h[Len(t)]
  BY <1>2, <1>3, <1>4, FoldIs
<1>6. QED
  BY <1>1, <1>2, <1>3, <1>4, <1>5

\* A fold may be begun with the first message.
LEMMA FoldHead ==
  ASSUME NEW bk, GoodBook(bk), NEW s \in Seq(Message), s # <<>>
  PROVE  FoldLeft(Apply, bk, s) = FoldLeft(Apply, Apply(bk, Head(s)), Tail(s))
<1>1. PICK g : Leads(g, bk, s) /\ FoldLeft(Apply, bk, s) = g[Len(s)]
  BY FoldLeads
<1>2. PICK h : /\ Leads(h, Apply(bk, Head(s)), Tail(s))
               /\ Shifts(h, g, s)
  BY <1>1, LeadsTail
<1>3. PICK t, b : t = Tail(s) /\ b = Apply(bk, Head(s))
  OBVIOUS
<1>4. Head(s) \in Message /\ t \in Seq(Message) /\ Len(t) = Len(s) - 1
  BY <1>3, HeadTailProperties
<1>5. Len(s) - 1 \in 0 .. Len(s) - 1 /\ (Len(s) - 1) + 1 = Len(s)
  <2>1. Len(s) \in Nat /\ Len(s) # 0
    OBVIOUS
  <2>2. QED
    BY <2>1
<1>6. GoodBook(b)
  BY <1>3, <1>4, ApplyGood
<1>7. FoldLeft(Apply, b, t) = h[Len(t)]
  BY <1>2, <1>3, <1>4, <1>6, FoldIs
<1>8. h[Len(t)] = g[Len(s)]
  BY <1>2, <1>4, <1>5 DEF Shifts
<1>9. QED
  BY <1>1, <1>3, <1>7, <1>8

\* Each cancel and each modify names an order of the book it will reach.
Named(bk, s) ==
  \E g : /\ Leads(g, bk, s)
         /\ \A k \in 1 .. Len(s) : s[k].op_code \in {"X", "M"} => Has(g[k - 1], s[k].order_id)

\* One more message that names such an order.
LEMMA NamedAppend ==
  ASSUME NEW bk, GoodBook(bk), NEW s \in Seq(Message), NEW m \in Message, Named(bk, s),
         m.op_code \in {"X", "M"} => Has(FoldLeft(Apply, bk, s), m.order_id)
  PROVE  Named(bk, Append(s, m))
<1>1. PICK g : /\ Leads(g, bk, s)
               /\ \A k \in 1 .. Len(s) : s[k].op_code \in {"X", "M"} => Has(g[k - 1], s[k].order_id)
  BY DEF Named
<1>2. PICK h : /\ Leads(h, bk, Append(s, m))
               /\ Extends(h, g, s)
  BY <1>1, LeadsAppend
<1>3. FoldLeft(Apply, bk, s) = g[Len(s)]
  BY <1>1, FoldIs
<1>4. PICK n, t : n = Len(s) /\ t = Append(s, m)
  OBVIOUS
<1>5. n \in Nat /\ Len(t) = n + 1 /\ t[n + 1] = m /\ \A k \in 1 .. n : t[k] = s[k]
  BY <1>4, AppendProperties
<1>6. ASSUME NEW k \in 1 .. n + 1, t[k].op_code \in {"X", "M"}
      PROVE  Has(h[k - 1], t[k].order_id)
  <2>1. CASE k = n + 1
    <3>1. k - 1 = n /\ n \in 0 .. n
      BY <1>5, <2>1
    <3>2. QED
      BY <1>2, <1>3, <1>4, <1>5, <1>6, <2>1, <3>1 DEF Extends
  <2>2. CASE k # n + 1
    <3>1. k \in 1 .. n /\ k - 1 \in 0 .. n
      BY <1>5, <2>2
    <3>2. QED
      BY <1>1, <1>2, <1>4, <1>5, <1>6, <3>1 DEF Extends
  <2>3. QED
    BY <2>1, <2>2
<1>7. Named(bk, t)
  BY <1>2, <1>4, <1>5, <1>6 DEF Named
<1>8. QED
  BY <1>4, <1>7

\* The first message names such an order, and so does each that follows it.
LEMMA NamedTail ==
  ASSUME NEW bk, GoodBook(bk), NEW s \in Seq(Message), s # <<>>, Named(bk, s)
  PROVE  /\ Head(s).op_code \in {"X", "M"} => Has(bk, Head(s).order_id)
         /\ Named(Apply(bk, Head(s)), Tail(s))
<1>1. PICK g : /\ Leads(g, bk, s)
               /\ \A k \in 1 .. Len(s) : s[k].op_code \in {"X", "M"} => Has(g[k - 1], s[k].order_id)
  BY DEF Named
<1>2. PICK h : /\ Leads(h, Apply(bk, Head(s)), Tail(s))
               /\ Shifts(h, g, s)
  BY <1>1, LeadsTail
<1>3. 1 \in 1 .. Len(s) /\ Head(s) = s[1] /\ 1 - 1 = 0
  <2>1. Len(s) \in Nat /\ Len(s) # 0
    OBVIOUS
  <2>2. QED
    BY <2>1
<1>4. g[0] = bk
  BY <1>1 DEF Leads
<1>5. Head(s).op_code \in {"X", "M"} => Has(bk, Head(s).order_id)
  BY <1>1, <1>3, <1>4
<1>6. PICK t : t = Tail(s)
  OBVIOUS
<1>7. Len(t) = Len(s) - 1 /\ (\A k \in 1 .. Len(t) : t[k] = s[k + 1]) /\ Len(s) \in Nat
  BY <1>6, HeadTailProperties
<1>8. ASSUME NEW k \in 1 .. Len(t), t[k].op_code \in {"X", "M"}
      PROVE  Has(h[k - 1], t[k].order_id)
  <2>1. /\ k + 1 \in 1 .. Len(s) /\ k - 1 \in 0 .. Len(s) - 1
        /\ (k + 1) - 1 = k /\ (k - 1) + 1 = k
    BY <1>7
  <2>2. Has(g[k], s[k + 1].order_id)
    BY <1>1, <1>7, <1>8, <2>1
  <2>3. h[k - 1] = g[k]
    BY <1>2, <2>1 DEF Shifts
  <2>4. QED
    BY <1>7, <2>2, <2>3
<1>9. QED
  BY <1>2, <1>5, <1>6, <1>8 DEF Named

-----------------------------------------------------------------------------
(* A shadow book, and the ids that are remembered of it.                     *)

\* Every order of the book is remembered.
Remembered(bk, ids) == \A x : Has(bk, x) => x \in ToSet(ids)

\* Only the ids of orders rest.
LEMMA HasOrderId ==
  ASSUME NEW bk \in AnyBook, NEW x, Has(bk, x)
  PROVE  x \in OrderId
<1>1. PICK s \in Side, p \in Price : \E i \in DOMAIN bk[s][p] : bk[s][p][i].id = x
  BY HasFacts
<1>2. bk[s][p] \in Seq(Order)
  BY DEF AnyBook
<1>3. QED
  BY <1>1, <1>2, QueueFacts

\* Applying a message and remembering its order.
LEMMA RememberIs ==
  ASSUME NEW st, NEW msg, NEW bk, bk = Apply(st.shadow, msg)
  PROVE  applyAndRemember(st, msg)
           = [shadow |-> bk,
              live   |-> IF msg.op_code \in {"N", "M"} /\ Has(bk, msg.order_id)
                         THEN Append(st.live, msg.order_id) ELSE st.live]
<1> DEFINE Pair(b) == [shadow |-> b,
                       live   |-> IF msg.op_code \in {"N", "M"} /\ Has(b, msg.order_id)
                                  THEN Append(st.live, msg.order_id) ELSE st.live]
<1>1. applyAndRemember(st, msg) = With(bk, Pair)
  BY DEF applyAndRemember
<1> HIDE DEF Pair
<1>2. {Pair(b) : b \in {bk}} = {Pair(bk)}
  OBVIOUS
<1>3. With(bk, Pair) = Pair(bk)
  BY <1>2 DEF With
<1>4. QED
  BY <1>1, <1>3 DEF Pair

\* A shadow book that is good and whose orders are all remembered.
FeedStates == {st \in [shadow : AnyBook, live : Seq(OrderId)] :
                 GoodBook(st.shadow) /\ Remembered(st.shadow, st.live)}

\* What is remembered of one more id.
LEMMA RememberOne ==
  ASSUME NEW ids \in Seq(OrderId), NEW id \in OrderId
  PROVE  /\ Append(ids, id) \in Seq(OrderId)
         /\ \A x : x \in ToSet(Append(ids, id)) <=> x \in ToSet(ids) \/ x = id
<1>1. PICK n \in Nat : n = Len(ids)
  OBVIOUS
<1>2. PICK t : t = Append(ids, id)
  OBVIOUS
<1>3. t \in Seq(OrderId) /\ Len(t) = n + 1 /\ t[n + 1] = id /\ \A i \in 1 .. n : t[i] = ids[i]
  BY <1>1, <1>2, AppendProperties
<1>4. DOMAIN t = 1 .. n + 1 /\ DOMAIN ids = 1 .. n
  BY <1>1, <1>3
<1>5. n + 1 \in 1 .. n + 1 /\ \A i \in 1 .. n + 1 : i = n + 1 \/ i \in 1 .. n
  OBVIOUS
<1>6. \A i \in 1 .. n : i \in 1 .. n + 1
  OBVIOUS
<1>7. ASSUME NEW x PROVE x \in ToSet(t) <=> x \in ToSet(ids) \/ x = id
  BY <1>3, <1>4, <1>5, <1>6 DEF ToSet
<1>8. QED
  BY <1>3, <1>7, <1>2

\* Applying a message and remembering its order keeps that so.
LEMMA RememberGood ==
  ASSUME NEW bk, NEW ids, [shadow |-> bk, live |-> ids] \in FeedStates, NEW msg \in Message,
         NEW st, st = applyAndRemember([shadow |-> bk, live |-> ids], msg)
  PROVE  st \in FeedStates /\ st.shadow = Apply(bk, msg)
<1>1. GoodBook(bk) /\ ids \in Seq(OrderId) /\ Remembered(bk, ids)
  BY DEF FeedStates
<1>2. PICK nb, op, id : nb = Apply(bk, msg) /\ op = msg.op_code /\ id = msg.order_id
  OBVIOUS
<1>3. /\ GoodBook(nb) /\ nb \in AnyBook
      /\ \A x : Has(nb, x) => Has(bk, x) \/ (op \in {"N", "M"} /\ x = id)
  BY <1>1, <1>2, ApplyGood DEF GoodBook
<1>4. PICK left : left = IF op \in {"N", "M"} /\ Has(nb, id) THEN Append(ids, id) ELSE ids
  OBVIOUS
<1>5. st = [shadow |-> nb, live |-> left]
  <2>1. PICK s : s = [shadow |-> bk, live |-> ids]
    OBVIOUS
  <2>2. s.shadow = bk /\ s.live = ids
    BY <2>1
  <2>3. applyAndRemember(s, msg)
          = [shadow |-> nb,
             live   |-> IF msg.op_code \in {"N", "M"} /\ Has(nb, msg.order_id)
                        THEN Append(s.live, msg.order_id) ELSE s.live]
    BY <1>2, <2>2, RememberIs
  <2>4. QED
    BY <1>2, <1>4, <2>1, <2>2, <2>3
<1>6. left \in Seq(OrderId) /\ Remembered(nb, left)
  <2>1. CASE op \in {"N", "M"} /\ Has(nb, id)
    <3>1. id \in OrderId
      BY <1>3, <2>1, HasOrderId
    <3>2. /\ left \in Seq(OrderId)
          /\ \A x : x \in ToSet(left) <=> x \in ToSet(ids) \/ x = id
      BY <1>1, <1>4, <2>1, <3>1, RememberOne
    <3>3. QED
      BY <1>1, <1>3, <3>2 DEF Remembered
  <2>2. CASE ~(op \in {"N", "M"} /\ Has(nb, id))
    <3>1. left = ids
      BY <1>4, <2>2
    <3>2. \A x : Has(nb, x) => Has(bk, x)
      BY <1>3, <2>2
    <3>3. QED
      BY <1>1, <3>1, <3>2 DEF Remembered
  <2>3. QED
    BY <2>1, <2>2
<1>7. QED
  BY <1>2, <1>3, <1>5, <1>6 DEF FeedStates

\* Applying a sequence of messages and remembering their orders.
LEMMA FoldRemembered ==
  ASSUME NEW st \in FeedStates, NEW s \in Seq(Message)
  PROVE  /\ FoldLeft(applyAndRemember, st, s) \in FeedStates
         /\ FoldLeft(applyAndRemember, st, s).shadow = FoldLeft(Apply, st.shadow, s)
<1>1. PICK n \in Nat : n = Len(s) /\ DOMAIN s = 1 .. n
  OBVIOUS
<1>2. \A k \in 1 .. n : s[k] \in Message
  BY <1>1
<1> DEFINE h == [x \in (1 .. n) \X FeedStates |-> applyAndRemember(x[2], s[x[1]])]
           Unfold(f) == f = [r \in SUBSET DOMAIN s |->
                               IF r = {} THEN st ELSE applyAndRemember(f[r \ {Max(r)}], s[Max(r)])]
<1>3. ASSUME NEW k \in 1 .. n, NEW b \in FeedStates
      PROVE  /\ applyAndRemember(b, s[k]) \in FeedStates
             /\ applyAndRemember(b, s[k]).shadow = Apply(b.shadow, s[k])
  <2>1. PICK bk, ids : bk = b.shadow /\ ids = b.live
    OBVIOUS
  <2>2. b = [shadow |-> bk, live |-> ids]
    BY <2>1 DEF FeedStates
  <2>3. PICK c : c = applyAndRemember([shadow |-> bk, live |-> ids], s[k])
    OBVIOUS
  <2>4. c \in FeedStates /\ c.shadow = Apply(bk, s[k])
    BY <1>2, <2>2, <2>3, RememberGood
  <2>5. QED
    BY <2>1, <2>2, <2>3, <2>4
<1>4. h \in [(1 .. n) \X FeedStates -> FeedStates]
  BY <1>3
<1>5. PICK f \in [SUBSET (1 .. n) -> FeedStates] : FoldsBy(f, n, st, h)
  <2> HIDE DEF h
  <2>1. QED
    BY <1>4, FoldExists
<1>6. ASSUME NEW r \in SUBSET (1 .. n)
      PROVE  f[r] = IF r = {} THEN st ELSE applyAndRemember(f[r \ {Max(r)}], s[Max(r)])
  <2>1. r # {} => Max(r) \in 1 .. n /\ f[r \ {Max(r)}] \in FeedStates
    BY MaxFacts
  <2>2. f[r] = IF r = {} THEN st ELSE h[<<Max(r), f[r \ {Max(r)}]>>]
    BY <1>5 DEF FoldsBy
  <2>3. QED
    BY <2>1, <2>2
<1>7. Unfold(f)
  BY <1>1, <1>6
<1>8. PICK it : it = CHOOSE e : Unfold(e)
  OBVIOUS
<1>9. Unfold(it)
  <2> HIDE DEF Unfold
  <2>1. QED
    BY <1>7, <1>8
<1>10. /\ it[{}] = st
       /\ \A k \in 1 .. n : it[1 .. k] = applyAndRemember(it[1 .. k - 1], s[k])
  <2>1. ASSUME NEW r \in SUBSET (1 .. n)
        PROVE  it[r] = IF r = {} THEN st ELSE applyAndRemember(it[r \ {Max(r)}], s[Max(r)])
    BY <1>1, <1>9
  <2>2. ASSUME NEW k \in 1 .. n PROVE it[1 .. k] = applyAndRemember(it[1 .. k - 1], s[k])
    <3>1. 1 .. k \in SUBSET (1 .. n) /\ k \in 1 .. k /\ k \in Nat \ {0}
      OBVIOUS
    <3>2. Max(1 .. k) = k /\ (1 .. k) \ {k} = 1 .. k - 1
      BY <3>1, MaxOfFirst
    <3>3. QED
      BY <2>1, <3>1, <3>2
  <2>3. QED
    BY <2>1, <2>2
<1>11. FoldLeft(applyAndRemember, st, s) = it[DOMAIN s]
  BY <1>8 DEF FoldLeft, MapThenFoldSet
<1>12. PICK c : c = [k \in 0 .. n |-> it[1 .. k]]
  OBVIOUS
<1>13. c[0] = st /\ c[n] = it[1 .. n] /\ \A k \in 1 .. n : c[k] = applyAndRemember(c[k - 1], s[k])
  <2>1. 1 .. 0 = {} /\ 0 \in 0 .. n /\ n \in 0 .. n
    OBVIOUS
  <2>2. \A k \in 1 .. n : k \in 0 .. n /\ k - 1 \in 0 .. n
    OBVIOUS
  <2>3. QED
    BY <1>10, <1>12, <2>1, <2>2
<1>14. ASSUME NEW k \in 0 .. n PROVE c[k] \in FeedStates
  <2> DEFINE T == {x \in Nat : x <= n /\ c[x] \notin FeedStates}
  <2>1. SUFFICES ASSUME T # {} PROVE FALSE
    OBVIOUS
  <2>2. T \in SUBSET Nat
    OBVIOUS
  <2>3. PICK j \in T : \A x \in T : j <= x
    <3> HIDE DEF T
    <3>1. QED
      BY <2>1, <2>2, SmallestNat
  <2>4. j # 0 /\ j \in 1 .. n
    BY <1>13, <2>2
  <2>5. j - 1 \in Nat /\ j - 1 <= n /\ ~(j <= j - 1)
    BY <2>2, <2>4
  <2>6. c[j - 1] \in FeedStates
    BY <2>3, <2>5
  <2>7. c[j] \in FeedStates
    BY <1>3, <1>13, <2>4, <2>6
  <2>8. QED
    BY <2>3, <2>7
<1>15. PICK g : g = [k \in 0 .. n |-> c[k].shadow]
  OBVIOUS
<1>16. Leads(g, st.shadow, s)
  <2>1. ASSUME NEW k \in 1 .. n PROVE g[k] = Apply(g[k - 1], s[k])
    <3>1. k \in 0 .. n /\ k - 1 \in 0 .. n
      OBVIOUS
    <3>2. c[k].shadow = Apply(c[k - 1].shadow, s[k])
      BY <1>3, <1>13, <1>14, <3>1
    <3>3. QED
      BY <1>15, <3>1, <3>2
  <2>2. 0 \in 0 .. n
    OBVIOUS
  <2>3. QED
    BY <1>1, <1>13, <1>15, <2>1, <2>2 DEF Leads
<1>17. GoodBook(st.shadow)
  BY DEF FeedStates
<1>18. FoldLeft(Apply, st.shadow, s) = g[n]
  BY <1>1, <1>16, <1>17, FoldIs
<1>19. QED
  <2>1. n \in 0 .. n
    OBVIOUS
  <2>2. QED
    BY <1>1, <1>11, <1>13, <1>14, <1>15, <1>18, <2>1

-----------------------------------------------------------------------------
(* The generator.                                                            *)

\* The invariant of the generator: typing, a good shadow book whose orders are all
\* remembered, and nothing pending while an id is drawn.
FeedInv ==
  /\ FeedTypeOK
  /\ [shadow |-> shadow, live |-> live] \in FeedStates
  /\ drawing # None => pending = <<>>

\* Every action but the replay.
FeedNext ==
  \/ SendPending \/ NewOrder \/ StartDraw \/ DropStale \/ makeCancel \/ makeModify
  \/ GiveUp \/ CrossNobody \/ makeCrossingNew

\* A message is made while nothing is pending, and perhaps a trade message after it.
Emitted(msg, trade) ==
  /\ pending = <<>>
  /\ msg \in FeedMessage
  /\ trade \in FeedMessage /\ trade.op_code = "T"
  /\ msg.op_code \in {"X", "M"} => Has(shadow, msg.order_id)
  /\ shadow' = Apply(shadow, msg)
  /\ stream' = Append(stream, msg)
  /\ pending' \in {pending, Append(pending, trade)}

\* The ids are numbers from 1.
LEMMA FeedFacts ==
  /\ Cardinality(OrderId) \in Nat /\ IsFiniteSet(OrderId) /\ OrderId = 1 .. Cardinality(OrderId)
  /\ \A id \in OrderId : id # ZeroId /\ id + 1 \in 1 .. Cardinality(OrderId) + 1
<1>1. Cardinality(OrderId) \in Nat /\ IsFiniteSet(OrderId) /\ OrderId = 1 .. Cardinality(OrderId)
  BY FeedAssumption, FS_CardinalityType
<1>2. PICK n \in Nat : n = Cardinality(OrderId)
  BY <1>1
<1>3. \A id \in 1 .. n : id # 0 /\ id + 1 \in 1 .. n + 1
  OBVIOUS
<1>4. ZeroId = 0
  BY FeedAssumption
<1>5. QED
  BY <1>1, <1>2, <1>3, <1>4

\* The messages the generator makes.
LEMMA MessageFacts ==
  ASSUME NEW side \in Side, NEW price \in Price, NEW qty \in Qty
  PROVE  /\ \A id \in OrderId, op \in {"N", "X", "M"} :
              orderMessage(op, side, id, price, qty) \in FeedMessage
         /\ tradeMessage(side, price, qty) \in FeedMessage
         /\ tradeMessage(side, price, qty).op_code = "T"
<1>1. ASSUME NEW id \in OrderId, NEW op \in {"N", "X", "M"}
      PROVE  orderMessage(op, side, id, price, qty) \in FeedMessage
  BY FeedFacts DEF orderMessage, FeedMessage, Message, OpCode
<1>2. tradeMessage(side, price, qty) \in FeedMessage /\ tradeMessage(side, price, qty).op_code = "T"
  BY DEF tradeMessage, orderMessage, FeedMessage, Message, OpCode
<1>3. QED
  BY <1>1, <1>2

\* A message is one of the feed's.
LEMMA FeedMessages ==
  ASSUME NEW s \in Seq(FeedMessage)
  PROVE  s \in Seq(Message)
<1>1. FeedMessage \subseteq Message
  BY DEF FeedMessage
<1>2. QED
  BY <1>1, SeqMonotonic

\* What Emit() does to the invariant.
LEMMA EmitKeeps ==
  ASSUME FeedInv, pending = <<>>, NEW msg \in FeedMessage, Emit(msg),
         msg.op_code \in {"X", "M"} => Has(shadow, msg.order_id),
         NEW trade \in FeedMessage, trade.op_code = "T",
         pending' \in {pending, Append(pending, trade)},
         next_order_id' \in 1 .. Cardinality(OrderId) + 1
  PROVE  FeedInv' /\ Emitted(msg, trade)
<1>1. PICK st : st = applyAndRemember([shadow |-> shadow, live |-> live], msg)
  OBVIOUS
<1>2. /\ shadow' = st.shadow /\ live' = st.live /\ drawing' = None
      /\ stream' = Append(stream, msg) /\ min_spread_ticks' = min_spread_ticks
  BY <1>1 DEF Emit
<1>3. msg \in Message
  BY DEF FeedMessage
<1>4. st \in FeedStates /\ st.shadow = Apply(shadow, msg)
  BY <1>1, <1>3, RememberGood DEF FeedInv
<1>5. st = [shadow |-> shadow', live |-> live'] /\ shadow' \in AnyBook /\ live' \in Seq(OrderId)
  BY <1>2, <1>4 DEF FeedStates
<1>6. stream' \in Seq(FeedMessage)
  BY <1>2, AppendProperties DEF FeedInv, FeedTypeOK
<1>7. pending' \in Seq(FeedMessage)
  <2>1. pending \in Seq(FeedMessage)
    BY DEF FeedInv, FeedTypeOK
  <2>2. Append(pending, trade) \in Seq(FeedMessage)
    BY <2>1, AppendProperties
  <2>3. QED
    BY <2>1, <2>2
<1>8. FeedTypeOK'
  BY <1>2, <1>5, <1>6, <1>7 DEF FeedInv, FeedTypeOK, AnyBook
<1>9. FeedInv'
  BY <1>2, <1>4, <1>5, <1>8 DEF FeedInv
<1>10. Emitted(msg, trade)
  BY <1>2, <1>4 DEF Emitted
<1>11. QED
  BY <1>9, <1>10

\* A trade message to speak of.
LEMMA SomeTrade == \E trade \in FeedMessage : trade.op_code = "T"
<1>1. "Bid" \in Side /\ 0 \in Qty /\ 0 \in Price
  BY TypesAssumption, FeedAssumption DEF Side, Qty
<1>2. QED
  BY <1>1, MessageFacts

\* A new order of the generator.
LEMMA MakeNewKeeps ==
  ASSUME FeedInv, pending = <<>>, NEW mode, makeNew(mode)
  PROVE  FeedInv' /\ \E msg, trade : Emitted(msg, trade)
<1>1. PICK side, qty, price :
        /\ side \in Side /\ qty \in 1 .. MaxQty /\ price \in randomPrices(side, mode)
        /\ Emit(orderMessage("N", side, next_order_id, price, qty))
  BY DEF makeNew
<1>2. price \in Price /\ qty \in Qty
  BY <1>1, TypesAssumption DEF randomPrices, Qty
<1>3. next_order_id \in OrderId /\ next_order_id' = next_order_id + 1 /\ pending' = pending
  BY DEF makeNew
<1>4. PICK msg \in FeedMessage : /\ msg = orderMessage("N", side, next_order_id, price, qty)
                                 /\ msg.op_code = "N"
  <2>1. orderMessage("N", side, next_order_id, price, qty) \in FeedMessage
    BY <1>1, <1>2, <1>3, MessageFacts
  <2>2. QED
    BY <2>1 DEF orderMessage
<1>5. PICK trade \in FeedMessage : trade.op_code = "T"
  BY SomeTrade
<1>6. next_order_id' \in 1 .. Cardinality(OrderId) + 1
  BY <1>3, FeedFacts
<1>7. FeedInv' /\ Emitted(msg, trade)
  BY <1>1, <1>3, <1>4, <1>5, <1>6, EmitKeeps
<1>8. QED
  BY <1>7

\* A modify or cancel of an order that rests.
LEMMA DrawnKeeps ==
  ASSUME FeedInv, pending = <<>>, NEW op \in {"X", "M"}, NEW i \in DOMAIN live, isLive(live[i]),
         NEW side, side = SideOf(shadow, live[i]), NEW price \in Price, NEW qty \in Qty,
         Emit(orderMessage(op, side, live[i], price, qty)),
         UNCHANGED <<pending, next_order_id>>
  PROVE  FeedInv' /\ \E msg, trade : Emitted(msg, trade)
<1>1. PICK id : id = live[i]
  OBVIOUS
<1>2. id \in OrderId /\ Has(shadow, id)
  <2>1. live \in Seq(OrderId)
    BY DEF FeedInv, FeedTypeOK
  <2>2. live[i] \in OrderId
    BY <2>1
  <2>3. QED
    BY <1>1, <2>2 DEF isLive
<1>3. side \in Side
  BY <1>1, <1>2, SideOfFacts
<1>4. PICK msg \in FeedMessage : /\ msg = orderMessage(op, side, id, price, qty)
                                 /\ msg.order_id = id
  <2>1. orderMessage(op, side, id, price, qty) \in FeedMessage
    BY <1>1, <1>2, <1>3, MessageFacts
  <2>2. QED
    BY <2>1 DEF orderMessage
<1>5. PICK trade \in FeedMessage : trade.op_code = "T"
  BY SomeTrade
<1>6. next_order_id' \in 1 .. Cardinality(OrderId) + 1
  BY DEF FeedInv, FeedTypeOK
<1>7. FeedInv' /\ Emitted(msg, trade)
  BY <1>1, <1>2, <1>4, <1>5, <1>6, EmitKeeps
<1>8. QED
  BY <1>7

\* Discarding an id that does not rest.
LEMMA SwapRemovedFacts ==
  ASSUME NEW ids \in Seq(OrderId), NEW i \in DOMAIN ids
  PROVE  /\ swapRemoved(ids, i) \in Seq(OrderId)
         /\ \A x \in ToSet(ids) : x # ids[i] => x \in ToSet(swapRemoved(ids, i))
<1>1. PICK n \in Nat : n = Len(ids) /\ DOMAIN ids = 1 .. n
  OBVIOUS
<1>2. PICK t : t = [ids EXCEPT ![i] = ids[n]]
  OBVIOUS
<1>3. i \in 1 .. n /\ n \in 1 .. n
  BY <1>1
<1>4. t \in Seq(OrderId) /\ Len(t) = n /\ \A k \in 1 .. n : t[k] = IF k = i THEN ids[n] ELSE ids[k]
  <2>1. ids[n] \in OrderId
    BY <1>1, <1>3
  <2>2. t \in Seq(OrderId) /\ Len(t) = Len(ids)
    BY <1>2, <2>1, ExceptSeq
  <2>3. QED
    BY <1>1, <1>2, <2>2
<1>5. PICK u : u = SubSeq(t, 1, n - 1)
  OBVIOUS
<1>6. u \in Seq(OrderId) /\ Len(u) = n - 1 /\ \A k \in 1 .. n - 1 : u[k] = t[k]
  <2>1. 1 \in Int /\ n - 1 \in Int /\ \A k \in 1 .. n - 1 : t[k] \in OrderId
    BY <1>4
  <2>2. /\ SubSeq(t, 1, n - 1) \in Seq(OrderId)
        /\ Len(SubSeq(t, 1, n - 1)) = IF 1 <= n - 1 THEN (n - 1) - 1 + 1 ELSE 0
        /\ \A k \in 1 .. (n - 1) - 1 + 1 : SubSeq(t, 1, n - 1)[k] = t[1 + k - 1]
    BY <2>1, SubSeqProperties
  <2>3. (n - 1) - 1 + 1 = n - 1 /\ (\A k \in 1 .. n - 1 : 1 + k - 1 = k) /\ n >= 1
    BY <1>3
  <2>4. QED
    BY <1>5, <2>2, <2>3
<1>7. ASSUME NEW x \in ToSet(ids), x # ids[i] PROVE x \in ToSet(u)
  <2>1. PICK k \in 1 .. n : x = ids[k]
    BY <1>1, <1>7 DEF ToSet
  <2>2. DOMAIN u = 1 .. n - 1
    BY <1>6
  <2>3. CASE k # n
    <3>1. k \in 1 .. n - 1 /\ k # i
      BY <1>7, <2>1, <2>3
    <3>2. u[k] = x
      BY <1>4, <1>6, <2>1, <3>1
    <3>3. QED
      BY <2>2, <3>1, <3>2 DEF ToSet
  <2>4. CASE k = n
    <3>1. i \in 1 .. n - 1
      BY <1>3, <1>7, <2>1, <2>4
    <3>2. u[i] = x
      BY <1>3, <1>4, <1>6, <2>1, <2>4, <3>1
    <3>3. QED
      BY <2>2, <3>1, <3>2 DEF ToSet
  <2>5. QED
    BY <2>3, <2>4
<1>8. u = swapRemoved(ids, i)
  BY <1>1, <1>2, <1>5 DEF swapRemoved
<1>9. QED
  BY <1>6, <1>7, <1>8

\* Every action of the generator preserves the invariant and makes a message, sends a
\* pending one or does neither.
LEMMA FeedStep ==
  ASSUME FeedInv, FeedNext
  PROVE  /\ FeedInv'
         /\ \/ \E msg, trade : Emitted(msg, trade)
            \/ SendPending
            \/ UNCHANGED <<shadow, stream, pending>>
<1>1. /\ pending \in Seq(FeedMessage) /\ stream \in Seq(FeedMessage) /\ live \in Seq(OrderId)
      /\ shadow \in AnyBook
  BY DEF FeedInv, FeedTypeOK, AnyBook
<1>2. CASE SendPending
  <2>1. Head(pending) \in FeedMessage /\ Tail(pending) \in Seq(FeedMessage)
    BY <1>1, <1>2, HeadTailProperties DEF SendPending
  <2>2. stream' \in Seq(FeedMessage) /\ pending' \in Seq(FeedMessage)
    BY <1>1, <1>2, <2>1, AppendProperties DEF SendPending
  <2>3. FeedTypeOK'
    BY <1>2, <2>2 DEF SendPending, FeedInv, FeedTypeOK
  <2>4. FeedInv'
    BY <1>2, <2>3 DEF SendPending, FeedInv
  <2>5. QED
    BY <1>2, <2>4
<1>3. CASE NewOrder
  BY <1>3, MakeNewKeeps DEF NewOrder, Ready
<1>4. CASE StartDraw
  <2>1. PICK op \in {"M", "X"} : drawing' = [op_code |-> op, attempts |-> 0]
    BY <1>4 DEF StartDraw
  <2>2. drawing' \in Drawing
    BY <2>1, FeedAssumption DEF Drawing
  <2>3. /\ UNCHANGED <<min_spread_ticks, shadow, live, pending, next_order_id, stream>>
        /\ pending = <<>>
    BY <1>4 DEF StartDraw, Ready
  <2>4. FeedTypeOK'
    BY <2>2, <2>3 DEF FeedInv, FeedTypeOK
  <2>5. FeedInv'
    BY <2>3, <2>4 DEF FeedInv
  <2>6. QED
    BY <2>3, <2>5
<1>5. CASE DropStale
  <2>1. PICK i \in DOMAIN live : ~Has(shadow, live[i]) /\ live' = swapRemoved(live, i)
    BY <1>5 DEF DropStale, isLive
  <2>2. /\ live' \in Seq(OrderId)
        /\ \A x \in ToSet(live) : x # live[i] => x \in ToSet(live')
    BY <1>1, <2>1, SwapRemovedFacts
  <2>3. /\ UNCHANGED <<min_spread_ticks, shadow, pending, next_order_id, stream>>
        /\ drawing # None /\ drawing.attempts < MaxAttempts
        /\ drawing' = [drawing EXCEPT !.attempts = drawing.attempts + 1]
    BY <1>5 DEF DropStale, Attempting
  <2>4. drawing' \in Drawing
    <3>1. drawing \in Drawing
      BY <2>3 DEF FeedInv, FeedTypeOK
    <3>2. drawing.attempts + 1 \in 0 .. MaxAttempts
      BY <2>3, <3>1, FeedAssumption DEF Drawing
    <3>3. QED
      BY <2>3, <3>1, <3>2 DEF Drawing
  <2>5. FeedTypeOK'
    BY <2>2, <2>3, <2>4 DEF FeedInv, FeedTypeOK
  <2>6. Remembered(shadow, live')
    BY <2>1, <2>2 DEF FeedInv, FeedStates, Remembered
  <2>7. [shadow |-> shadow', live |-> live'] \in FeedStates
    BY <1>1, <2>2, <2>3, <2>6 DEF FeedInv, FeedStates
  <2>8. FeedInv'
    BY <2>3, <2>5, <2>7 DEF FeedInv
  <2>9. QED
    BY <2>3, <2>8
<1>6. CASE makeCancel
  <2>1. PICK i \in DOMAIN live :
          isLive(live[i]) /\ Emit(orderMessage("X", SideOf(shadow, live[i]), live[i], 0, 0))
    BY <1>6 DEF makeCancel
  <2>2. pending = <<>> /\ UNCHANGED <<pending, next_order_id>>
    BY <1>6 DEF makeCancel, Attempting, FeedInv
  <2>3. 0 \in Price /\ 0 \in Qty /\ "X" \in {"X", "M"}
    BY FeedAssumption, TypesAssumption DEF Qty
  <2>4. QED
    BY <2>1, <2>2, <2>3, DrawnKeeps
<1>7. CASE makeModify
  <2>1. PICK i \in DOMAIN live, qty \in 1 .. MaxQty, mode \in {"Wide", "NearTouch"} :
          /\ isLive(live[i])
          /\ \E price \in randomPrices(SideOf(shadow, live[i]), mode) :
               Emit(orderMessage("M", SideOf(shadow, live[i]), live[i], price, qty))
    BY <1>7 DEF makeModify
  <2>2. PICK price \in randomPrices(SideOf(shadow, live[i]), mode) :
          Emit(orderMessage("M", SideOf(shadow, live[i]), live[i], price, qty))
    BY <2>1
  <2>3. pending = <<>> /\ UNCHANGED <<pending, next_order_id>>
    BY <1>7 DEF makeModify, Attempting, FeedInv
  <2>4. price \in Price /\ qty \in Qty /\ "M" \in {"X", "M"}
    BY TypesAssumption DEF Qty, randomPrices
  <2>5. QED
    BY <2>1, <2>2, <2>3, <2>4, DrawnKeeps
<1>8. CASE GiveUp
  BY <1>8, MakeNewKeeps DEF GiveUp, FeedInv
<1>9. CASE CrossNobody
  BY <1>9, MakeNewKeeps DEF CrossNobody, Ready
<1>10. CASE makeCrossingNew
  <2>1. PICK side, qty, best, price :
          /\ side \in Side /\ qty \in 1 .. MaxQty
          /\ best = Best(shadow, Opposite(side)) /\ best # None
          /\ price \in Price
          /\ Emit(orderMessage("N", side, next_order_id, price, qty))
          /\ pending' = Append(pending, tradeMessage(side, best.price, qty))
    BY <1>10 DEF makeCrossingNew
  <2>2. pending = <<>> /\ next_order_id \in OrderId /\ next_order_id' = next_order_id + 1
    BY <1>10 DEF makeCrossingNew, Ready
  <2>3. qty \in Qty
    BY <2>1, TypesAssumption DEF Qty
  <2>4. best.price \in Price
    <3>1. PICK s \in Side : s = Opposite(side)
      BY <2>1, SideFacts
    <3>2. Active(shadow, s) \in SUBSET Price /\ Active(shadow, s) # {}
      BY <2>1, <3>1 DEF Active, Best
    <3>3. BestOf(s, Active(shadow, s)) \in Price
      BY <3>2, BestOfExists
    <3>4. QED
      BY <2>1, <3>1, <3>2, <3>3 DEF Best
  <2>5. PICK msg \in FeedMessage : /\ msg = orderMessage("N", side, next_order_id, price, qty)
                                   /\ msg.op_code = "N"
    <3>1. orderMessage("N", side, next_order_id, price, qty) \in FeedMessage
      BY <2>1, <2>2, <2>3, MessageFacts
    <3>2. QED
      BY <3>1 DEF orderMessage
  <2>6. PICK trade \in FeedMessage : /\ trade = tradeMessage(side, best.price, qty)
                                     /\ trade.op_code = "T"
    BY <2>1, <2>3, <2>4, MessageFacts
  <2>7. next_order_id' \in 1 .. Cardinality(OrderId) + 1
    BY <2>2, FeedFacts
  <2>8. FeedInv' /\ Emitted(msg, trade)
    BY <2>1, <2>2, <2>5, <2>6, <2>7, EmitKeeps
  <2>9. QED
    BY <2>8
<1>11. QED
  BY <1>2, <1>3, <1>4, <1>5, <1>6, <1>7, <1>8, <1>9, <1>10 DEF FeedNext

-----------------------------------------------------------------------------
(* The replay.                                                               *)

\* Moving the head of one sequence to the back of the one before it.
LEMMA SendOne ==
  ASSUME NEW S, NEW s \in Seq(S), NEW p \in Seq(S), p # <<>>
  PROVE  Append(s, Head(p)) \o Tail(p) = s \o p
<1>1. PICK n \in Nat : n = Len(s)
  OBVIOUS
<1>2. PICK m \in Nat : Len(p) = m + 1
  <2>1. Len(p) \in Nat /\ Len(p) # 0
    OBVIOUS
  <2>2. Len(p) - 1 \in Nat /\ Len(p) = (Len(p) - 1) + 1
    BY <2>1
  <2>3. QED
    BY <2>2
<1>3. PICK a, t, x, y : a = Append(s, Head(p)) /\ t = Tail(p) /\ x = a \o t /\ y = s \o p
  OBVIOUS
<1>4. Head(p) \in S /\ Head(p) = p[1]
  BY HeadTailProperties
<1>5. a \in Seq(S) /\ Len(a) = n + 1 /\ a[n + 1] = p[1] /\ \A i \in 1 .. n : a[i] = s[i]
  BY <1>1, <1>3, <1>4, AppendProperties
<1>6. t \in Seq(S) /\ Len(t) = m /\ \A i \in 1 .. m : t[i] = p[i + 1]
  BY <1>2, <1>3, HeadTailProperties
<1>7. /\ x \in Seq(S) /\ Len(x) = (n + 1) + m
      /\ \A i \in 1 .. (n + 1) + m : x[i] = IF i <= n + 1 THEN a[i] ELSE t[i - (n + 1)]
  <2>1. /\ a \o t \in Seq(S) /\ Len(a \o t) = Len(a) + Len(t)
        /\ \A i \in 1 .. Len(a) + Len(t) : (a \o t)[i] = IF i <= Len(a) THEN a[i] ELSE t[i - Len(a)]
    BY <1>5, <1>6, ConcatProperties
  <2>2. QED
    BY <1>3, <1>5, <1>6, <2>1
<1>8. /\ y \in Seq(S) /\ Len(y) = n + (m + 1)
      /\ \A i \in 1 .. n + (m + 1) : y[i] = IF i <= n THEN s[i] ELSE p[i - n]
  <2>1. /\ s \o p \in Seq(S) /\ Len(s \o p) = Len(s) + Len(p)
        /\ \A i \in 1 .. Len(s) + Len(p) : (s \o p)[i] = IF i <= Len(s) THEN s[i] ELSE p[i - Len(s)]
    BY ConcatProperties
  <2>2. QED
    BY <1>1, <1>2, <1>3, <2>1
<1>9. ASSUME NEW i \in 1 .. n + (m + 1) PROVE x[i] = y[i]
  <2>1. i \in 1 .. (n + 1) + m /\ i \in Nat
    OBVIOUS
  <2>2. CASE i <= n
    BY <1>5, <1>7, <1>8, <2>1, <2>2
  <2>3. CASE i = n + 1
    <3>1. i - n = 1 /\ i <= n + 1 /\ ~(i <= n)
      BY <2>3
    <3>2. QED
      BY <1>5, <1>7, <1>8, <2>1, <2>3, <3>1
  <2>4. CASE i > n + 1
    <3>1. PICK k \in 1 .. m : i = (n + 1) + k
      <4>1. i - (n + 1) \in 1 .. m /\ i = (n + 1) + (i - (n + 1))
        BY <2>1, <2>4
      <4>2. QED
        BY <4>1
    <3>2. i - (n + 1) = k /\ i - n = k + 1 /\ ~(i <= n + 1) /\ ~(i <= n)
      BY <2>4, <3>1
    <3>3. x[i] = t[k] /\ y[i] = p[k + 1]
      BY <1>7, <1>8, <2>1, <3>2
    <3>4. QED
      BY <1>6, <3>3
  <2>5. QED
    BY <2>1, <2>2, <2>3, <2>4
<1>10. x = y
  <2>1. Len(x) = Len(y) /\ \A i \in 1 .. Len(x) : x[i] = y[i]
    BY <1>7, <1>8, <1>9
  <2>2. QED
    BY <1>7, <1>8, <2>1, SeqEqual
<1>11. QED
  BY <1>3, <1>10

\* Taking the head of two sequences in a row.
LEMMA TakeOne ==
  ASSUME NEW S, NEW s \in Seq(S), NEW p \in Seq(S), s # <<>>
  PROVE  /\ s \o p \in Seq(S) /\ s \o p # <<>>
         /\ Head(s \o p) = Head(s) /\ Tail(s \o p) = Tail(s) \o p
<1>1. PICK n \in Nat : Len(s) = n + 1
  <2>1. Len(s) \in Nat /\ Len(s) # 0
    OBVIOUS
  <2>2. Len(s) - 1 \in Nat /\ Len(s) = (Len(s) - 1) + 1
    BY <2>1
  <2>3. QED
    BY <2>2
<1>2. PICK m \in Nat : Len(p) = m
  OBVIOUS
<1>3. PICK t, x, y, z : t = Tail(s) /\ x = s \o p /\ y = t \o p /\ z = Tail(x)
  OBVIOUS
<1>4. /\ x \in Seq(S) /\ Len(x) = (n + 1) + m
      /\ \A i \in 1 .. (n + 1) + m : x[i] = IF i <= n + 1 THEN s[i] ELSE p[i - (n + 1)]
  <2>1. /\ s \o p \in Seq(S) /\ Len(s \o p) = Len(s) + Len(p)
        /\ \A i \in 1 .. Len(s) + Len(p) : (s \o p)[i] = IF i <= Len(s) THEN s[i] ELSE p[i - Len(s)]
    BY ConcatProperties
  <2>2. QED
    BY <1>1, <1>2, <1>3, <2>1
<1>5. x # <<>> /\ x[1] = s[1]
  BY <1>4
<1>6. Head(x) = Head(s)
  BY <1>4, <1>5, HeadTailProperties
<1>7. t \in Seq(S) /\ Len(t) = n /\ \A i \in 1 .. n : t[i] = s[i + 1]
  BY <1>1, <1>3, HeadTailProperties
<1>8. /\ y \in Seq(S) /\ Len(y) = n + m
      /\ \A i \in 1 .. n + m : y[i] = IF i <= n THEN t[i] ELSE p[i - n]
  <2>1. /\ t \o p \in Seq(S) /\ Len(t \o p) = Len(t) + Len(p)
        /\ \A i \in 1 .. Len(t) + Len(p) : (t \o p)[i] = IF i <= Len(t) THEN t[i] ELSE p[i - Len(t)]
    BY <1>7, ConcatProperties
  <2>2. QED
    BY <1>2, <1>3, <1>7, <2>1
<1>9. z \in Seq(S) /\ Len(z) = n + m /\ \A i \in 1 .. n + m : z[i] = x[i + 1]
  BY <1>3, <1>4, <1>5, HeadTailProperties
<1>10. ASSUME NEW i \in 1 .. n + m PROVE z[i] = y[i]
  <2>1. i + 1 \in 1 .. (n + 1) + m /\ (i + 1) - (n + 1) = i - n
    OBVIOUS
  <2>2. CASE i <= n
    <3>1. i \in 1 .. n /\ i + 1 <= n + 1
      BY <2>2
    <3>2. x[i + 1] = s[i + 1] /\ y[i] = t[i]
      BY <1>4, <1>8, <2>1, <2>2, <3>1
    <3>3. QED
      BY <1>7, <1>9, <3>1, <3>2
  <2>3. CASE ~(i <= n)
    <3>1. x[i + 1] = p[(i + 1) - (n + 1)]
      BY <1>4, <2>1, <2>3
    <3>2. y[i] = p[i - n]
      BY <1>8, <2>3
    <3>3. QED
      BY <1>9, <2>1, <3>1, <3>2
  <2>4. QED
    BY <2>2, <2>3
<1>11. z = y
  <2>1. Len(z) = Len(y) /\ \A i \in 1 .. Len(z) : z[i] = y[i]
    BY <1>8, <1>9, <1>10
  <2>2. QED
    BY <1>8, <1>9, <2>1, SeqEqual
<1>12. QED
  BY <1>3, <1>4, <1>5, <1>6, <1>11

\* Appending to the second of two sequences in a row, when it is empty.
LEMMA AddOne ==
  ASSUME NEW S, NEW s \in Seq(S), NEW m \in S
  PROVE  s \o Append(<<>>, m) = Append(s, m) /\ Append(<<>>, m) \in Seq(S)
<1>1. PICK e, a : e = <<>> /\ a = Append(e, m)
  OBVIOUS
<1>2. e \in Seq(S) /\ Len(e) = 0
  BY <1>1
<1>3. a \in Seq(S) /\ Len(a) = 0 + 1 /\ a[0 + 1] = m
  BY <1>1, <1>2, AppendProperties
<1>4. PICK n \in Nat : n = Len(s)
  OBVIOUS
<1>5. PICK x, y : x = s \o a /\ y = Append(s, m)
  OBVIOUS
<1>6. /\ x \in Seq(S) /\ Len(x) = n + 1
      /\ \A i \in 1 .. n + 1 : x[i] = IF i <= n THEN s[i] ELSE a[i - n]
  <2>1. /\ s \o a \in Seq(S) /\ Len(s \o a) = Len(s) + Len(a)
        /\ \A i \in 1 .. Len(s) + Len(a) : (s \o a)[i] = IF i <= Len(s) THEN s[i] ELSE a[i - Len(s)]
    BY <1>3, ConcatProperties
  <2>2. Len(a) = 1
    BY <1>3
  <2>3. QED
    BY <1>4, <1>5, <2>1, <2>2
<1>7. y \in Seq(S) /\ Len(y) = n + 1 /\ y[n + 1] = m /\ \A i \in 1 .. n : y[i] = s[i]
  BY <1>4, <1>5, AppendProperties
<1>8. ASSUME NEW i \in 1 .. n + 1 PROVE x[i] = y[i]
  <2>1. CASE i = n + 1
    <3>1. i - n = 0 + 1 /\ ~(i <= n)
      BY <2>1
    <3>2. QED
      BY <1>3, <1>6, <1>7, <2>1, <3>1
  <2>2. CASE i # n + 1
    BY <1>6, <1>7, <2>2
  <2>3. QED
    BY <2>1, <2>2
<1>9. x = y
  <2>1. Len(x) = Len(y) /\ \A i \in 1 .. Len(x) : x[i] = y[i]
    BY <1>6, <1>7, <1>8
  <2>2. QED
    BY <1>6, <1>7, <2>1, SeqEqual
<1>10. QED
  BY <1>1, <1>3, <1>5, <1>9

\* Every seed has an id and a price.
LEMMA SeedFacts ==
  ASSUME min_spread_ticks \in MinSpreads
  PROVE  /\ seedLevels \in Nat /\ 2 * seedLevels <= Cardinality(OrderId)
         /\ \A k \in 1 .. seedLevels : maxBidPrice - k \in Price /\ minAskPrice + k \in Price
<1>1. /\ min_spread_ticks \in Nat /\ min_spread_ticks >= 2
      /\ MidPriceTick \in Int /\ levels_per_side \in Nat /\ levels_per_side >= 1
      /\ MidPriceTick - min_spread_ticks \div 2 >= MinPriceTick
      /\ MidPriceTick + min_spread_ticks \div 2 <= MaxPriceTick
      /\ PriceMargin >= 1 /\ 2 * levels_per_side <= Cardinality(OrderId)
  BY FeedAssumption
<1>2. PICK h : h = min_spread_ticks \div 2
  OBVIOUS
<1>3. h \in Nat /\ h >= 1
  BY <1>1, <1>2
<1>4. maxBidPrice = MidPriceTick - h /\ minAskPrice = MidPriceTick + h
  BY <1>2, <1>3 DEF maxBidPrice, minAskPrice, halfSpread
<1>5. PICK b, a : b = MidPriceTick - h /\ a = MidPriceTick + h
  OBVIOUS
<1>6. /\ b \in Int /\ a \in Int /\ b >= MinPriceTick /\ a <= MaxPriceTick
      /\ b <= MaxPriceTick /\ a >= MinPriceTick
      /\ MinPriceTick \in Int /\ MaxPriceTick \in Int /\ PriceMargin \in Nat
  BY <1>1, <1>2, <1>3, <1>5, TypesAssumption
<1>7. PICK x, y : /\ x = (IF b - MinPriceTick < 1 THEN 1 ELSE b - MinPriceTick)
                  /\ y = (IF MaxPriceTick - a < 1 THEN 1 ELSE MaxPriceTick - a)
  OBVIOUS
<1>8. x \in Nat /\ x >= 1 /\ y \in Nat /\ y >= 1
  BY <1>6, <1>7
<1>9. seedLevels = MinOf(levels_per_side, MinOf(x, y))
  BY <1>4, <1>5, <1>7 DEF seedLevels
<1>10. PICK n : n = seedLevels
  OBVIOUS
<1>11. n \in Nat /\ n <= levels_per_side /\ n <= x /\ n <= y
  BY <1>1, <1>8, <1>9, <1>10 DEF MinOf
<1>12. 2 * n <= Cardinality(OrderId)
  BY <1>1, <1>11, FeedFacts
<1>13. ASSUME NEW k \in 1 .. n PROVE b - k \in Price /\ a + k \in Price
  <2>1. b - k >= MinPriceTick - PriceMargin /\ b - k <= MaxPriceTick + PriceMargin
    BY <1>1, <1>6, <1>7, <1>11
  <2>2. a + k >= MinPriceTick - PriceMargin /\ a + k <= MaxPriceTick + PriceMargin
    BY <1>1, <1>6, <1>7, <1>11
  <2>3. QED
    BY <1>6, <2>1, <2>2 DEF Price
<1>14. QED
  BY <1>4, <1>5, <1>10, <1>11, <1>12, <1>13

\* The seeds are messages of the feed, all of them new orders.
LEMMA SeedsAre ==
  ASSUME min_spread_ticks \in MinSpreads, NEW qty \in [1 .. 2 * seedLevels -> 1 .. MaxQty]
  PROVE  /\ seedMessages(qty) \in Seq(FeedMessage)
         /\ \A i \in DOMAIN seedMessages(qty) : seedMessages(qty)[i].op_code = "N"
<1>1. PICK L \in Nat : L = seedLevels
  BY SeedFacts
<1>2. PICK n \in Nat : n = 2 * L
  OBVIOUS
<1>3. DOMAIN qty = 1 .. n /\ \A i \in 1 .. n : qty[i] \in 1 .. MaxQty
  BY <1>1, <1>2
<1>4. PICK s : s = seedMessages(qty)
  OBVIOUS
<1>5. ASSUME NEW i \in 1 .. n PROVE s[i] \in FeedMessage /\ s[i].op_code = "N"
  <2>1. i \in OrderId
    <3>1. n <= Cardinality(OrderId)
      BY <1>1, <1>2, SeedFacts
    <3>2. QED
      BY <3>1, FeedFacts
  <2>2. qty[i] \in Qty
    BY <1>3, TypesAssumption DEF Qty
  <2>3. "Bid" \in Side /\ "Ask" \in Side /\ "N" \in {"N", "X", "M"}
    BY DEF Side
  <2>4. CASE i % 2 = 1
    <3>1. PICK k : k = (i + 1) \div 2
      OBVIOUS
    <3>2. k \in 1 .. L
      BY <1>2, <2>4, <3>1
    <3>3. s[i] = orderMessage("N", "Bid", i, maxBidPrice - k, qty[i])
      BY <1>3, <1>4, <2>4, <3>1 DEF seedMessages
    <3>4. maxBidPrice - k \in Price
      BY <1>1, <3>2, SeedFacts
    <3>5. s[i] \in FeedMessage
      BY <2>1, <2>2, <2>3, <3>3, <3>4, MessageFacts
    <3>6. QED
      BY <3>3, <3>5 DEF orderMessage
  <2>5. CASE i % 2 # 1
    <3>1. PICK k : k = i \div 2
      OBVIOUS
    <3>2. k \in 1 .. L
      BY <1>2, <2>5, <3>1
    <3>3. s[i] = orderMessage("N", "Ask", i, minAskPrice + k, qty[i])
      BY <1>3, <1>4, <2>5, <3>1 DEF seedMessages
    <3>4. minAskPrice + k \in Price
      BY <1>1, <3>2, SeedFacts
    <3>5. s[i] \in FeedMessage
      BY <2>1, <2>2, <2>3, <3>3, <3>4, MessageFacts
    <3>6. QED
      BY <3>3, <3>5 DEF orderMessage
  <2>6. QED
    BY <2>4, <2>5
<1>6. s = [i \in 1 .. n |-> s[i]]
  BY <1>3, <1>4 DEF seedMessages
<1>7. s \in Seq(FeedMessage)
  <2>1. [i \in 1 .. n |-> s[i]] \in Seq(FeedMessage)
    BY <1>5, IsASeq
  <2>2. QED
    BY <1>6, <2>1
<1>8. DOMAIN s = 1 .. n
  BY <1>6
<1>9. QED
  BY <1>4, <1>5, <1>7, <1>8

\* The empty book, with nothing remembered.
LEMMA EmptyState ==
  /\ [shadow |-> EmptyBook, live |-> <<>>] \in FeedStates
  /\ GoodBook(EmptyBook) /\ EmptyBook \in AnyBook
<1>1. GoodBook(EmptyBook) /\ EmptyBook \in AnyBook
  BY EmptyGood DEF EmptyBook, GoodBook
<1>2. ASSUME NEW x PROVE ~Has(EmptyBook, x)
  <2>1. \A s \in Side, p \in Price : EmptyBook[s][p] = <<>>
    BY DEF EmptyBook
  <2>2. \A s \in Side, p \in Price : \A i \in DOMAIN EmptyBook[s][p] : FALSE
    BY <2>1
  <2>3. QED
    BY <2>2, HasFacts
<1>3. <<>> \in Seq(OrderId)
  OBVIOUS
<1>4. QED
  BY <1>1, <1>2, <1>3 DEF FeedStates, Remembered

\* The invariant of the replay.
ReplayInv ==
  /\ FeedInv
  /\ books \in [Kind -> AnyBook]
  /\ GoodBook(books.any)
  /\ BooksAgree
  /\ invalid \in 0 .. MaxInvalid
  /\ crossed = [kind \in Kind |-> 0]
  /\ invalid = 0 => OnTrack /\ Named(books.any, stream \o pending)

\* It holds once the book is seeded.
LEMMA ReplayInvInit == Init => ReplayInv
<1> SUFFICES ASSUME Init PROVE ReplayInv
  OBVIOUS
<1>1. /\ min_spread_ticks \in MinSpreads /\ next_order_id = 2 * seedLevels + 1
      /\ drawing = None /\ stream = <<>>
      /\ books = [kind \in Kind |-> EmptyBook] /\ invalid = 0 /\ crossed = [kind \in Kind |-> 0]
  BY DEF Init, FeedInit
<1>2. PICK qty, st, s :
        /\ qty \in [1 .. 2 * seedLevels -> 1 .. MaxQty]
        /\ st = FoldLeft(applyAndRemember, [shadow |-> EmptyBook, live |-> <<>>], s)
        /\ s = seedMessages(qty)
        /\ shadow = st.shadow /\ live = st.live /\ pending = s
  BY DEF Init, FeedInit
<1>3. s \in Seq(FeedMessage) /\ s \in Seq(Message) /\ \A i \in DOMAIN s : s[i].op_code = "N"
  BY <1>1, <1>2, SeedsAre, FeedMessages
<1>4. /\ st \in FeedStates
      /\ st.shadow = FoldLeft(Apply, EmptyBook, s)
  <2>1. PICK e : e = [shadow |-> EmptyBook, live |-> <<>>]
    OBVIOUS
  <2>2. e \in FeedStates /\ e.shadow = EmptyBook
    BY <2>1, EmptyState
  <2>3. QED
    BY <1>2, <1>3, <2>1, <2>2, FoldRemembered
<1>5. next_order_id \in 1 .. Cardinality(OrderId) + 1
  <2>1. PICK c \in Nat, n \in Nat : c = Cardinality(OrderId) /\ n = seedLevels
    BY <1>1, FeedFacts, SeedFacts
  <2>2. 2 * n <= c
    BY <1>1, <2>1, SeedFacts
  <2>3. 2 * n + 1 \in 1 .. c + 1
    BY <2>2
  <2>4. QED
    BY <1>1, <2>1, <2>3
<1>6. st = [shadow |-> shadow, live |-> live] /\ shadow \in AnyBook /\ live \in Seq(OrderId)
  BY <1>2, <1>4 DEF FeedStates
<1>7. stream \in Seq(FeedMessage)
  BY <1>1
<1>8. FeedInv
  BY <1>1, <1>2, <1>3, <1>4, <1>5, <1>6, <1>7 DEF FeedInv, FeedTypeOK, AnyBook
<1>9. books \in [Kind -> AnyBook] /\ books.any = EmptyBook /\ BooksAgree
  BY <1>1, EmptyState DEF Kind, BooksAgree
<1>10. stream \o pending = s
  <2>1. <<>> \o s = s
    BY <1>3, ConcatEmptySeq
  <2>2. QED
    BY <1>1, <1>2, <2>1
<1>11. OnTrack
  BY <1>2, <1>4, <1>9, <1>10 DEF OnTrack
<1>12. Named(EmptyBook, s)
  <2>1. PICK g : Leads(g, EmptyBook, s)
    BY <1>3, EmptyState, FoldLeads
  <2>2. DOMAIN s = 1 .. Len(s)
    BY <1>3
  <2>3. \A k \in 1 .. Len(s) : s[k].op_code \notin {"X", "M"}
    BY <1>3, <2>2
  <2>4. QED
    BY <2>1, <2>3 DEF Named
<1>13. invalid \in 0 .. MaxInvalid
  BY <1>1, ReplayAssumption
<1>14. QED
  BY <1>1, <1>8, <1>9, <1>10, <1>11, <1>12, <1>13, EmptyState DEF ReplayInv

\* A step of the generator leaves what the books will reach where the shadow book is, if
\* it was, and names only orders of the book each message will reach.
LEMMA FeedTracks ==
  ASSUME FeedInv, FeedNext, UNCHANGED replayVars, GoodBook(books.any), OnTrack
  PROVE  /\ OnTrack'
         /\ Named(books.any, stream \o pending) => Named(books.any, stream' \o pending')
<1>1. pending \in Seq(FeedMessage) /\ stream \in Seq(FeedMessage)
  BY DEF FeedInv, FeedTypeOK
<1>2. PICK bk, u : bk = books.any /\ u = stream \o pending
  OBVIOUS
<1>3. GoodBook(bk) /\ books'.any = bk /\ FoldLeft(Apply, bk, u) = shadow
  BY <1>2 DEF OnTrack, replayVars
<1>4. SUFFICES /\ FoldLeft(Apply, bk, stream' \o pending') = shadow'
               /\ Named(bk, u) => Named(bk, stream' \o pending')
  BY <1>2, <1>3 DEF OnTrack
<1>5. CASE UNCHANGED <<shadow, stream, pending>>
  BY <1>2, <1>3, <1>5
<1>6. CASE SendPending
  <2>1. /\ pending # <<>> /\ stream' = Append(stream, Head(pending))
        /\ pending' = Tail(pending) /\ shadow' = shadow
    BY <1>6 DEF SendPending
  <2>2. stream' \o pending' = u
    BY <1>1, <1>2, <2>1, SendOne
  <2>3. QED
    BY <1>3, <2>1, <2>2
<1>7. CASE \E msg, trade : Emitted(msg, trade)
  <2>1. PICK msg, trade : Emitted(msg, trade)
    BY <1>7
  <2>2. PICK s : s = stream
    OBVIOUS
  <2>3. s \in Seq(Message) /\ s \in Seq(FeedMessage) /\ u = s
    <3>1. pending = <<>>
      BY <2>1 DEF Emitted
    <3>2. s \o <<>> = s
      BY <1>1, <2>2, ConcatEmptySeq
    <3>3. QED
      BY <1>1, <1>2, <2>2, <3>1, <3>2, FeedMessages
  <2>4. /\ msg \in Message /\ trade \in Message
        /\ trade.op_code = "T"
        /\ msg.op_code \in {"X", "M"} => Has(shadow, msg.order_id)
        /\ shadow' = Apply(shadow, msg)
        /\ stream' = Append(s, msg)
        /\ pending' \in {<<>>, Append(<<>>, trade)}
    BY <2>1, <2>2 DEF Emitted, FeedMessage
  <2>5. PICK t : t = Append(s, msg)
    OBVIOUS
  <2>6. t \in Seq(Message)
    BY <2>3, <2>4, <2>5, AppendProperties
  <2>7. FoldLeft(Apply, bk, t) = shadow' /\ (Named(bk, u) => Named(bk, t))
    <3>1. FoldLeft(Apply, bk, t) = Apply(FoldLeft(Apply, bk, s), msg)
      BY <1>3, <2>3, <2>4, <2>5, FoldAppend
    <3>2. Named(bk, s) => Named(bk, t)
      BY <1>3, <2>3, <2>4, <2>5, NamedAppend
    <3>3. QED
      BY <1>3, <2>3, <2>4, <3>1, <3>2
  <2>8. CASE pending' = <<>>
    <3>1. stream' \o pending' = t
      BY <2>4, <2>5, <2>6, <2>8, ConcatEmptySeq
    <3>2. QED
      BY <2>7, <3>1
  <2>9. CASE pending' = Append(<<>>, trade)
    <3>1. stream' \o pending' = Append(t, trade)
      BY <2>4, <2>5, <2>6, <2>9, AddOne
    <3>2. FoldLeft(Apply, bk, Append(t, trade)) = Apply(FoldLeft(Apply, bk, t), trade)
      BY <1>3, <2>4, <2>6, FoldAppend
    <3>3. Apply(shadow', trade) = shadow'
      BY <2>4 DEF Apply
    <3>4. Named(bk, t) => Named(bk, Append(t, trade))
      <4>1. trade.op_code \notin {"X", "M"}
        BY <2>4
      <4>2. QED
        BY <1>3, <2>4, <2>6, <4>1, NamedAppend
    <3>5. QED
      BY <2>7, <3>1, <3>2, <3>3, <3>4
  <2>10. QED
    BY <2>4, <2>8, <2>9
<1>8. QED
  BY <1>5, <1>6, <1>7, FeedStep

\* A good book is not reported as crossed.
LEMMA GoodNotCrossed ==
  ASSUME NEW bk, GoodBook(bk)
  PROVE  ~ReportsCrossed(bk)
<1> SUFFICES ASSUME ReportsCrossed(bk) PROVE FALSE
  OBVIOUS
<1>1. UncrossedBook(bk)
  BY DEF GoodBook
<1>2. PICK b, a : b = Best(bk, "Bid") /\ a = Best(bk, "Ask")
  OBVIOUS
<1>3. b # None /\ a # None /\ b.price >= a.price
  BY <1>2 DEF ReportsCrossed
<1>4. "Bid" \in Side /\ "Ask" \in Side
  BY DEF Side
<1>5. ASSUME NEW s \in Side, NEW best, best = Best(bk, s), best # None
      PROVE  best.price \in Price /\ bk[s][best.price] # <<>>
  <2>1. Active(bk, s) \in SUBSET Price /\ Active(bk, s) # {}
    BY <1>5 DEF Active, Best
  <2>2. BestOf(s, Active(bk, s)) \in Active(bk, s)
    BY <2>1, BestOfExists
  <2>3. best.price = BestOf(s, Active(bk, s))
    BY <1>5, <2>1 DEF Best
  <2>4. QED
    BY <2>2, <2>3 DEF Active
<1>6. /\ b.price \in Price /\ bk["Bid"][b.price] # <<>>
      /\ a.price \in Price /\ bk["Ask"][a.price] # <<>>
  BY <1>2, <1>3, <1>4, <1>5
<1>7. b.price < a.price
  BY <1>1, <1>6 DEF UncrossedBook
<1>8. b.price \in Int /\ a.price \in Int
  BY <1>6, PriceFacts
<1>9. QED
  BY <1>3, <1>7, <1>8

\* What the replay of a message does: a message that parseOne() accepts is applied to
\* every book, any other is counted.
LEMMA ReplayIs ==
  ASSUME FeedInv, BooksAgree, Replay
  PROVE  /\ Head(stream) \in Message
         /\ IF Valid(Head(stream))
            THEN /\ books' = [any |-> Apply(books.any, Head(stream)),
                              tick |-> Apply(books.any, Head(stream))]
                 /\ crossed' = [kind \in Kind |-> IF ReportsCrossed(books'[kind])
                                                 THEN crossed[kind] + 1 ELSE crossed[kind]]
                 /\ invalid' = invalid
            ELSE invalid' = MinOf(invalid + 1, MaxInvalid) /\ UNCHANGED <<books, crossed>>
<1>1. PICK m : m = Head(stream)
  OBVIOUS
<1>2. m \in FeedMessage /\ m \in Message
  BY <1>1, HeadTailProperties DEF FeedInv, FeedTypeOK, Replay, FeedMessage
<1>3. ParseOne(Serialize(m)) = IF Valid(m) THEN m ELSE None
  BY <1>2, RoundTrip
<1>4. m # None
  BY <1>2, NoMessageAssumption
<1>5. CASE Valid(m)
  <2>1. ParseOne(Serialize(m)) = m
    BY <1>3, <1>5
  <2>2. Tick!Apply(books.tick, m) = Apply(books.any, m)
    BY <1>5, SameApply DEF BooksAgree
  <2>3. Applied(m) = [any |-> Apply(books.any, m), tick |-> Apply(books.any, m)]
    BY <2>2 DEF Applied
  <2>4. /\ books' = Applied(m)
        /\ crossed' = [kind \in Kind |-> IF ReportsCrossed(books'[kind])
                                        THEN crossed[kind] + 1 ELSE crossed[kind]]
        /\ invalid' = invalid
    BY <1>1, <1>4, <2>1 DEF Replay
  <2>5. QED
    BY <1>1, <1>2, <1>5, <2>3, <2>4
<1>6. CASE ~Valid(m)
  <2>1. ParseOne(Serialize(m)) = None
    BY <1>3, <1>6
  <2>2. invalid' = MinOf(invalid + 1, MaxInvalid) /\ UNCHANGED <<books, crossed>>
    BY <1>1, <2>1 DEF Replay
  <2>3. QED
    BY <1>1, <1>2, <1>6, <2>2
<1>7. QED
  BY <1>5, <1>6

\* A message that is replayed, and not discarded, takes the books one step on.
LEMMA ReplayTracks ==
  ASSUME FeedInv, BooksAgree, GoodBook(books.any), Replay, OnTrack, Valid(Head(stream))
  PROVE  /\ OnTrack'
         /\ Named(books.any, stream \o pending) => Named(books'.any, stream' \o pending')
<1>1. PICK bk, u, m : bk = books.any /\ u = stream \o pending /\ m = Head(stream)
  OBVIOUS
<1>2. /\ stream # <<>> /\ stream' = Tail(stream) /\ pending' = pending /\ shadow' = shadow
      /\ books'.any = Apply(bk, m)
  BY <1>1, ReplayIs DEF Replay
<1>3. stream \in Seq(Message) /\ pending \in Seq(Message)
  BY FeedMessages DEF FeedInv, FeedTypeOK
<1>4. u \in Seq(Message) /\ u # <<>> /\ Head(u) = m /\ Tail(u) = stream' \o pending'
  BY <1>1, <1>2, <1>3, TakeOne
<1>5. FoldLeft(Apply, bk, u) = FoldLeft(Apply, Apply(bk, Head(u)), Tail(u))
  BY <1>1, <1>4, FoldHead
<1>6. Named(bk, u) => Named(Apply(bk, Head(u)), Tail(u))
  BY <1>1, <1>4, NamedTail
<1>7. OnTrack'
  BY <1>1, <1>2, <1>4, <1>5 DEF OnTrack
<1>8. QED
  BY <1>1, <1>2, <1>4, <1>6, <1>7

\* Every step preserves it.
LEMMA ReplayInvStep == ReplayInv /\ [Next]_vars => ReplayInv'
<1> SUFFICES ASSUME ReplayInv, [Next]_vars PROVE ReplayInv'
  OBVIOUS
<1>1. /\ FeedInv /\ books \in [Kind -> AnyBook] /\ GoodBook(books.any) /\ BooksAgree
      /\ invalid \in 0 .. MaxInvalid /\ crossed = [kind \in Kind |-> 0]
      /\ invalid = 0 => OnTrack /\ Named(books.any, stream \o pending)
  BY DEF ReplayInv
<1>2. CASE FeedNext /\ UNCHANGED replayVars
  <2>1. FeedInv'
    BY <1>1, <1>2, FeedStep
  <2>2. books' = books /\ invalid' = invalid /\ crossed' = crossed
    BY <1>2 DEF replayVars
  <2>3. BooksAgree'
    BY <1>1, <2>2 DEF BooksAgree
  <2>4. ASSUME invalid = 0 PROVE OnTrack' /\ Named(books.any, stream' \o pending')
    BY <1>1, <1>2, <2>4, FeedTracks
  <2>5. QED
    BY <1>1, <2>1, <2>2, <2>3, <2>4 DEF ReplayInv
<1>3. CASE Replay
  <2>1. /\ UNCHANGED <<min_spread_ticks, shadow, live, pending, next_order_id, drawing>>
        /\ stream' = Tail(stream) /\ stream # <<>>
    BY <1>3 DEF Replay
  <2>2. stream' \in Seq(FeedMessage)
    BY <1>1, <2>1, HeadTailProperties DEF FeedInv, FeedTypeOK
  <2>3. FeedTypeOK'
    BY <1>1, <2>1, <2>2 DEF FeedInv, FeedTypeOK
  <2>4. FeedInv'
    BY <1>1, <2>1, <2>3 DEF FeedInv
  <2>5. PICK m : m = Head(stream)
    OBVIOUS
  <2>6. CASE Valid(m)
    <3>1. PICK nb : nb = Apply(books.any, m)
      OBVIOUS
    <3>2. /\ books' = [any |-> nb, tick |-> nb] /\ invalid' = invalid
          /\ crossed' = [kind \in Kind |-> IF ReportsCrossed(books'[kind])
                                         THEN crossed[kind] + 1 ELSE crossed[kind]]
          /\ m \in Message
      BY <1>1, <1>3, <2>5, <2>6, <3>1, ReplayIs
    <3>3. GoodBook(nb) /\ nb \in AnyBook
      BY <1>1, <3>1, <3>2, ApplyGood DEF GoodBook
    <3>4. /\ books' \in [Kind -> AnyBook] /\ books'.any = nb /\ BooksAgree'
          /\ \A kind \in Kind : books'[kind] = nb
      BY <3>2, <3>3 DEF Kind, BooksAgree
    <3>5. crossed' = [kind \in Kind |-> 0]
      BY <1>1, <3>2, <3>3, <3>4, GoodNotCrossed
    <3>6. ASSUME invalid = 0 PROVE OnTrack' /\ Named(books'.any, stream' \o pending')
      BY <1>1, <1>3, <2>5, <2>6, <3>6, ReplayTracks
    <3>7. QED
      BY <1>1, <2>4, <3>2, <3>3, <3>4, <3>5, <3>6 DEF ReplayInv
  <2>7. CASE ~Valid(m)
    <3>1. invalid' = MinOf(invalid + 1, MaxInvalid) /\ books' = books /\ crossed' = crossed
      BY <1>1, <1>3, <2>5, <2>7, ReplayIs
    <3>2. invalid' \in 0 .. MaxInvalid /\ invalid' # 0
      BY <1>1, <3>1, ReplayAssumption DEF MinOf
    <3>3. BooksAgree'
      BY <1>1, <3>1 DEF BooksAgree
    <3>4. QED
      BY <1>1, <2>4, <3>1, <3>2, <3>3 DEF ReplayInv
  <2>8. QED
    BY <2>6, <2>7
<1>4. CASE UNCHANGED vars
  <2>1. /\ UNCHANGED <<min_spread_ticks, shadow, live, pending, next_order_id, drawing, stream>>
        /\ UNCHANGED <<books, invalid, crossed>>
    BY <1>4 DEF vars, feedVars, replayVars
  <2>2. FeedInv' /\ BooksAgree'
    BY <1>1, <2>1 DEF FeedInv, FeedTypeOK, BooksAgree
  <2>3. OnTrack => OnTrack'
    BY <2>1 DEF OnTrack
  <2>4. QED
    BY <1>1, <2>1, <2>2, <2>3 DEF ReplayInv
<1>5. QED
  BY <1>2, <1>3, <1>4 DEF Next, FeedNext

\* The invariant holds in every reachable state of the generator and the replay.
THEOREM ReplayInvariant == Spec => []ReplayInv
<1>1. QED
  BY ReplayInvInit, ReplayInvStep, PTL DEF Spec

\* The generator, the stream and the replayed books keep their types.
THEOREM ReplayTyped == Spec => []TypeOK
<1>1. ReplayInv => TypeOK
  BY DEF ReplayInv, FeedInv, TypeOK, AnyBook
<1>2. QED
  BY <1>1, ReplayInvariant, PTL

\* No replayed book is ever reported as crossed, whatever has been discarded.
THEOREM NeverCrossed == Spec => []NoneCrossed
<1>1. ReplayInv => NoneCrossed
  BY DEF ReplayInv, NoneCrossed
<1>2. QED
  BY <1>1, ReplayInvariant, PTL

\* Discarding stale ids never loses one that rests in the shadow book.
THEOREM RestingRemembered == Spec => []LiveRemembered
<1>1. ReplayInv => LiveRemembered
  BY DEF ReplayInv, FeedInv, FeedStates, Remembered, LiveRemembered, Has
<1>2. QED
  BY <1>1, ReplayInvariant, PTL

\* While nothing has been discarded, a cancel or modify names an order of its book.
THEOREM NamesResolve == Spec => []NamesRestingOrder
<1>1. ReplayInv => NamesRestingOrder
  <2> SUFFICES ASSUME ReplayInv, invalid = 0, stream # <<>>, Head(stream).op_code \in {"X", "M"}
               PROVE  Has(books.any, Head(stream).order_id)
    BY DEF NamesRestingOrder
  <2>1. Named(books.any, stream \o pending) /\ GoodBook(books.any)
    BY DEF ReplayInv
  <2>2. stream \in Seq(Message) /\ pending \in Seq(Message)
    BY FeedMessages DEF ReplayInv, FeedInv, FeedTypeOK
  <2>3. PICK u : u = stream \o pending
    OBVIOUS
  <2>4. u \in Seq(Message) /\ u # <<>> /\ Head(u) = Head(stream)
    BY <2>2, <2>3, TakeOne
  <2>5. Head(u).op_code \in {"X", "M"} => Has(books.any, Head(u).order_id)
    BY <2>1, <2>3, <2>4, NamedTail
  <2>6. QED
    BY <2>4, <2>5
<1>2. QED
  BY <1>1, ReplayInvariant, PTL

\* The books stay on the track of the shadow book for as long as no message is discarded.
THEOREM StaysOnTrack == Spec => FollowsShadow
<1> DEFINE AllValid == \A i \in DOMAIN stream : Valid(stream[i])
<1>1. ReplayInv /\ [Next]_vars => [OnTrack /\ AllValid => OnTrack']_vars
  <2> SUFFICES ASSUME ReplayInv, Next, OnTrack, AllValid PROVE OnTrack'
    OBVIOUS
  <2>1. FeedInv /\ GoodBook(books.any) /\ BooksAgree
    BY DEF ReplayInv
  <2>2. CASE FeedNext /\ UNCHANGED replayVars
    BY <2>1, <2>2, FeedTracks
  <2>3. CASE Replay
    <3>1. stream \in Seq(FeedMessage) /\ stream # <<>>
      BY <2>1, <2>3 DEF FeedInv, FeedTypeOK, Replay
    <3>2. 1 \in DOMAIN stream /\ Head(stream) = stream[1]
      BY <3>1
    <3>3. Valid(Head(stream))
      BY <3>2
    <3>4. QED
      BY <2>1, <2>3, <3>3, ReplayTracks
  <2>4. QED
    BY <2>2, <2>3 DEF Next, FeedNext
<1>2. Init => OnTrack
  BY ReplayInvInit DEF ReplayInv, Init
<1> HIDE DEF AllValid
<1>3. Spec => OnTrack /\ [][OnTrack /\ AllValid => OnTrack']_vars
  BY <1>1, <1>2, ReplayInvariant, PTL DEF Spec
<1>4. QED
  BY <1>3 DEF FollowsShadow, AllValid
=============================================================================
