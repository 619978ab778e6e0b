-------------------------------- MODULE L3Book --------------------------------
(***************************************************************************)
(* What one order book promises: each call of apply() takes effect as a    *)
(* whole, with the effect L3BookOps defines, and returns.  The five        *)
(* classes of L3OrderBook.hpp are modelled with their loops and price      *)
(* indices in modules of their own, which implement this one.              *)
(***************************************************************************)
EXTENDS L3BookOps

VARIABLES
  book,     \* [Side -> [Price -> Seq(Order)]], each queue oldest order first
  tally,    \* what the last message added to the L3BookStats counters
  request   \* the order being applied by a call that has not returned, or None

bookVars == <<book, tally, request>>

Request == [side : Side, id : OrderId \cup {ZeroId}, price : Price, qty : Qty,
            isNew : BOOLEAN]

ASSUME RequestAssumption == None \notin Request
-----------------------------------------------------------------------------
\* apply() of an 'N' message.
New(side, id, price, qty) ==
  /\ request = None
  /\ request' = [side |-> side, id |-> id, price |-> price, qty |-> qty, isNew |-> TRUE]
  /\ book' = AfterNew(book, side, id, price, qty)
  /\ tally' = NewTally(book, side, id, price, qty, TRUE)

\* An 'X' message, or an 'M' message whose quantity is not positive.
Cancel(id) ==
  /\ request = None
  /\ Has(book, id)
  /\ book' = Erased(book, id)
  /\ tally' = EraseTally(book, id)
  /\ UNCHANGED request

\* A modified order loses its place, even when only its quantity changes.
Modify(id, price, qty) ==
  /\ request = None
  /\ Has(book, id)
  /\ qty > 0
  /\ LET side == SideOf(book, id)
         left == Erased(book, id)
     IN  /\ request' = [side |-> side, id |-> id, price |-> price, qty |-> qty,
                        isNew |-> FALSE]
         /\ book' = AfterNew(left, side, id, price, qty)
         /\ tally' = Plus(EraseTally(book, id),
                          NewTally(left, side, id, price, qty, FALSE))

\* A 'T' message, or an order id the book does not hold.
Ignore ==
  /\ request = None
  /\ tally' = ZeroTally
  /\ UNCHANGED <<book, request>>

Return ==
  /\ request # None
  /\ request' = None
  /\ UNCHANGED <<book, tally>>

BookInit ==
  /\ book = [s \in Side |-> [p \in Price |-> <<>>]]
  /\ tally = ZeroTally
  /\ request = None

BookNext ==
  \/ \E s \in Side, id \in OrderId \cup {ZeroId}, p \in Price, q \in Qty : New(s, id, p, q)
  \/ \E id \in OrderId : Cancel(id)
  \/ \E id \in OrderId, p \in Price, q \in Qty : Modify(id, p, q)
  \/ Ignore
  \/ Return

BookSpec == BookInit /\ [][BookNext]_bookVars
-----------------------------------------------------------------------------
BookTypeOK ==
  /\ book \in [Side -> [Price -> Seq(Order)]]
  /\ tally \in Tally
  /\ request \in Request \cup {None}

\* No two resting orders could trade with each other: crossed() is never true.
Uncrossed == UncrossedBook(book)

\* One order id rests in one place: a repeated id replaces the order it names.
RestsOnce == OnePlaceEach(book)

\* This step applies an order (New or Modify).
Applies == request = None /\ request' # None

\* Price-time priority: an order that lost quantity to the incoming one had no
\* better-priced, and no older equally-priced, order left in front of it.
PriorityRespected ==
  [][Applies =>
       \A s \in Side, p, q \in Price :
         \A i \in DOMAIN book[s][p], j \in DOMAIN book[s][q] :
           LET first == book[s][p][i]
               other == book[s][q][j]
           IN  /\ HasPriority(s, <<p, i>>, <<q, j>>)
               /\ request'.id \notin {first.id, other.id}
               /\ other \notin ToSet(book'[s][q])
               => ~Has(book', first.id)]_bookVars

\* An accepted order adds its quantity to its side and takes out of both sides
\* what it trades; what it trades is what traded_qty reports.
QuantityConserved ==
  [][Applies /\ ~Refused(request'.id, request'.price, request'.qty) =>
       LET side   == request'.side
           traded == tally'.traded_qty
           rest   == Erased(book, request'.id)
           Resting(bk, s) == Liquidity(bk, s, Price)
       IN  /\ Resting(book', Opposite(side)) = Resting(rest, Opposite(side)) - traded
           /\ Resting(book', side) = Resting(rest, side) + request'.qty - traded]_bookVars

\* Orders of queue r other than the mover were all in queue q, in the same order.
KeepsOrder(r, q, mover) ==
  \A j, k \in DOMAIN r :
    j <= k /\ mover \notin {r[j].id, r[k].id} =>
      \E a, b \in DOMAIN q : a <= b /\ q[a].id = r[j].id /\ q[b].id = r[k].id

\* Every order but the one that is gone rests at its level, with the quantity it had.
OthersRemain(bk, old, gone) ==
  \A s \in Side, p \in Price :
    \A i \in DOMAIN old[s][p] :
      old[s][p][i].id # gone => old[s][p][i] \in ToSet(bk[s][p])

\* An order keeps its place: no message moves another order to another level, or
\* changes the order in which those of one level are served, and a message that
\* may not trade (a cancel, an order that is refused) leaves all but one as they were.
PlacesKept ==
  [][/\ LET mover == IF request' = None THEN None ELSE request'.id
        IN  \A s \in Side, p \in Price : KeepsOrder(book'[s][p], book[s][p], mover)
     /\ (Applies => Refused(request'.id, request'.price, request'.qty)) =>
          \E gone \in OrderId \cup {ZeroId, None} : OthersRemain(book', book, gone)]_bookVars
=============================================================================
