---------------------------- MODULE L3BookOpsProofs ----------------------------
(***************************************************************************)
(* Facts about the operators of L3BookOps: the best of a set of prices,    *)
(* queues of orders and the quantity they hold, what is kept of a queue,   *)
(* what has priority over an order, and what a match takes out of a book.  *)
(***************************************************************************)
EXTENDS L3BookOps, SequenceTheorems, FiniteSetTheorems, NatFacts

\* There are two sides, each the opposite of the other.
LEMMA SideFacts ==
  ASSUME NEW s \in Side
  PROVE  Opposite(s) \in Side /\ Opposite(s) # s /\ Opposite(Opposite(s)) = s
BY DEF Side, Opposite

\* The prices are the integers between two bounds.
LEMMA PriceFacts ==
  /\ MinPriceTick - PriceMargin \in Int /\ MaxPriceTick + PriceMargin \in Int
  /\ \A p \in Price : /\ p \in Int
                      /\ MinPriceTick - PriceMargin <= p
                      /\ p <= MaxPriceTick + PriceMargin
BY TypesAssumption DEF Price

\* Every non-empty set of prices has a best one, on either side.
LEMMA BestOfExists ==
  ASSUME NEW s \in Side, NEW P \in SUBSET Price, P # {}
  PROVE  /\ BestOf(s, P) \in P
         /\ \A q \in P : ~Better(s, q, BestOf(s, P))
<1> DEFINE lo == MinPriceTick - PriceMargin
           hi == MaxPriceTick + PriceMargin
<1>1. lo \in Int /\ hi \in Int /\ \A p \in P : p \in Int /\ lo <= p /\ p <= hi
  BY PriceFacts
<1>2. \E p \in P : \A q \in P : ~Better(s, q, p)
  <2>1. CASE s = "Bid"
    <3> DEFINE T == {hi - p : p \in P}
    <3>1. T \in SUBSET Nat /\ T # {}
      BY <1>1
    <3>2. PICK n \in T : \A m \in T : n <= m
      BY <3>1, SmallestNat
    <3>3. PICK p \in P : n = hi - p
      BY <3>2
    <3>4. \A q \in P : hi - p <= hi - q
      BY <3>2, <3>3
    <3>5. QED
      BY <1>1, <2>1, <3>3, <3>4 DEF Better
  <2>2. CASE s = "Ask"
    <3> DEFINE T == {p - lo : p \in P}
    <3>1. T \in SUBSET Nat /\ T # {}
      BY <1>1
    <3>2. PICK n \in T : \A m \in T : n <= m
      BY <3>1, SmallestNat
    <3>3. PICK p \in P : n = p - lo
      BY <3>2
    <3>4. \A q \in P : p - lo <= q - lo
      BY <3>2, <3>3
    <3>5. QED
      BY <1>1, <2>2, <3>3, <3>4 DEF Better
  <2>3. QED
    BY <2>1, <2>2 DEF Side
<1>3. QED
  BY <1>2, Zenon DEF BestOf

\* The best price of a set is the only one that no other price beats.
LEMMA BestOfUnique ==
  ASSUME NEW s \in Side, NEW P \in SUBSET Price, NEW x \in P,
         \A q \in P : ~Better(s, q, x)
  PROVE  BestOf(s, P) = x
<1>1. BestOf(s, P) \in P /\ ~Better(s, x, BestOf(s, P)) /\ ~Better(s, BestOf(s, P), x)
  BY BestOfExists
<1>2. x \in Int /\ BestOf(s, P) \in Int
  <2>1. x \in Price /\ BestOf(s, P) \in Price
    BY <1>1
  <2>2. QED
    BY <2>1, PriceFacts
<1>3. QED
  BY <1>1, <1>2 DEF Better

\* When the best resting level is out of reach, so is every other.
LEMMA NoneCrosses ==
  ASSUME NEW s \in Side, NEW P \in SUBSET Price, P # {}, NEW limit \in Price,
         ~Crosses(s, limit, BestOf(Opposite(s), P))
  PROVE  \A x \in P : ~Crosses(s, limit, x)
<1> SUFFICES ASSUME NEW x \in P PROVE ~Crosses(s, limit, x)
  OBVIOUS
<1>1. PICK r \in Side : r = Opposite(s)
  BY SideFacts
<1>2. PICK b \in P : b = BestOf(r, P) /\ ~Better(r, x, b)
  BY BestOfExists
<1>3. x \in Int /\ b \in Int /\ limit \in Int
  BY PriceFacts
<1>4. Better(s, b, limit)
  BY <1>1, <1>2 DEF Crosses
<1>5. Better(s, x, limit)
  BY <1>1, <1>2, <1>3, <1>4 DEF Better, Opposite, Side
<1>6. QED
  BY <1>5 DEF Crosses

-----------------------------------------------------------------------------
(* Queues.  Which orders a queue holds, and that it holds each only once. *)

Holds(queue, id) == \E i \in DOMAIN queue : queue[i].id = id

DistinctIds(queue) ==
  \A i, j \in DOMAIN queue : queue[i].id = queue[j].id => i = j

\* A queue as a function on its places.
LEMMA QueueFacts ==
  ASSUME NEW q \in Seq(Order)
  PROVE  /\ Len(q) \in Nat
         /\ DOMAIN q = 1 .. Len(q)
         /\ \A i \in DOMAIN q : q[i] \in Order /\ q[i].id \in OrderId /\ q[i].qty \in 1 .. MaxQty
         /\ q = <<>> <=> Len(q) = 0
         /\ \A id : Holds(q, id) => id \in OrderId
<1>1. /\ Len(q) \in Nat
      /\ DOMAIN q = 1 .. Len(q)
      /\ q = <<>> <=> Len(q) = 0
  OBVIOUS
<1>2. \A i \in DOMAIN q : q[i] \in Order
  BY <1>1
<1>3. QED
  BY <1>1, <1>2 DEF Order, Holds

\* What removing one element does to the places of a sequence.
LEMMA RemoveAtFacts ==
  ASSUME NEW S, NEW q \in Seq(S), NEW i \in 1 .. Len(q)
  PROVE  /\ RemoveAt(q, i) \in Seq(S)
         /\ Len(RemoveAt(q, i)) = Len(q) - 1
         /\ \A j \in 1 .. Len(q) - 1 : RemoveAt(q, i)[j] = IF j < i THEN q[j] ELSE q[j + 1]
<1> DEFINE a == SubSeq(q, 1, i - 1)
           b == SubSeq(q, i + 1, Len(q))
<1>1. /\ a \in Seq(S) /\ Len(a) = i - 1
      /\ \A j \in 1 .. i - 1 : a[j] = q[j]
  BY SubSeqProperties
<1>2. /\ b \in Seq(S) /\ Len(b) = Len(q) - i
      /\ \A j \in 1 .. Len(q) - i : b[j] = q[j + i]
  BY SubSeqProperties
<1>3. /\ a \o b \in Seq(S) /\ Len(a \o b) = Len(q) - 1
      /\ \A j \in 1 .. Len(q) - 1 : (a \o b)[j] = IF j <= i - 1 THEN a[j] ELSE b[j - (i - 1)]
  <2> HIDE DEF a, b
  <2>1. /\ a \o b \in Seq(S) /\ Len(a \o b) = Len(a) + Len(b)
        /\ \A j \in 1 .. Len(a) + Len(b) :
             (a \o b)[j] = IF j <= Len(a) THEN a[j] ELSE b[j - Len(a)]
    BY <1>1, <1>2, ConcatProperties
  <2>2. Len(a) + Len(b) = Len(q) - 1
    BY <1>1, <1>2
  <2>3. QED
    BY <1>1, <2>1, <2>2
<1>4. \A j \in 1 .. Len(q) - 1 : (a \o b)[j] = IF j < i THEN q[j] ELSE q[j + 1]
  <2> TAKE j \in 1 .. Len(q) - 1
  <2> HIDE DEF a, b
  <2>1. CASE j < i
    BY <1>1, <1>3, <2>1
  <2>2. CASE ~(j < i)
    <3>1. j - (i - 1) \in 1 .. Len(q) - i /\ (j - (i - 1)) + i = j + 1
      BY <2>2
    <3>2. b[j - (i - 1)] = q[j + 1]
      BY <1>2, <3>1
    <3>3. QED
      BY <1>3, <2>2, <3>2
  <2>3. QED
    BY <2>1, <2>2
<1>5. QED
  BY <1>3, <1>4 DEF RemoveAt

\* A rested order joins its queue.
LEMMA AppendFacts ==
  ASSUME NEW q \in Seq(Order), DistinctIds(q), NEW o \in Order, ~Holds(q, o.id)
  PROVE  /\ Append(q, o) \in Seq(Order)
         /\ Append(q, o) # <<>>
         /\ DistinctIds(Append(q, o))
         /\ \A x : Holds(Append(q, o), x) <=> Holds(q, x) \/ x = o.id
<1> DEFINE u == Append(q, o)
<1>1. DOMAIN q = 1 .. Len(q) /\ Len(q) \in Nat
  BY QueueFacts
<1>2. /\ u \in Seq(Order) /\ Len(u) = Len(q) + 1 /\ DOMAIN u = 1 .. Len(q) + 1
      /\ u[Len(q) + 1] = o
      /\ \A j \in 1 .. Len(q) : u[j] = q[j]
  BY <1>1
<1> HIDE DEF u
<1>3. DistinctIds(u)
  <2> SUFFICES ASSUME NEW j \in DOMAIN u, NEW k \in DOMAIN u, u[j].id = u[k].id
               PROVE  j = k
    BY DEF DistinctIds
  <2>1. CASE j \in DOMAIN q /\ k \in DOMAIN q
    BY <1>1, <1>2, <2>1 DEF DistinctIds
  <2>2. CASE j \notin DOMAIN q /\ k \notin DOMAIN q
    BY <1>1, <1>2, <2>2
  <2>3. CASE j \in DOMAIN q /\ k \notin DOMAIN q
    <3>1. k = Len(q) + 1 /\ q[j].id = o.id
      BY <1>1, <1>2, <2>3
    <3>2. QED
      BY <2>3, <3>1 DEF Holds
  <2>4. CASE j \notin DOMAIN q /\ k \in DOMAIN q
    <3>1. j = Len(q) + 1 /\ q[k].id = o.id
      BY <1>1, <1>2, <2>4
    <3>2. QED
      BY <2>4, <3>1 DEF Holds
  <2>5. QED
    BY <2>1, <2>2, <2>3, <2>4
<1>4. ASSUME NEW x PROVE Holds(u, x) <=> Holds(q, x) \/ x = o.id
  <2>1. ASSUME Holds(u, x) PROVE Holds(q, x) \/ x = o.id
    BY <1>1, <1>2, <2>1 DEF Holds
  <2>2. ASSUME Holds(q, x) PROVE Holds(u, x)
    BY <1>1, <1>2, <2>2 DEF Holds
  <2>3. Holds(u, o.id)
    <3>1. Len(q) + 1 \in DOMAIN u
      BY <1>1, <1>2
    <3>2. QED
      BY <1>2, <3>1 DEF Holds
  <2>4. QED
    BY <2>1, <2>2, <2>3
<1>5. u # <<>>
  BY <1>1, <1>2, QueueFacts
<1>6. QED
  BY <1>2, <1>3, <1>4, <1>5 DEF u
-----------------------------------------------------------------------------
(* The quantity of a queue.  QueueQty() is a fold over the places of the     *)
(* queue; that it adds up as a sum should is an induction, carried by the    *)
(* least set of places on which two functions of Weighs() would differ.      *)

\* g gives each set of places of the queue the quantity that lies there.
Weighs(g, q) ==
  /\ g \in [SUBSET DOMAIN q -> Nat]
  /\ g[{}] = 0
  /\ \A s \in SUBSET DOMAIN q : \A x \in s : g[s] = q[x].qty + g[s \ {x}]

\* Some function gives the weight of every set of places of a queue.
LEMMA WeighsExists ==
  ASSUME NEW q \in Seq(Order)
  PROVE  \E g : Weighs(g, q)
<1> DEFINE Sums(n, g) == /\ g \in [SUBSET (1 .. n) -> Nat]
                         /\ g[{}] = 0
                         /\ \A s \in SUBSET (1 .. n) : \A x \in s : g[s] = q[x].qty + g[s \ {x}]
           T == {n \in 0 .. Len(q) : ~\E g : Sums(n, g)}
<1>1. DOMAIN q = 1 .. Len(q) /\ Len(q) \in Nat /\ \A i \in 1 .. Len(q) : q[i].qty \in Nat
  BY QueueFacts, TypesAssumption
<1>2. ASSUME NEW n \in 1 .. Len(q), NEW g, Sums(n - 1, g)
      PROVE  \E h : Sums(n, h)
  <2> DEFINE h == [s \in SUBSET (1 .. n) |->
                     g[s \ {n}] + (IF n \in s THEN q[n].qty ELSE 0)]
  <2>1. \A s \in SUBSET (1 .. n) : s \ {n} \in SUBSET (1 .. n - 1) /\ g[s \ {n}] \in Nat
    <3>1. \A s \in SUBSET (1 .. n) : s \ {n} \in SUBSET (1 .. n - 1)
      BY <1>1
    <3>2. QED
      BY <1>2, <3>1
  <2>2. h \in [SUBSET (1 .. n) -> Nat]
    BY <1>1, <2>1
  <2>3. h[{}] = 0
    <3>1. {} \in SUBSET (1 .. n) /\ {} \ {n} = {}
      OBVIOUS
    <3>2. QED
      BY <1>2, <3>1
  <2>4. \A s \in SUBSET (1 .. n) : h[s] = g[s \ {n}] + (IF n \in s THEN q[n].qty ELSE 0)
    OBVIOUS
  <2> HIDE DEF h
  <2>5. ASSUME NEW s \in SUBSET (1 .. n), NEW x \in s
        PROVE  h[s] = q[x].qty + h[s \ {x}]
    <3>1. s \ {x} \in SUBSET (1 .. n) /\ x \in 1 .. Len(q)
      <4>1. s \ {x} \in SUBSET (1 .. n) /\ x \in 1 .. n
        BY Zenon
      <4>2. QED
        BY <1>1, <4>1
    <3>2. g[s \ {n}] \in Nat /\ g[(s \ {x}) \ {n}] \in Nat /\ q[x].qty \in Nat /\ q[n].qty \in Nat
      <4>1. g[s \ {n}] \in Nat /\ g[(s \ {x}) \ {n}] \in Nat
        BY <2>1, <3>1, Zenon
      <4>2. QED
        BY <1>1, <3>1, <4>1
    <3>3. PICK a \in Nat, b \in Nat, c \in Nat, d \in Nat :
            /\ a = g[s \ {n}] /\ b = g[(s \ {x}) \ {n}] /\ c = q[x].qty /\ d = q[n].qty
      BY <3>2
    <3>4. /\ h[s] = a + (IF n \in s THEN d ELSE 0)
          /\ h[s \ {x}] = b + (IF n \in s \ {x} THEN d ELSE 0)
      BY <2>4, <3>1, <3>3, Zenon
    <3>5. CASE x = n
      <4>1. (s \ {x}) \ {n} = s \ {n} /\ n \in s /\ n \notin s \ {x}
        BY <3>5
      <4>2. a = b /\ c = d
        BY <3>3, <3>5, <4>1, Zenon
      <4>3. h[s] = a + d /\ h[s \ {x}] = b + 0
        BY <3>4, <4>1, Zenon
      <4>4. QED
        BY <3>3, <4>2, <4>3
    <3>6. CASE x # n
      <4>1. x \in s \ {n} /\ (s \ {x}) \ {n} = (s \ {n}) \ {x} /\ (n \in s \ {x} <=> n \in s)
        BY <3>6
      <4>2. s \ {n} \in SUBSET (1 .. n - 1)
        BY <2>1
      <4>3. g[s \ {n}] = q[x].qty + g[(s \ {n}) \ {x}]
        BY <1>2, <4>1, <4>2, Zenon
      <4>4. a = c + b
        BY <3>3, <4>1, <4>3, Zenon
      <4>5. PICK e \in Nat : e = IF n \in s THEN d ELSE 0
        OBVIOUS
      <4>6. h[s] = a + e /\ h[s \ {x}] = b + e
        BY <3>4, <4>1, <4>5, Zenon
      <4>7. QED
        BY <3>3, <4>4, <4>6
    <3>7. QED
      BY <3>5, <3>6
  <2>6. QED
    BY <2>2, <2>3, <2>5, ZenonT(30)
<1>3. \E g : Sums(0, g)
  <2> DEFINE g == [s \in SUBSET (1 .. 0) |-> 0]
  <2>1. 1 .. 0 = {}
    OBVIOUS
  <2>2. g \in [SUBSET (1 .. 0) -> Nat] /\ g[{}] = 0
    OBVIOUS
  <2>3. \A s \in SUBSET (1 .. 0) : \A x \in s : g[s] = q[x].qty + g[s \ {x}]
    BY <2>1
  <2> HIDE DEF g
  <2>4. QED
    BY <2>2, <2>3
<1> HIDE DEF Sums
<1>4. T = {}
  <2> SUFFICES ASSUME T # {} PROVE FALSE
    OBVIOUS
  <2>1. T \in SUBSET Nat
    BY <1>1
  <2>2. PICK n \in T : \A m \in T : n <= m
    BY <2>1, SmallestNat
  <2>3. n # 0
    BY <1>3, <2>2
  <2>4. n \in 1 .. Len(q) /\ n - 1 \in 0 .. Len(q) /\ n - 1 < n
    BY <1>1, <2>2, <2>3
  <2>5. n - 1 \notin T
    BY <2>2, <2>4
  <2>6. \E g : Sums(n - 1, g)
    BY <2>4, <2>5
  <2>7. QED
    BY <1>2, <2>2, <2>4, <2>6
<1>5. \E g : Sums(Len(q), g)
  BY <1>1, <1>4
<1>6. QED
  BY <1>1, <1>5, ZenonT(30) DEF Sums, Weighs

\* The quantity of a queue is the weight of all its places.
LEMMA QueueQtyIs ==
  ASSUME NEW q \in Seq(Order), NEW g, Weighs(g, q)
  PROVE  QueueQty(q) = g[DOMAIN q]
<1> DEFINE S == DOMAIN q
           pick(s) == CHOOSE x \in s : TRUE
           Iter(f) == f = [s \in SUBSET S |-> IF s = {} THEN 0
                                              ELSE q[pick(s)].qty + f[s \ {pick(s)}]]
           iter == CHOOSE f : Iter(f)
<1>1. QueueQty(q) = iter[S]
  BY DEF QueueQty, MapThenSumSet, MapThenFoldSet
<1>2. \A s \in SUBSET S : s # {} => pick(s) \in s
  OBVIOUS
<1>3. Iter(g)
  BY <1>2 DEF Weighs
<1>4. Iter(iter)
  BY <1>3
<1> HIDE DEF iter
<1>5. \A s \in SUBSET S : s # {} => /\ s \ {pick(s)} \in SUBSET S
                                    /\ iter[s] = q[pick(s)].qty + iter[s \ {pick(s)}]
                                    /\ g[s] = q[pick(s)].qty + g[s \ {pick(s)}]
  <2>1. \A s \in SUBSET S : s # {} => iter[s] = q[pick(s)].qty + iter[s \ {pick(s)}]
    BY <1>4
  <2>2. \A s \in SUBSET S : s # {} => g[s] = q[pick(s)].qty + g[s \ {pick(s)}]
    BY <1>2 DEF Weighs
  <2>3. QED
    BY <2>1, <2>2
<1>6. iter[{}] = 0 /\ g[{}] = 0
  BY <1>4 DEF Weighs
<1>7. \A s \in SUBSET S : iter[s] = g[s]
  <2> DEFINE T == {Cardinality(s) : s \in {r \in SUBSET S : iter[r] # g[r]}}
  <2> SUFFICES ASSUME T # {} PROVE FALSE
    OBVIOUS
  <2>1. \A s \in SUBSET S : IsFiniteSet(s) /\ Cardinality(s) \in Nat
    <3>1. IsFiniteSet(S)
      BY QueueFacts, FS_Interval
    <3>2. QED
      BY <3>1, FS_Subset, FS_CardinalityType
  <2>2. T \in SUBSET Nat
    BY <2>1
  <2>3. PICK n \in T : \A m \in T : n <= m
    BY <2>2, SmallestNat
  <2>4. PICK s \in SUBSET S : n = Cardinality(s) /\ iter[s] # g[s]
    BY <2>3
  <2>5. s # {}
    BY <1>6, <2>4
  <2>6. PICK r \in SUBSET S : r = s \ {pick(s)}
    BY <1>5, <2>5
  <2>7. Cardinality(r) = n - 1 /\ n \in Nat
    BY <1>2, <2>1, <2>4, <2>5, <2>6, FS_RemoveElement
  <2>8. iter[r] # g[r]
    BY <1>5, <2>4, <2>5, <2>6
  <2>9. n - 1 \in T
    BY <2>7, <2>8
  <2>10. QED
    BY <2>3, <2>7, <2>9
<1>8. QED
  BY <1>1, <1>7

\* The orders of queue r are those at the places P of queue q, m telling which is where.
LiesAt(r, q, m, P) ==
  /\ m \in [DOMAIN r -> DOMAIN q]
  /\ \A i, j \in DOMAIN r : m[i] = m[j] => i = j
  /\ \A i \in DOMAIN r : r[i].qty = q[m[i]].qty
  /\ \A i \in DOMAIN r : m[i] \in P
  /\ \A k \in P : \E i \in DOMAIN r : m[i] = k

\* A queue whose orders have the quantities of the places in P of another queue has
\* the weight of P.
LEMMA QueueQtyOfPlaces ==
  ASSUME NEW q \in Seq(Order), NEW g, Weighs(g, q), NEW r \in Seq(Order),
         NEW P \in SUBSET DOMAIN q, NEW m, LiesAt(r, q, m, P)
  PROVE  QueueQty(r) = g[P]
<1> USE DEF LiesAt
<1> DEFINE At(s) == {m[i] : i \in s}
           h == [s \in SUBSET DOMAIN r |-> g[At(s)]]
<1>1. \A s \in SUBSET DOMAIN r : At(s) \in SUBSET DOMAIN q
  OBVIOUS
<1>2. h \in [SUBSET DOMAIN r -> Nat]
  BY <1>1 DEF Weighs
<1>3. \A s \in SUBSET DOMAIN r : h[s] = g[At(s)]
  OBVIOUS
<1> HIDE DEF h
<1>4. h[{}] = 0
  <2>1. At({}) = {} /\ {} \in SUBSET DOMAIN r
    OBVIOUS
  <2>2. QED
    BY <1>3, <2>1 DEF Weighs
<1>5. ASSUME NEW s \in SUBSET DOMAIN r, NEW x \in s
      PROVE  h[s] = r[x].qty + h[s \ {x}]
  <2>1. At(s \ {x}) = At(s) \ {m[x]}
    OBVIOUS
  <2>2. m[x] \in At(s) /\ At(s) \in SUBSET DOMAIN q /\ s \ {x} \in SUBSET DOMAIN r
    OBVIOUS
  <2>3. x \in DOMAIN r
    OBVIOUS
  <2> HIDE DEF At
  <2>4. g[At(s)] = q[m[x]].qty + g[At(s) \ {m[x]}]
    BY <2>2, Zenon DEF Weighs
  <2>5. r[x].qty = q[m[x]].qty
    BY <2>3
  <2>6. h[s] = g[At(s)] /\ h[s \ {x}] = g[At(s \ {x})]
    BY <1>3, <2>2
  <2>7. QED
    BY <2>1, <2>4, <2>5, <2>6
<1>6. Weighs(h, r)
  BY <1>2, <1>4, <1>5 DEF Weighs
<1>7. At(DOMAIN r) = P
  OBVIOUS
<1>8. QED
  BY <1>3, <1>6, <1>7, QueueQtyIs

\* The quantity of a queue is a natural, 0 for the empty queue alone.
LEMMA QueueQtyFacts ==
  /\ QueueQty(<<>>) = 0
  /\ \A q \in Seq(Order) : QueueQty(q) \in Nat /\ (QueueQty(q) > 0 <=> q # <<>>)
<1>1. ASSUME NEW q \in Seq(Order)
      PROVE  /\ QueueQty(q) \in Nat
             /\ q = <<>> => QueueQty(q) = 0
             /\ q # <<>> => QueueQty(q) > 0
  <2>1. PICK g : Weighs(g, q)
    BY WeighsExists
  <2>2. QueueQty(q) = g[DOMAIN q]
    BY <2>1, QueueQtyIs
  <2>3. g[DOMAIN q] \in Nat
    BY <2>1 DEF Weighs
  <2>4. CASE q = <<>>
    <3>1. DOMAIN q = {}
      BY <2>4
    <3>2. QED
      BY <2>1, <2>2, <2>4, <3>1 DEF Weighs
  <2>5. CASE q # <<>>
    <3>1. 1 \in DOMAIN q /\ q[1].qty \in 1 .. MaxQty
      BY <2>5, QueueFacts
    <3>2. DOMAIN q \ {1} \in SUBSET DOMAIN q
      OBVIOUS
    <3>3. g[DOMAIN q] = q[1].qty + g[DOMAIN q \ {1}] /\ g[DOMAIN q \ {1}] \in Nat
      BY <2>1, <3>1, <3>2 DEF Weighs
    <3>4. QED
      BY <2>2, <2>5, <3>1, <3>3, TypesAssumption
  <2>6. QED
    BY <2>2, <2>3, <2>4, <2>5
<1>2. QueueQty(<<>>) = 0
  <2>1. <<>> \in Seq(Order)
    OBVIOUS
  <2>2. QED
    BY <1>1, <2>1
<1>3. ASSUME NEW q \in Seq(Order)
      PROVE  QueueQty(q) \in Nat /\ (QueueQty(q) > 0 <=> q # <<>>)
  <2>1. PICK n : n = QueueQty(q)
    OBVIOUS
  <2>2. n \in Nat /\ (q = <<>> => n = 0) /\ (q # <<>> => n > 0)
    BY <1>1, <2>1
  <2>3. n > 0 <=> q # <<>>
    BY <2>2
  <2>4. QED
    BY <2>1, <2>2, <2>3
<1>4. QED
  BY <1>2, <1>3

\* Removing one order takes its quantity out of the queue's.
LEMMA QueueQtyRemoveAt ==
  ASSUME NEW q \in Seq(Order), NEW i \in 1 .. Len(q)
  PROVE  QueueQty(RemoveAt(q, i)) = QueueQty(q) - q[i].qty
<1>1. PICK g : Weighs(g, q)
  BY WeighsExists
<1>2. PICK r \in Seq(Order) :
        /\ r = RemoveAt(q, i) /\ Len(r) = Len(q) - 1
        /\ \A j \in 1 .. Len(q) - 1 : r[j] = IF j < i THEN q[j] ELSE q[j + 1]
  BY RemoveAtFacts
<1>3. /\ DOMAIN q = 1 .. Len(q) /\ Len(q) \in Nat /\ DOMAIN r = 1 .. Len(q) - 1
      /\ q[i].qty \in Nat
  BY <1>2, QueueFacts, TypesAssumption
<1> DEFINE m == [j \in DOMAIN r |-> IF j < i THEN j ELSE j + 1]
<1>4. m \in [DOMAIN r -> DOMAIN q]
  BY <1>3
<1>5. /\ \A j \in DOMAIN r : m[j] \in DOMAIN q /\ r[j] = q[m[j]] /\ m[j] # i
      /\ \A j, k \in DOMAIN r : m[j] = m[k] => j = k
  BY <1>2, <1>3
<1>6. \A k \in DOMAIN q : k # i => \E j \in DOMAIN r : m[j] = k
  <2> SUFFICES ASSUME NEW k \in DOMAIN q, k # i
               PROVE  \E j \in DOMAIN r : m[j] = k
    OBVIOUS
  <2>1. CASE k < i
    <3>1. k \in DOMAIN r /\ m[k] = k
      BY <1>3, <2>1
    <3>2. QED
      BY <3>1
  <2>2. CASE k > i
    <3>1. k - 1 \in DOMAIN r /\ m[k - 1] = k
      BY <1>3, <2>2
    <3>2. QED
      BY <3>1
  <2>3. QED
    BY <1>3, <2>1, <2>2
<1> HIDE DEF m
<1>7. PICK P \in SUBSET DOMAIN q : P = DOMAIN q \ {i}
  OBVIOUS
<1>8. QueueQty(r) = g[P]
  <2>1. \A j \in DOMAIN r : r[j].qty = q[m[j]].qty
    BY <1>5
  <2>2. \A j \in DOMAIN r : m[j] \in P
    BY <1>5, <1>7
  <2>3. \A k \in P : \E j \in DOMAIN r : m[j] = k
    BY <1>6, <1>7
  <2>4. \A j, k \in DOMAIN r : m[j] = m[k] => j = k
    BY <1>5
  <2>5. LiesAt(r, q, m, P)
    BY <1>4, <2>1, <2>2, <2>3, <2>4 DEF LiesAt
  <2>6. QED
    BY <1>1, <2>5, QueueQtyOfPlaces
<1>9. QueueQty(q) = g[DOMAIN q]
  BY <1>1, QueueQtyIs
<1>10. g[DOMAIN q] = q[i].qty + g[DOMAIN q \ {i}] /\ g[DOMAIN q \ {i}] \in Nat
  <2>1. DOMAIN q \ {i} \in SUBSET DOMAIN q /\ i \in DOMAIN q
    BY <1>3
  <2>2. QED
    BY <1>1, <2>1 DEF Weighs
<1>11. QED
  BY <1>2, <1>3, <1>7, <1>8, <1>9, <1>10

\* Appending an order adds its quantity.
LEMMA QueueQtyAppend ==
  ASSUME NEW q \in Seq(Order), NEW o \in Order
  PROVE  QueueQty(Append(q, o)) = QueueQty(q) + o.qty
<1>1. PICK r \in Seq(Order) : r = Append(q, o)
  BY AppendProperties
<1>2. /\ Len(q) \in Nat /\ Len(r) = Len(q) + 1 /\ r[Len(q) + 1] = o /\ o.qty \in Nat
      /\ \A j \in 1 .. Len(q) : r[j] = q[j]
  BY <1>1, QueueFacts, TypesAssumption DEF Order
<1>3. /\ RemoveAt(r, Len(r)) \in Seq(Order)
      /\ Len(RemoveAt(r, Len(r))) = Len(q)
      /\ \A j \in 1 .. Len(q) : RemoveAt(r, Len(r))[j] = q[j]
  <2>1. Len(r) \in 1 .. Len(r)
    BY <1>2
  <2>2. /\ RemoveAt(r, Len(r)) \in Seq(Order)
        /\ Len(RemoveAt(r, Len(r))) = Len(r) - 1
        /\ \A j \in 1 .. Len(r) - 1 :
             RemoveAt(r, Len(r))[j] = IF j < Len(r) THEN r[j] ELSE r[j + 1]
    BY <2>1, RemoveAtFacts
  <2>3. QED
    BY <1>2, <2>2
<1>4. RemoveAt(r, Len(r)) = q
  BY <1>3, SeqEqual
<1>5. QueueQty(q) = QueueQty(r) - o.qty
  BY <1>2, <1>4, QueueQtyRemoveAt
<1>6. QueueQty(r) \in Nat /\ QueueQty(q) \in Nat
  BY QueueQtyFacts
<1>7. QED
  BY <1>1, <1>2, <1>5, <1>6

\* Dropping the front takes out its quantity.
LEMMA QueueQtyTail ==
  ASSUME NEW q \in Seq(Order), q # <<>>
  PROVE  QueueQty(Tail(q)) = QueueQty(q) - q[1].qty
<1>1. Len(q) \in Nat /\ 1 \in 1 .. Len(q)
  BY QueueFacts
<1>2. SubSeq(q, 1, 0) = <<>> /\ SubSeq(q, 2, Len(q)) = Tail(q) /\ Tail(q) \in Seq(Order)
  BY <1>1, SubSeqEmpty, TailIsSubSeq, HeadTailProperties
<1>3. RemoveAt(q, 1) = Tail(q)
  BY <1>1, <1>2, ConcatEmptySeq DEF RemoveAt
<1>4. QED
  BY <1>1, <1>3, QueueQtyRemoveAt

\* The quantity resting on some levels is the sum of the levels' quantities.
LEMMA LiquidityIs ==
  ASSUME NEW bk, NEW s, NEW P \in SUBSET Price, NEW f, \A p \in P : f[p] = QueueQty(bk[s][p])
  PROVE  Liquidity(bk, s, P) = SumOf(f, P)
<1> DEFINE pick(r) == CHOOSE x \in r : TRUE
           A(h) == h = [r \in SUBSET P |-> IF r = {} THEN 0 ELSE QueueQty(bk[s][pick(r)]) + h[r \ {pick(r)}]]
           B(h) == h = [r \in SUBSET P |-> IF r = {} THEN 0 ELSE f[pick(r)] + h[r \ {pick(r)}]]
<1>1. Liquidity(bk, s, P) = (CHOOSE h : A(h))[P]
  BY DEF Liquidity, MapThenSumSet, MapThenFoldSet
<1>2. SumOf(f, P) = (CHOOSE h : B(h))[P]
  BY DEF SumOf, MapThenSumSet, MapThenFoldSet
<1>3. \A r \in SUBSET P : r # {} => pick(r) \in P
  OBVIOUS
<1>4. ASSUME NEW h PROVE A(h) <=> B(h)
  <2>1. \A r \in SUBSET P : (IF r = {} THEN 0 ELSE QueueQty(bk[s][pick(r)]) + h[r \ {pick(r)}])
             = (IF r = {} THEN 0 ELSE f[pick(r)] + h[r \ {pick(r)}])
    BY <1>3
  <2> HIDE DEF pick
  <2>2. QED
    BY <2>1
<1> HIDE DEF A, B
<1>5. (CHOOSE h : A(h)) = (CHOOSE h : B(h))
  BY <1>4, Zenon
<1>6. QED
  BY <1>1, <1>2, <1>5

\* The elements of r are those of q at the places in keep: m tells which is where.
Places(r, q, keep, m) ==
  /\ DOMAIN r = 1 .. Cardinality(keep) /\ Cardinality(keep) \in Nat
  /\ \A k \in DOMAIN r : m[k] \in keep /\ r[k] = q[m[k]]
  /\ \A j, k \in DOMAIN r : j < k => m[j] < m[k]
  /\ \A i \in keep : \E k \in DOMAIN r : m[k] = i

\* The kept part of a sequence has every kept place once, in order.
LEMMA KeptPlaces ==
  ASSUME NEW S, NEW q \in Seq(S), NEW keep \in SUBSET DOMAIN q
  PROVE  \E m : Places(Kept(q, keep), q, keep, m)
<1> DEFINE n == Len(q) + 1
           c == Cardinality(keep)
           m == [k \in 1 .. c |-> CHOOSE i \in keep : Below(keep, i) = k - 1]
<1>1. n \in Nat /\ keep \in SUBSET (0 .. n - 1) /\ \A i \in keep : i \in Nat
  OBVIOUS
<1>2. c \in Nat /\ \A i \in keep : Below(keep, i) \in Nat
  BY <1>1, BelowFacts
<1>3. ASSUME NEW k \in 1 .. c PROVE \E i \in keep : Below(keep, i) = k - 1
  BY <1>1, RankExists
<1>4. \A k \in 1 .. c : m[k] \in keep /\ Below(keep, m[k]) = k - 1
  BY <1>3
<1>5. Kept(q, keep) = [k \in 1 .. c |-> q[m[k]]]
  BY DEF Kept, Below
<1> HIDE DEF m, n, c
<1>6. ASSUME NEW i \in 1 .. c, NEW j \in 1 .. c, i < j PROVE m[i] < m[j]
  <2> SUFFICES ASSUME ~(m[i] < m[j]) PROVE FALSE
    OBVIOUS
  <2>1. PICK x \in keep, y \in keep : x = m[i] /\ y = m[j]
    BY <1>4
  <2>2. x \in Nat /\ y \in Nat /\ Below(keep, x) = i - 1 /\ Below(keep, y) = j - 1
    BY <1>1, <1>4, <2>1
  <2>3. y < x \/ y = x
    BY <2>1, <2>2
  <2>4. y < x => Below(keep, y) < Below(keep, x)
    BY <1>1, <2>2, RankOrders
  <2>5. QED
    BY <1>2, <1>6, <2>2, <2>3, <2>4
<1>7. ASSUME NEW x \in keep PROVE \E k \in 1 .. c : m[k] = x
  <2>1. Below(keep, x) \in Nat /\ Below(keep, x) < c
    <3>1. x \in Nat /\ x + 1 \in Nat /\ x < x + 1
      BY <1>1
    <3>2. Below(keep, x) < Below(keep, x + 1) /\ Below(keep, x + 1) <= c
      BY <1>1, <3>1, RankOrders DEF c
    <3>3. Below(keep, x + 1) \in Nat /\ Below(keep, x) \in Nat
      BY <1>1, <3>1, BelowFacts
    <3>4. QED
      BY <1>2, <3>2, <3>3
  <2>2. PICK k \in 1 .. c : k - 1 = Below(keep, x)
    <3>1. Below(keep, x) + 1 \in 1 .. c /\ (Below(keep, x) + 1) - 1 = Below(keep, x)
      BY <1>2, <2>1
    <3>2. QED
      BY <3>1
  <2>3. PICK y \in keep : y = m[k] /\ Below(keep, y) = Below(keep, x)
    BY <1>4, <2>2
  <2>4. x \in Nat /\ y \in Nat
    BY <1>1
  <2>5. ~(x < y) /\ ~(y < x)
    <3>1. x < y => Below(keep, x) < Below(keep, y)
      BY <1>1, <2>4, RankOrders
    <3>2. y < x => Below(keep, y) < Below(keep, x)
      BY <1>1, <2>4, RankOrders
    <3>3. QED
      BY <2>1, <2>3, <3>1, <3>2
  <2>6. QED
    BY <2>3, <2>4, <2>5
<1>8. PICK r : r = Kept(q, keep)
  OBVIOUS
<1>9. DOMAIN r = 1 .. c /\ \A k \in 1 .. c : r[k] = q[m[k]]
  BY <1>5, <1>8
<1>10. Places(r, q, keep, m)
  <2>1. \A k \in DOMAIN r : m[k] \in keep /\ r[k] = q[m[k]]
    BY <1>4, <1>9
  <2>2. \A j, k \in DOMAIN r : j < k => m[j] < m[k]
    BY <1>6, <1>9
  <2>3. \A i \in keep : \E k \in DOMAIN r : m[k] = i
    BY <1>7, <1>9
  <2>4. QED
    BY <1>2, <1>9, <2>1, <2>2, <2>3 DEF Places, c
<1>11. QED
  BY <1>8, <1>10

\* What the orders kept of a sequence are.
LEMMA KeptFacts ==
  ASSUME NEW S, NEW q \in Seq(S), NEW keep \in SUBSET DOMAIN q, NEW T, \A i \in keep : q[i] \in T
  PROVE  /\ Kept(q, keep) \in Seq(T)
         /\ \A k \in DOMAIN Kept(q, keep) : \E i \in keep : Kept(q, keep)[k] = q[i]
         /\ \A i \in keep : \E k \in DOMAIN Kept(q, keep) : Kept(q, keep)[k] = q[i]
         /\ Kept(q, keep) = <<>> <=> keep = {}
<1> DEFINE n == Cardinality(keep)
<1>1. PICK m : Places(Kept(q, keep), q, keep, m)
  BY KeptPlaces
<1>2. /\ n \in Nat
      /\ Kept(q, keep) = [k \in 1 .. n |-> Kept(q, keep)[k]]
      /\ \A k \in 1 .. n : Kept(q, keep)[k] = q[m[k]] /\ m[k] \in keep
      /\ \A x \in keep : \E k \in 1 .. n : m[k] = x
  <2>1. Kept(q, keep) = [k \in 1 .. n |-> Kept(q, keep)[k]]
    BY DEF Kept
  <2>2. QED
    BY <1>1, <2>1 DEF Places
<1> HIDE DEF n
<1>3. \A k \in 1 .. n : m[k] \in keep /\ q[m[k]] \in T
  BY <1>2
<1>4. Kept(q, keep) \in Seq(T) /\ DOMAIN Kept(q, keep) = 1 .. n
  <2>1. Kept(q, keep) \in [1 .. n -> T]
    BY <1>2, <1>3
  <2>2. QED
    BY <1>2, <2>1
<1>5. \A k \in 1 .. n : Kept(q, keep)[k] = q[m[k]]
  BY <1>2
<1>6. Len(Kept(q, keep)) = n
  BY <1>2, <1>4
<1>7. Kept(q, keep) = <<>> <=> n = 0
  BY <1>4, <1>6
<1>8. n = 0 <=> keep = {}
  <2>1. n = 0 => keep = {}
    BY <1>2
  <2>2. n # 0 => keep # {}
    <3>1. n # 0 => 1 \in 1 .. n
      BY <1>2
    <3>2. QED
      BY <1>3, <3>1
  <2>3. QED
    BY <2>1, <2>2
<1>9. \A k \in DOMAIN Kept(q, keep) : \E i \in keep : Kept(q, keep)[k] = q[i]
  BY <1>3, <1>4, <1>5
<1>10. \A i \in keep : \E k \in DOMAIN Kept(q, keep) : Kept(q, keep)[k] = q[i]
  <2> SUFFICES ASSUME NEW i \in keep
               PROVE  \E k \in DOMAIN Kept(q, keep) : Kept(q, keep)[k] = q[i]
    OBVIOUS
  <2>1. PICK k \in 1 .. n : m[k] = i
    BY <1>2
  <2>2. QED
    BY <1>4, <1>5, <2>1
<1>11. QED
  BY <1>4, <1>7, <1>8, <1>9, <1>10

\* Every book there could be.
AnyBook == [Side -> [Price -> Seq(Order)]]

\* The quantity of a queue is the sum of the quantities of its orders.
LEMMA QueueQtySum ==
  ASSUME NEW q, NEW f, \A i \in DOMAIN q : f[i] = q[i].qty
  PROVE  QueueQty(q) = SumOf(f, DOMAIN q)
<1> DEFINE P == DOMAIN q
           pick(r) == CHOOSE x \in r : TRUE
           A(h) == h = [r \in SUBSET P |-> IF r = {} THEN 0 ELSE q[pick(r)].qty + h[r \ {pick(r)}]]
           B(h) == h = [r \in SUBSET P |-> IF r = {} THEN 0 ELSE f[pick(r)] + h[r \ {pick(r)}]]
<1>1. QueueQty(q) = (CHOOSE h : A(h))[P]
  BY DEF QueueQty, MapThenSumSet, MapThenFoldSet
<1>2. SumOf(f, P) = (CHOOSE h : B(h))[P]
  BY DEF SumOf, MapThenSumSet, MapThenFoldSet
<1>3. \A r \in SUBSET P : r # {} => pick(r) \in P
  OBVIOUS
<1> HIDE DEF P
<1>4. ASSUME NEW h PROVE A(h) <=> B(h)
  <2>1. \A r \in SUBSET P : (IF r = {} THEN 0 ELSE q[pick(r)].qty + h[r \ {pick(r)}])
             = (IF r = {} THEN 0 ELSE f[pick(r)] + h[r \ {pick(r)}])
    BY <1>3 DEF P
  <2> HIDE DEF pick
  <2>2. QED
    BY <2>1
<1> HIDE DEF A, B
<1>5. (CHOOSE h : A(h)) = (CHOOSE h : B(h))
  BY <1>4, Zenon
<1>6. QED
  BY <1>1, <1>2, <1>5 DEF P

\* The quantities of the orders of a queue, by place.
Weights(q) == [i \in DOMAIN q |-> q[i].qty]

\* They are positive, and they add up to the quantity of the queue.
LEMMA WeightsFacts ==
  ASSUME NEW q \in Seq(Order)
  PROVE  /\ DOMAIN q = 1 .. Len(q) /\ Len(q) \in Nat /\ IsFiniteSet(DOMAIN q)
         /\ Weights(q) \in [DOMAIN q -> Nat]
         /\ \A i \in DOMAIN q : Weights(q)[i] = q[i].qty /\ q[i].qty \in Nat /\ q[i].qty > 0
         /\ QueueQty(q) = SumOf(Weights(q), DOMAIN q)
<1>1. DOMAIN q = 1 .. Len(q) /\ Len(q) \in Nat /\ \A i \in DOMAIN q : q[i].qty \in Nat /\ q[i].qty > 0
  BY QueueFacts, TypesAssumption
<1>2. IsFiniteSet(DOMAIN q)
  BY <1>1, FS_Interval
<1>3. Weights(q) \in [DOMAIN q -> Nat] /\ \A i \in DOMAIN q : Weights(q)[i] = q[i].qty
  BY <1>1 DEF Weights
<1>4. QueueQty(q) = SumOf(Weights(q), DOMAIN q)
  BY <1>3, QueueQtySum
<1>5. QED
  BY <1>1, <1>2, <1>3, <1>4

\* The quantity at the first places of a queue.
LEMMA PrefixQty ==
  ASSUME NEW q \in Seq(Order), NEW n \in 0 .. Len(q)
  PROVE  /\ QueueQty(SubSeq(q, 1, n)) = SumOf(Weights(q), 1 .. n)
         /\ 1 .. n \in SUBSET DOMAIN q
<1>1. DOMAIN q = 1 .. Len(q) /\ Len(q) \in Nat /\ \A i \in DOMAIN q : Weights(q)[i] = q[i].qty
  BY WeightsFacts
<1>2. DOMAIN SubSeq(q, 1, n) = 1 .. n /\ \A i \in 1 .. n : SubSeq(q, 1, n)[i] = q[i]
  BY <1>1
<1>3. 1 .. n \in SUBSET DOMAIN q
  BY <1>1
<1>4. PICK r : r = SubSeq(q, 1, n)
  OBVIOUS
<1>5. \A i \in DOMAIN r : Weights(q)[i] = r[i].qty
  BY <1>1, <1>2, <1>3, <1>4
<1>6. QueueQty(r) = SumOf(Weights(q), DOMAIN r)
  BY <1>5, QueueQtySum
<1>7. QED
  BY <1>2, <1>3, <1>4, <1>6

\* There are finitely many prices.
LEMMA PriceFinite == IsFiniteSet(Price)
BY FS_Interval, PriceFacts DEF Price

\* The quantities of the levels of one side.
LevelQtys(bk, s) == [p \in Price |-> QueueQty(bk[s][p])]

\* What rests on some levels of a side is a sum of naturals.
LEMMA LiquidityFacts ==
  ASSUME NEW bk \in AnyBook, NEW s \in Side
  PROVE  /\ LevelQtys(bk, s) \in [Price -> Nat]
         /\ \A p \in Price : LevelQtys(bk, s)[p] = QueueQty(bk[s][p]) /\ bk[s][p] \in Seq(Order)
         /\ \A P \in SUBSET Price : /\ Liquidity(bk, s, P) = SumOf(LevelQtys(bk, s), P)
                                    /\ Liquidity(bk, s, P) \in Nat
<1>1. \A p \in Price : bk[s][p] \in Seq(Order)
  BY DEF AnyBook
<1>2. \A p \in Price : QueueQty(bk[s][p]) \in Nat
  BY <1>1, QueueQtyFacts
<1>3. LevelQtys(bk, s) \in [Price -> Nat] /\ \A p \in Price : LevelQtys(bk, s)[p] = QueueQty(bk[s][p])
  BY <1>2 DEF LevelQtys
<1>4. ASSUME NEW P \in SUBSET Price
      PROVE  Liquidity(bk, s, P) = SumOf(LevelQtys(bk, s), P)
  <2>1. \A p \in P : LevelQtys(bk, s)[p] = QueueQty(bk[s][p])
    BY <1>3
  <2>2. QED
    BY <2>1, LiquidityIs
<1>5. \A P \in SUBSET Price : SumOf(LevelQtys(bk, s), P) \in Nat
  BY <1>3, PriceFinite, SumFacts
<1>6. QED
  BY <1>1, <1>3, <1>4, <1>5

\* The levels served before a price.
Beyond(s, p) == {x \in Price : Better(s, x, p)}

\* What is served before an order, and with it, is part of what rests on the levels
\* served before its own together with its own.
LEMMA AheadFacts ==
  ASSUME NEW bk \in AnyBook, NEW s \in Side, NEW p \in Price, NEW i \in DOMAIN bk[s][p]
  PROVE  /\ Ahead(bk, s, p, i) \in Nat /\ bk[s][p][i].qty \in Nat /\ bk[s][p][i].qty > 0
         /\ Ahead(bk, s, p, i) = Liquidity(bk, s, Beyond(s, p)) + SumOf(Weights(bk[s][p]), 1 .. i - 1)
         /\ \A P \in SUBSET Price : p \in P /\ Beyond(s, p) \subseteq P =>
              Ahead(bk, s, p, i) + bk[s][p][i].qty <= Liquidity(bk, s, P)
<1>1. PICK q \in Seq(Order) : q = bk[s][p]
  BY DEF AnyBook
<1>2. /\ DOMAIN q = 1 .. Len(q) /\ Len(q) \in Nat /\ IsFiniteSet(DOMAIN q) /\ i \in DOMAIN q
      /\ Weights(q) \in [DOMAIN q -> Nat]
      /\ \A j \in DOMAIN q : Weights(q)[j] = q[j].qty /\ q[j].qty \in Nat /\ q[j].qty > 0
      /\ QueueQty(q) = SumOf(Weights(q), DOMAIN q)
  BY <1>1, WeightsFacts
<1>3. i \in 1 .. Len(q) /\ i - 1 \in 0 .. Len(q)
  BY <1>2
<1>4. /\ QueueQty(SubSeq(q, 1, i - 1)) = SumOf(Weights(q), 1 .. i - 1)
      /\ 1 .. i - 1 \in SUBSET DOMAIN q
  BY <1>3, PrefixQty
<1>5. PICK a \in Nat, b \in Nat : a = Liquidity(bk, s, Beyond(s, p)) /\ b = SumOf(Weights(q), 1 .. i - 1)
  <2>1. Beyond(s, p) \in SUBSET Price
    BY DEF Beyond
  <2>2. Liquidity(bk, s, Beyond(s, p)) \in Nat
    BY <2>1, LiquidityFacts
  <2>3. SumOf(Weights(q), 1 .. i - 1) \in Nat
    BY <1>2, <1>4, SumFacts
  <2>4. QED
    BY <2>2, <2>3
<1>6. Ahead(bk, s, p, i) = a + b
  BY <1>1, <1>4, <1>5 DEF Ahead, Beyond
<1>7. b + q[i].qty <= QueueQty(q)
  <2>1. PICK D, w : D = DOMAIN q /\ w = Weights(q)
    OBVIOUS
  <2>2. PICK P, R : P = 1 .. i /\ R = 1 .. i - 1
    OBVIOUS
  <2>3. IsFiniteSet(D) /\ w \in [D -> Nat] /\ w[i] = q[i].qty /\ q[i].qty \in Nat
    BY <1>2, <2>1
  <2>4. P \in SUBSET D /\ R \in SUBSET D /\ i \in P /\ P \ {i} = R
    BY <1>2, <1>3, <1>4, <2>1, <2>2
  <2>5. SumOf(w, P) = w[i] + SumOf(w, R)
    <3>1. SumOf(w, P) = w[i] + SumOf(w, P \ {i})
      BY <2>3, <2>4, SumFacts
    <3>2. QED
      BY <2>4, <3>1
  <2>6. SumOf(w, P) <= SumOf(w, D)
    BY <2>3, <2>4, SumOfPart
  <2>7. b = SumOf(w, R) /\ QueueQty(q) = SumOf(w, D)
    BY <1>2, <1>5, <2>1, <2>2
  <2>8. b + q[i].qty = SumOf(w, P)
    BY <2>3, <2>5, <2>7
  <2>9. QED
    BY <2>6, <2>7, <2>8
<1>8. ASSUME NEW P \in SUBSET Price, p \in P, Beyond(s, p) \subseteq P
      PROVE  (a + b) + q[i].qty <= Liquidity(bk, s, P)
  <2>1. PICK f \in [Price -> Nat] : f = LevelQtys(bk, s)
    BY LiquidityFacts
  <2>2. Liquidity(bk, s, P) = SumOf(f, P) /\ a = SumOf(f, Beyond(s, p)) /\ f[p] = QueueQty(q)
    <3>1. Beyond(s, p) \in SUBSET Price
      BY DEF Beyond
    <3>2. QED
      BY <1>1, <1>5, <2>1, <3>1, LiquidityFacts
  <2>3. PICK r \in SUBSET P : r = Beyond(s, p)
    BY <1>8
  <2>4. p \notin r
    BY <2>3, PriceFacts DEF Beyond, Better
  <2>5. PICK u \in SUBSET P : u = r \cup {p} /\ p \in u /\ u \ {p} = r
    <3>1. r \cup {p} \in SUBSET P /\ p \in r \cup {p} /\ (r \cup {p}) \ {p} = r
      BY <1>8, <2>4
    <3>2. QED
      BY <3>1
  <2>6. SumOf(f, u) = f[p] + SumOf(f, r)
    BY <2>5, PriceFinite, SumFacts
  <2>7. SumOf(f, u) <= SumOf(f, P)
    BY PriceFinite, SumOfPart
  <2>8. f[p] \in Nat /\ SumOf(f, P) \in Nat /\ q[i].qty \in Nat
    BY <1>2, PriceFinite, SumFacts
  <2>9. SumOf(f, u) = QueueQty(q) + a
    BY <2>2, <2>3, <2>6
  <2>10. QED
    BY <1>7, <2>2, <2>7, <2>8, <2>9
<1>9. q[i].qty \in Nat /\ q[i].qty > 0
  BY <1>2
<1>10. QED
  BY <1>1, <1>5, <1>6, <1>8, <1>9

\* What an order gives to an incoming one.
LEMMA FillFacts ==
  ASSUME NEW bk \in AnyBook, NEW side \in Side, NEW limit, NEW qty \in Nat,
         NEW s, s = Opposite(side), NEW p \in Price, NEW i \in DOMAIN bk[s][p]
  PROVE  /\ FillOf(bk, side, limit, qty, p, i) \in Nat
         /\ FillOf(bk, side, limit, qty, p, i) <= bk[s][p][i].qty
         /\ FillOf(bk, side, limit, qty, p, i) > 0 <=>
              Crosses(side, limit, p) /\ qty > Ahead(bk, s, p, i)
         /\ FillOf(bk, side, limit, qty, p, i) = bk[s][p][i].qty <=>
              Crosses(side, limit, p) /\ qty >= Ahead(bk, s, p, i) + bk[s][p][i].qty
<1>1. s \in Side
  BY SideFacts
<1>2. PICK a \in Nat, have \in Nat : a = Ahead(bk, s, p, i) /\ have = bk[s][p][i].qty /\ have > 0
  BY <1>1, AheadFacts
<1>3. PICK c \in BOOLEAN : c <=> Crosses(side, limit, p)
  BY DEF Crosses, Better
<1>4. PICK x : x = FillOf(bk, side, limit, qty, p, i)
  OBVIOUS
<1>5. x = IF c /\ qty - a > 0 THEN MinOf(qty - a, have) ELSE 0
  BY <1>2, <1>3, <1>4 DEF FillOf
<1>6. /\ x \in Nat /\ x <= have
      /\ x > 0 <=> c /\ qty > a
      /\ x = have <=> c /\ qty >= a + have
  BY <1>2, <1>5 DEF MinOf
<1>7. QED
  BY <1>2, <1>3, <1>4, <1>6

\* r is what is left of queue q when fill[i] has been taken from each order i: m tells
\* where each order left was.
Survivors(r, q, fill, m) ==
  /\ \A k \in DOMAIN r : m[k] \in DOMAIN q
  /\ \A j, k \in DOMAIN r : j < k => m[j] < m[k]
  /\ \A k \in DOMAIN r : /\ r[k].id = q[m[k]].id
                         /\ r[k].qty = q[m[k]].qty - fill[m[k]]
                         /\ fill[m[k]] < q[m[k]].qty
  /\ \A i \in DOMAIN q : fill[i] < q[i].qty => \E k \in DOMAIN r : m[k] = i

\* No order can give more than it has.
CanGive(fill, q) == fill \in [DOMAIN q -> Nat] /\ \A i \in DOMAIN q : fill[i] <= q[i].qty

\* Keeping what is not taken whole leaves a queue of survivors.
LEMMA KeptSurvives ==
  ASSUME NEW q \in Seq(Order), NEW fill, CanGive(fill, q),
         NEW S, NEW rest \in Seq(S), NEW keep \in SUBSET DOMAIN q, 
         keep \in SUBSET DOMAIN rest,
         \A i \in DOMAIN q : i \in keep <=> fill[i] < q[i].qty,
         \A i \in keep : /\ rest[i] = [id |-> rest[i].id, qty |-> rest[i].qty]
                         /\ rest[i].id = q[i].id /\ rest[i].qty = q[i].qty - fill[i]
  PROVE  /\ Kept(rest, keep) \in Seq(Order)
         /\ \E m : Survivors(Kept(rest, keep), q, fill, m)
<1>1. \A i \in DOMAIN q : /\ q[i].id \in OrderId /\ q[i].qty \in 1 .. MaxQty /\ q[i].qty \in Nat
                          /\ fill[i] \in Nat /\ fill[i] <= q[i].qty
  BY QueueFacts, TypesAssumption DEF CanGive
<1>2. ASSUME NEW i \in keep PROVE rest[i] \in Order
  <2>1. PICK a \in 1 .. MaxQty, b \in Nat : a = q[i].qty /\ b = fill[i] /\ b < a
    BY <1>1
  <2>2. PICK x, y : x = rest[i].id /\ y = rest[i].qty
    OBVIOUS
  <2>3. x \in OrderId /\ y = a - b
    BY <1>1, <2>1, <2>2
  <2>4. y \in 1 .. MaxQty
    BY <2>1, <2>3, TypesAssumption
  <2>5. rest[i] = [id |-> x, qty |-> y]
    BY <2>2
  <2>6. QED
    BY <2>3, <2>4, <2>5 DEF Order
<1>3. keep \in SUBSET DOMAIN rest
  OBVIOUS
<1>4. Kept(rest, keep) \in Seq(Order)
  BY <1>2, <1>3, KeptFacts
<1>5. PICK m : Places(Kept(rest, keep), rest, keep, m)
  BY <1>3, KeptPlaces
<1>6. PICK r : r = Kept(rest, keep)
  OBVIOUS
<1>7. Places(r, rest, keep, m)
  BY <1>5, <1>6
<1>8. Survivors(r, q, fill, m)
  <2>1. \A k \in DOMAIN r : m[k] \in DOMAIN q
    BY <1>7 DEF Places
  <2>2. \A j, k \in DOMAIN r : j < k => m[j] < m[k]
    BY <1>7 DEF Places
  <2>3. \A k \in DOMAIN r : /\ r[k].id = q[m[k]].id
                            /\ r[k].qty = q[m[k]].qty - fill[m[k]]
                            /\ fill[m[k]] < q[m[k]].qty
    BY <1>7 DEF Places
  <2>4. \A i \in DOMAIN q : fill[i] < q[i].qty => \E k \in DOMAIN r : m[k] = i
    BY <1>7 DEF Places
  <2>5. QED
    BY <2>1, <2>2, <2>3, <2>4 DEF Survivors
<1>9. QED
  BY <1>4, <1>6, <1>8

\* What is left of a queue is what it had without what was taken.
LEMMA SurvivorsQty ==
  ASSUME NEW q \in Seq(Order), NEW fill, CanGive(fill, q), NEW r \in Seq(Order), NEW m,
         Survivors(r, q, fill, m)
  PROVE  /\ SumOf(fill, DOMAIN q) \in Nat
         /\ QueueQty(q) = QueueQty(r) + SumOf(fill, DOMAIN q)
<1>1. PICK D, E, w : D = DOMAIN q /\ E = DOMAIN r /\ w = Weights(q)
  OBVIOUS
<1>2. /\ IsFiniteSet(D) /\ IsFiniteSet(E) /\ w \in [D -> Nat] /\ fill \in [D -> Nat]
      /\ QueueQty(q) = SumOf(w, D)
      /\ \A i \in D : w[i] = q[i].qty /\ w[i] \in Nat /\ fill[i] \in Nat /\ fill[i] <= w[i]
  BY <1>1, WeightsFacts DEF CanGive
<1>3. /\ \A k \in E : m[k] \in D
      /\ \A j, k \in E : m[j] = m[k] => j = k
      /\ \A k \in E : r[k].qty = w[m[k]] - fill[m[k]]
      /\ \A i \in D : fill[i] < w[i] => \E k \in E : m[k] = i
  <2>1. E = 1 .. Len(r) /\ Len(r) \in Nat /\ D = 1 .. Len(q) /\ Len(q) \in Nat
    BY <1>1, WeightsFacts
  <2>2. \A k \in E : m[k] \in D
    BY <1>1 DEF Survivors
  <2>3. \A j, k \in E : m[j] = m[k] => j = k
    <3> SUFFICES ASSUME NEW j \in E, NEW k \in E, m[j] = m[k], j # k PROVE FALSE
      OBVIOUS
    <3>1. j < k \/ k < j
      BY <2>1
    <3>2. m[j] < m[k] \/ m[k] < m[j]
      BY <1>1, <3>1 DEF Survivors
    <3>3. m[j] \in Nat /\ m[k] \in Nat
      BY <2>1, <2>2
    <3>4. QED
      BY <3>2, <3>3
  <2>4. \A k \in E : r[k].qty = w[m[k]] - fill[m[k]]
    BY <1>1, <1>2, <2>2 DEF Survivors
  <2>5. \A i \in D : fill[i] < w[i] => \E k \in E : m[k] = i
    BY <1>1, <1>2 DEF Survivors
  <2>6. QED
    BY <2>2, <2>3, <2>4, <2>5
<1>4. PICK P \in SUBSET D : P = {i \in D : fill[i] < w[i]}
  OBVIOUS
<1>5. \A k \in E : r[k].qty \in Nat /\ r[k].qty > 0
  BY <1>1, WeightsFacts
<1>6. Onto(m, E, P)
  <2>1. \A k \in E : m[k] \in P
    <3> SUFFICES ASSUME NEW k \in E PROVE m[k] \in P
      OBVIOUS
    <3>1. PICK i \in D : i = m[k]
      BY <1>3
    <3>2. r[k].qty = w[i] - fill[i] /\ r[k].qty > 0 /\ w[i] \in Nat /\ fill[i] \in Nat
      BY <1>2, <1>3, <1>5, <3>1
    <3>3. fill[i] < w[i]
      BY <3>2
    <3>4. QED
      BY <1>4, <3>1, <3>3
  <2>2. QED
    BY <1>3, <1>4, <2>1 DEF Onto
<1>7. PICK v : v = Weights(r)
  OBVIOUS
<1>8. QueueQty(r) = SumOf(v, E) /\ \A k \in E : v[k] = w[m[k]] - fill[m[k]]
  BY <1>1, <1>3, <1>7, WeightsFacts
<1>9. \A i \in D : i \in P <=> fill[i] < w[i]
  BY <1>4
<1>10. SumOf(w, D) = SumOf(v, E) + SumOf(fill, D)
  <2>1. Taken(w, fill, D, P, v, E, m)
    BY <1>2, <1>6, <1>8, <1>9 DEF Taken
  <2>2. QED
    BY <2>1, SumLeft
<1>11. SumOf(fill, D) \in Nat
  BY <1>2, SumFacts
<1>12. QED
  BY <1>1, <1>2, <1>8, <1>10, <1>11

\* What an erasure takes from each order of a queue.
ErasedFill(q, id) == [i \in DOMAIN q |-> IF q[i].id = id THEN q[i].qty ELSE 0]

\* An erasure leaves each level with its survivors.
LEMMA ErasedLevel ==
  ASSUME NEW bk \in AnyBook, NEW id, NEW s \in Side, NEW p \in Price
  PROVE  /\ CanGive(ErasedFill(bk[s][p], id), bk[s][p])
         /\ Erased(bk, id)[s][p] \in Seq(Order)
         /\ \E m : Survivors(Erased(bk, id)[s][p], bk[s][p], ErasedFill(bk[s][p], id), m)
<1>1. PICK q \in Seq(Order) : q = bk[s][p]
  BY DEF AnyBook
<1>2. PICK fill : fill = ErasedFill(q, id)
  OBVIOUS
<1>3. \A i \in DOMAIN q : /\ q[i] = [id |-> q[i].id, qty |-> q[i].qty]
                          /\ q[i].qty \in Nat /\ q[i].qty > 0
  <2>1. \A i \in DOMAIN q : q[i] \in Order
    BY QueueFacts
  <2>2. QED
    BY <2>1, WeightsFacts DEF Order
<1>4. \A i \in DOMAIN q : fill[i] = IF q[i].id = id THEN q[i].qty ELSE 0
  BY <1>2 DEF ErasedFill
<1>5. CanGive(fill, q)
  <2>1. fill \in [DOMAIN q -> Nat]
    BY <1>2, <1>3 DEF ErasedFill
  <2>2. \A i \in DOMAIN q : fill[i] <= q[i].qty
    BY <1>3, <1>4
  <2>3. QED
    BY <2>1, <2>2 DEF CanGive
<1>6. PICK keep \in SUBSET DOMAIN q : keep = {i \in DOMAIN q : q[i].id # id}
  OBVIOUS
<1>7. Erased(bk, id)[s][p] = Kept(q, keep)
  BY <1>1, <1>6 DEF Erased
<1>8. /\ \A i \in DOMAIN q : i \in keep <=> fill[i] < q[i].qty
      /\ \A i \in keep : /\ q[i] = [id |-> q[i].id, qty |-> q[i].qty]
                         /\ q[i].id = q[i].id /\ q[i].qty = q[i].qty - fill[i]
  BY <1>3, <1>4, <1>6
<1>9. /\ Kept(q, keep) \in Seq(Order)
      /\ \E m : Survivors(Kept(q, keep), q, fill, m)
  BY <1>5, <1>8, KeptSurvives
<1>10. QED
  BY <1>1, <1>2, <1>5, <1>7, <1>9

\* What matching takes from each order of a level.
MatchFill(bk, side, limit, qty, p) ==
  [i \in DOMAIN bk[Opposite(side)][p] |-> FillOf(bk, side, limit, qty, p, i)]

\* Matching leaves each level of the other side with its survivors.
LEMMA MatchedLevel ==
  ASSUME NEW bk \in AnyBook, NEW side \in Side, NEW limit, NEW qty \in Nat, NEW p \in Price,
         NEW s, s = Opposite(side)
  PROVE  /\ CanGive(MatchFill(bk, side, limit, qty, p), bk[s][p])
         /\ MatchedBook(bk, side, limit, qty)[s][p] \in Seq(Order)
         /\ \E m : Survivors(MatchedBook(bk, side, limit, qty)[s][p], bk[s][p],
                             MatchFill(bk, side, limit, qty, p), m)
<1>1. s \in Side /\ s # side
  BY SideFacts
<1>2. PICK q \in Seq(Order) : q = bk[s][p]
  BY <1>1 DEF AnyBook
<1>3. PICK fill : fill = MatchFill(bk, side, limit, qty, p)
  OBVIOUS
<1>4. \A i \in DOMAIN q : /\ q[i] = [id |-> q[i].id, qty |-> q[i].qty]
                          /\ q[i].id \in OrderId /\ q[i].qty \in Nat /\ q[i].qty > 0
  <2>1. \A i \in DOMAIN q : q[i] \in Order
    BY QueueFacts
  <2>2. QED
    BY <2>1, WeightsFacts DEF Order
<1>5. /\ DOMAIN fill = DOMAIN q /\ fill = [i \in DOMAIN q |-> fill[i]]
      /\ \A i \in DOMAIN q : fill[i] = FillOf(bk, side, limit, qty, p, i)
  BY <1>2, <1>3 DEF MatchFill
<1>6. \A i \in DOMAIN q : fill[i] \in Nat /\ fill[i] <= q[i].qty
  <2> SUFFICES ASSUME NEW i \in DOMAIN q PROVE fill[i] \in Nat /\ fill[i] <= q[i].qty
    OBVIOUS
  <2>1. i \in DOMAIN bk[s][p]
    BY <1>2
  <2>2. /\ FillOf(bk, side, limit, qty, p, i) \in Nat
        /\ FillOf(bk, side, limit, qty, p, i) <= bk[s][p][i].qty
    BY <2>1, FillFacts
  <2>3. QED
    BY <1>2, <1>5, <2>2
<1>7. CanGive(fill, q)
  <2>1. fill \in [DOMAIN q -> Nat]
    BY <1>5, <1>6
  <2>2. QED
    BY <1>6, <2>1 DEF CanGive
<1> DEFINE rest == [i \in DOMAIN bk[s][p] |->
                      [bk[s][p][i] EXCEPT !.qty = @ - FillOf(bk, side, limit, qty, p, i)]]
<1>8. /\ DOMAIN rest = DOMAIN q
      /\ \A i \in DOMAIN q : rest[i] = [id |-> q[i].id, qty |-> q[i].qty - fill[i]]
  <2> SUFFICES ASSUME NEW i \in DOMAIN q
               PROVE  rest[i] = [id |-> q[i].id, qty |-> q[i].qty - fill[i]]
    BY <1>2
  <2>1. PICK x, y, z : q[i] = [id |-> x, qty |-> y] /\ z = fill[i]
    BY <1>4
  <2>2. rest[i] = [q[i] EXCEPT !.qty = @ - z]
    BY <1>2, <1>5, <2>1
  <2>3. rest[i] = [id |-> x, qty |-> y - z]
    BY <2>1, <2>2
  <2>4. QED
    BY <2>1, <2>3
<1>9. MatchedBook(bk, side, limit, qty)[s][p] = Kept(rest, {i \in DOMAIN rest : rest[i].qty > 0})
  <2>1. bk = [x \in Side |-> bk[x]]
    BY DEF AnyBook
  <2>2. QED
    BY <1>1, <2>1 DEF MatchedBook
<1> HIDE DEF rest
<1>10. rest \in Seq([id : OrderId, qty : Nat])
  <2>1. \A i \in DOMAIN q : rest[i] \in [id : OrderId, qty : Nat]
    <3> SUFFICES ASSUME NEW i \in DOMAIN q PROVE rest[i] \in [id : OrderId, qty : Nat]
      OBVIOUS
    <3>1. q[i].id \in OrderId /\ q[i].qty - fill[i] \in Nat
      BY <1>4, <1>6
    <3>2. QED
      BY <1>8, <3>1
  <2>2. DOMAIN q = 1 .. Len(q) /\ Len(q) \in Nat
    BY QueueFacts
  <2>3. rest = [i \in DOMAIN q |-> rest[i]]
    BY <1>8 DEF rest
  <2>4. PICK n \in Nat : DOMAIN q = 1 .. n
    BY <2>2
  <2>5. PICK R : R = [id : OrderId, qty : Nat]
    OBVIOUS
  <2>6. rest \in [1 .. n -> R]
    BY <2>1, <2>3, <2>4, <2>5
  <2>7. rest \in Seq(R)
    BY <2>6
  <2>8. QED
    BY <2>5, <2>7
<1>11. PICK keep \in SUBSET DOMAIN q : keep = {i \in DOMAIN rest : rest[i].qty > 0}
  BY <1>8
<1>12. \A i \in DOMAIN q : i \in keep <=> fill[i] < q[i].qty
  <2> SUFFICES ASSUME NEW i \in DOMAIN q PROVE i \in keep <=> fill[i] < q[i].qty
    OBVIOUS
  <2>1. rest[i].qty = q[i].qty - fill[i] /\ q[i].qty \in Nat /\ fill[i] \in Nat
    BY <1>4, <1>6, <1>8
  <2>2. rest[i].qty > 0 <=> fill[i] < q[i].qty
    BY <2>1
  <2>3. QED
    BY <1>8, <1>11, <2>2
<1>13. \A i \in keep : /\ rest[i] = [id |-> rest[i].id, qty |-> rest[i].qty]
                       /\ rest[i].id = q[i].id /\ rest[i].qty = q[i].qty - fill[i]
  BY <1>8
<1>14. keep \in SUBSET DOMAIN rest
  BY <1>8
<1>15. /\ Kept(rest, keep) \in Seq(Order)
       /\ \E m : Survivors(Kept(rest, keep), q, fill, m)
  BY <1>7, <1>10, <1>12, <1>13, <1>14, KeptSurvives
<1>16. QED
  BY <1>2, <1>3, <1>7, <1>9, <1>11, <1>15

\* Keeping every place of a sequence keeps the sequence.
LEMMA KeptAll ==
  ASSUME NEW S, NEW q \in Seq(S)
  PROVE  Kept(q, DOMAIN q) = q
<1>1. PICK n \in Nat : n = Len(q) /\ DOMAIN q = 1 .. n /\ q = [k \in 1 .. n |-> q[k]]
  OBVIOUS
<1>2. Cardinality(1 .. n) = n
  BY FS_Interval
<1>3. ASSUME NEW i \in 1 .. n PROVE Cardinality({j \in 1 .. n : j < i}) = i - 1
  <2>1. {j \in 1 .. n : j < i} = 1 .. i - 1
    OBVIOUS
  <2>2. Cardinality(1 .. i - 1) = i - 1
    <3>1. PICK x \in Nat : x = i - 1
      OBVIOUS
    <3>2. Cardinality(1 .. x) = x
      BY FS_Interval
    <3>3. QED
      BY <3>1, <3>2
  <2>3. QED
    BY <2>1, <2>2
<1>4. ASSUME NEW k \in 1 .. n
      PROVE  (CHOOSE i \in 1 .. n : Cardinality({j \in 1 .. n : j < i}) = k - 1) = k
  <2>1. \A i \in 1 .. n : Cardinality({j \in 1 .. n : j < i}) = k - 1 <=> i = k
    <3> SUFFICES ASSUME NEW i \in 1 .. n
                 PROVE  Cardinality({j \in 1 .. n : j < i}) = k - 1 <=> i = k
      OBVIOUS
    <3>1. Cardinality({j \in 1 .. n : j < i}) = i - 1
      BY <1>3
    <3>2. i - 1 = k - 1 <=> i = k
      OBVIOUS
    <3>3. QED
      BY <3>1, <3>2
  <2> DEFINE R(i) == Cardinality({j \in 1 .. n : j < i}) = k - 1
  <2>2. \A i \in 1 .. n : R(i) <=> i = k
    BY <2>1
  <2> HIDE DEF R
  <2>3. (CHOOSE i \in 1 .. n : R(i)) = k
    BY <2>2
  <2>4. QED
    BY <2>3 DEF R
<1> DEFINE at(k) == CHOOSE i \in 1 .. n : Cardinality({j \in 1 .. n : j < i}) = k - 1
<1>5. Kept(q, 1 .. n) = [k \in 1 .. n |-> q[at(k)]]
  BY <1>2, Zenon DEF Kept
<1>6. \A k \in 1 .. n : at(k) = k
  BY <1>4
<1> HIDE DEF at
<1>7. [k \in 1 .. n |-> q[at(k)]] = [k \in 1 .. n |-> q[k]]
  BY <1>6
<1>8. QED
  BY <1>1, <1>5, <1>7

\* An id rests in a book when some place holds it.
LEMMA HasFacts ==
  ASSUME NEW bk, NEW id
  PROVE  Has(bk, id) <=> \E s \in Side, p \in Price : \E i \in DOMAIN bk[s][p] : bk[s][p][i].id = id
BY DEF Has, IdsAt

\* Erasing an order that does not rest changes nothing.
LEMMA ErasedAbsent ==
  ASSUME NEW bk \in AnyBook, NEW id, ~Has(bk, id)
  PROVE  Erased(bk, id) = bk
<1>1. ASSUME NEW s \in Side, NEW p \in Price
      PROVE  Kept(bk[s][p], {i \in DOMAIN bk[s][p] : bk[s][p][i].id # id}) = bk[s][p]
  <2>1. PICK q \in Seq(Order) : q = bk[s][p]
    BY DEF AnyBook
  <2>2. {i \in DOMAIN q : q[i].id # id} = DOMAIN q
    BY <2>1, HasFacts
  <2>3. Kept(q, DOMAIN q) = q
    BY KeptAll
  <2>4. QED
    BY <2>1, <2>2, <2>3
<1>2. Erased(bk, id) = [s \in Side |-> [p \in Price |-> bk[s][p]]]
  BY <1>1 DEF Erased
<1>3. bk = [s \in Side |-> [p \in Price |-> bk[s][p]]]
  BY DEF AnyBook
<1>4. QED
  BY <1>2, <1>3

\* Orders of queue r come from queue q, in the same order.
SameOrder(r, q) ==
  \A j, k \in DOMAIN r : j <= k =>
    \E a, b \in DOMAIN q : a <= b /\ q[a].id = r[j].id /\ q[b].id = r[k].id

\* Every level of the first book is what is left of that level of the second.
Survives(left, bk) ==
  \A s \in Side, p \in Price : \E fill, m : Survivors(left[s][p], bk[s][p], fill, m)

\* What is left of a sound book is sound: no id twice, not crossed, in the same order.
LEMMA SurvivesFacts ==
  ASSUME NEW bk \in AnyBook, NEW left \in AnyBook, Survives(left, bk)
  PROVE  /\ OnePlaceEach(bk) => OnePlaceEach(left)
         /\ UncrossedBook(bk) => UncrossedBook(left)
         /\ \A id : Has(left, id) => Has(bk, id)
         /\ \A s \in Side, p \in Price : SameOrder(left[s][p], bk[s][p])
<1>1. ASSUME NEW s \in Side, NEW p \in Price
      PROVE  \E m : /\ \A k \in DOMAIN left[s][p] : /\ m[k] \in DOMAIN bk[s][p]
                                                    /\ left[s][p][k].id = bk[s][p][m[k]].id
                    /\ \A j, k \in DOMAIN left[s][p] : j <= k => m[j] <= m[k]
                    /\ \A j, k \in DOMAIN left[s][p] : m[j] = m[k] => j = k
  <2>1. PICK q \in Seq(Order), r \in Seq(Order) : q = bk[s][p] /\ r = left[s][p]
    BY DEF AnyBook
  <2>2. PICK fill, m : Survivors(r, q, fill, m)
    BY <2>1 DEF Survives
  <2>3. \A k \in DOMAIN r : m[k] \in DOMAIN q /\ r[k].id = q[m[k]].id /\ k \in Nat /\ m[k] \in Nat
    <3>1. DOMAIN q = 1 .. Len(q) /\ DOMAIN r = 1 .. Len(r) /\ Len(q) \in Nat /\ Len(r) \in Nat
      BY WeightsFacts
    <3>2. QED
      BY <2>2, <3>1 DEF Survivors
  <2>4. \A j, k \in DOMAIN r : j < k => m[j] < m[k]
    BY <2>2 DEF Survivors
  <2>5. ASSUME NEW j \in DOMAIN r, NEW k \in DOMAIN r
        PROVE  (j <= k => m[j] <= m[k]) /\ (m[j] = m[k] => j = k)
    <3>1. PICK a \in Nat, b \in Nat, c \in Nat, d \in Nat :
            a = j /\ b = k /\ c = m[j] /\ d = m[k]
      BY <2>3
    <3>2. (a < b => c < d) /\ (b < a => d < c) /\ (a = b => c = d)
      BY <2>4, <3>1
    <3>3. (a <= b => c <= d) /\ (c = d => a = b)
      BY <3>2
    <3>4. QED
      BY <3>1, <3>3
  <2>6. QED
    BY <2>1, <2>3, <2>5
<1>2. ASSUME NEW s \in Side, NEW p \in Price, NEW k \in DOMAIN left[s][p]
      PROVE  \E i \in DOMAIN bk[s][p] : left[s][p][k].id = bk[s][p][i].id
  BY <1>1
<1>3. ASSUME OnePlaceEach(bk) PROVE OnePlaceEach(left)
  <2> SUFFICES ASSUME NEW s \in Side, NEW t \in Side, NEW p \in Price, NEW r \in Price,
                      NEW i \in DOMAIN left[s][p], NEW j \in DOMAIN left[t][r],
                      left[s][p][i].id = left[t][r][j].id
               PROVE  s = t /\ p = r /\ i = j
    BY DEF OnePlaceEach
  <2>1. s = t /\ p = r
    <3>1. PICK a \in DOMAIN bk[s][p] : left[s][p][i].id = bk[s][p][a].id
      BY <1>2
    <3>2. PICK b \in DOMAIN bk[t][r] : left[t][r][j].id = bk[t][r][b].id
      BY <1>2
    <3>3. bk[s][p][a].id = bk[t][r][b].id
      BY <3>1, <3>2
    <3>4. QED
      BY <1>3, <3>3 DEF OnePlaceEach
  <2>2. PICK m : /\ \A k \in DOMAIN left[s][p] : /\ m[k] \in DOMAIN bk[s][p]
                                                 /\ left[s][p][k].id = bk[s][p][m[k]].id
                 /\ \A k, l \in DOMAIN left[s][p] : m[k] = m[l] => k = l
    BY <1>1
  <2>3. j \in DOMAIN left[s][p] /\ left[s][p][i].id = left[s][p][j].id
    BY <2>1
  <2>4. m[i] = m[j]
    BY <1>3, <2>2, <2>3 DEF OnePlaceEach
  <2>5. QED
    BY <2>1, <2>2, <2>3, <2>4
<1>4. ASSUME UncrossedBook(bk) PROVE UncrossedBook(left)
  <2>1. ASSUME NEW s \in Side, NEW p \in Price, left[s][p] # <<>> PROVE bk[s][p] # <<>>
    <3>1. PICK q \in Seq(Order), r \in Seq(Order) : q = bk[s][p] /\ r = left[s][p]
      BY DEF AnyBook
    <3>2. 1 \in DOMAIN r
      BY <2>1, <3>1
    <3>3. PICK i : i \in DOMAIN q
      BY <1>2, <3>1, <3>2
    <3>4. q # <<>>
      BY <3>3
    <3>5. QED
      BY <3>1, <3>4
  <2>2. QED
    BY <1>4, <2>1 DEF UncrossedBook, Side
<1>5. ASSUME NEW id, Has(left, id) PROVE Has(bk, id)
  <2>1. PICK s \in Side, p \in Price : \E i \in DOMAIN left[s][p] : left[s][p][i].id = id
    BY <1>5, HasFacts
  <2>2. \E i \in DOMAIN bk[s][p] : bk[s][p][i].id = id
    BY <1>2, <2>1
  <2>3. QED
    BY <2>2, HasFacts
<1>6. ASSUME NEW s \in Side, NEW p \in Price PROVE SameOrder(left[s][p], bk[s][p])
  <2>1. PICK m : /\ \A k \in DOMAIN left[s][p] : /\ m[k] \in DOMAIN bk[s][p]
                                                 /\ left[s][p][k].id = bk[s][p][m[k]].id
                 /\ \A j, k \in DOMAIN left[s][p] : j <= k => m[j] <= m[k]
    BY <1>1
  <2>2. QED
    BY <2>1 DEF SameOrder
<1>7. QED
  BY <1>3, <1>4, <1>5, <1>6

\* The orders of an erased book are the others, as they were and in their order.
OthersOf(r, q, id, m) ==
  /\ \A k \in DOMAIN r : m[k] \in DOMAIN q /\ r[k].id = q[m[k]].id /\ r[k].qty = q[m[k]].qty
                         /\ r[k].id # id
  /\ \A j, k \in DOMAIN r : j < k => m[j] < m[k]
  /\ \A i \in DOMAIN q : q[i].id # id => \E k \in DOMAIN r : m[k] = i

\* Erasing one id leaves each level with the others.
LEMMA ErasedPlaces ==
  ASSUME NEW bk \in AnyBook, NEW id, NEW s \in Side, NEW p \in Price
  PROVE  \E m : OthersOf(Erased(bk, id)[s][p], bk[s][p], id, m)
<1>1. PICK q \in Seq(Order), r \in Seq(Order) : q = bk[s][p] /\ r = Erased(bk, id)[s][p]
  BY ErasedLevel DEF AnyBook
<1>2. PICK fill : fill = ErasedFill(q, id)
  OBVIOUS
<1>3. PICK m : Survivors(r, q, fill, m)
  BY <1>1, <1>2, ErasedLevel
<1>4. \A i \in DOMAIN q : fill[i] = (IF q[i].id = id THEN q[i].qty ELSE 0)
                          /\ q[i].qty \in Nat /\ q[i].qty > 0
  BY <1>2, WeightsFacts DEF ErasedFill
<1>5. ASSUME NEW k \in DOMAIN r
      PROVE  m[k] \in DOMAIN q /\ r[k].id = q[m[k]].id /\ r[k].qty = q[m[k]].qty /\ r[k].id # id
  <2>1. PICK i \in DOMAIN q : i = m[k]
    BY <1>3 DEF Survivors
  <2>2. r[k].id = q[i].id /\ r[k].qty = q[i].qty - fill[i] /\ fill[i] < q[i].qty
    BY <1>3, <2>1 DEF Survivors
  <2>3. q[i].id # id
    BY <1>4, <2>2
  <2>4. fill[i] = 0
    BY <1>4, <2>3
  <2>5. r[k].qty = q[i].qty
    BY <1>4, <2>2, <2>4
  <2>6. QED
    BY <2>1, <2>2, <2>3, <2>5
<1>6. ASSUME NEW i \in DOMAIN q, q[i].id # id PROVE \E k \in DOMAIN r : m[k] = i
  <2>1. fill[i] < q[i].qty
    BY <1>4, <1>6
  <2>2. QED
    BY <1>3, <2>1 DEF Survivors
<1>7. \A j, k \in DOMAIN r : j < k => m[j] < m[k]
  BY <1>3 DEF Survivors
<1>8. OthersOf(r, q, id, m)
  BY <1>5, <1>6, <1>7 DEF OthersOf
<1>9. QED
  BY <1>1, <1>8

\* Erasing takes every trace of the order out of the book and nothing else.
LEMMA ErasedBook ==
  ASSUME NEW bk \in AnyBook, NEW id
  PROVE  /\ Erased(bk, id) \in AnyBook
         /\ Survives(Erased(bk, id), bk)
         /\ ~Has(Erased(bk, id), id)
         /\ Erased(Erased(bk, id), id) = Erased(bk, id)
         /\ \A x : x # id => (Has(Erased(bk, id), x) <=> Has(bk, x))
<1>1. PICK eb : eb = Erased(bk, id)
  OBVIOUS
<1>2. eb \in AnyBook
  <2>1. eb = [s \in Side |-> [p \in Price |-> eb[s][p]]]
    BY <1>1 DEF Erased
  <2>2. \A s \in Side, p \in Price : eb[s][p] \in Seq(Order)
    BY <1>1, ErasedLevel
  <2>3. [s \in Side |-> [p \in Price |-> eb[s][p]]] \in AnyBook
    BY <2>2 DEF AnyBook
  <2>4. QED
    BY <2>1, <2>3
<1>3. Survives(eb, bk)
  BY <1>1, ErasedLevel DEF Survives
<1>4. ASSUME NEW s \in Side, NEW p \in Price
      PROVE  \A x : (\E k \in DOMAIN eb[s][p] : eb[s][p][k].id = x)
                    <=> (\E i \in DOMAIN bk[s][p] : bk[s][p][i].id = x) /\ x # id
  <2>1. PICK m : OthersOf(eb[s][p], bk[s][p], id, m)
    BY <1>1, ErasedPlaces
  <2>2. QED
    BY <2>1 DEF OthersOf
<1>5. ~Has(eb, id)
  BY <1>4, HasFacts
<1>6. ASSUME NEW x, x # id PROVE Has(eb, x) <=> Has(bk, x)
  <2>1. ASSUME Has(eb, x) PROVE Has(bk, x)
    BY <1>2, <1>3, <2>1, SurvivesFacts
  <2>2. ASSUME Has(bk, x) PROVE Has(eb, x)
    <3>1. PICK s \in Side, p \in Price : \E i \in DOMAIN bk[s][p] : bk[s][p][i].id = x
      BY <2>2, HasFacts
    <3>2. \E k \in DOMAIN eb[s][p] : eb[s][p][k].id = x
      BY <1>4, <1>6, <3>1
    <3>3. QED
      BY <3>2, HasFacts
  <2>3. QED
    BY <2>1, <2>2
<1>7. Erased(eb, id) = eb
  BY <1>2, <1>5, ErasedAbsent
<1>8. QED
  BY <1>1, <1>2, <1>3, <1>5, <1>6, <1>7

\* Matching leaves the own side alone and takes from the other.
LEMMA MatchedFacts ==
  ASSUME NEW bk \in AnyBook, NEW side \in Side, NEW limit, NEW qty \in Nat
  PROVE  /\ MatchedBook(bk, side, limit, qty) \in AnyBook
         /\ MatchedBook(bk, side, limit, qty)[side] = bk[side]
         /\ Survives(MatchedBook(bk, side, limit, qty), bk)
<1>1. PICK s \in Side : s = Opposite(side) /\ s # side
  BY SideFacts
<1>2. PICK mb : mb = MatchedBook(bk, side, limit, qty)
  OBVIOUS
<1>3. /\ DOMAIN mb = Side /\ mb[side] = bk[side]
      /\ mb[s] = [p \in Price |-> mb[s][p]] /\ mb = [x \in Side |-> mb[x]]
  <2>1. bk = [x \in Side |-> bk[x]]
    BY DEF AnyBook
  <2>2. QED
    BY <1>1, <1>2, <2>1 DEF MatchedBook
<1>4. \A x \in Side : x = side \/ x = s
  BY <1>1 DEF Side, Opposite
<1>5. mb \in AnyBook
  <2>1. mb[s] \in [Price -> Seq(Order)]
    <3>1. \A p \in Price : mb[s][p] \in Seq(Order)
      BY <1>1, <1>2, MatchedLevel
    <3>2. [p \in Price |-> mb[s][p]] \in [Price -> Seq(Order)]
      BY <3>1
    <3>3. QED
      BY <1>3, <3>2
  <2>2. bk[side] \in [Price -> Seq(Order)]
    BY DEF AnyBook
  <2>3. \A x \in Side : mb[x] \in [Price -> Seq(Order)]
    BY <1>3, <1>4, <2>1, <2>2
  <2>4. [x \in Side |-> mb[x]] \in AnyBook
    BY <2>3 DEF AnyBook
  <2>5. QED
    BY <1>3, <2>4
<1>6. ASSUME NEW x \in Side, NEW p \in Price
      PROVE  \E fill, m : Survivors(mb[x][p], bk[x][p], fill, m)
  <2>1. CASE x = s
    BY <1>1, <1>2, <2>1, MatchedLevel
  <2>2. CASE x = side
    <3>1. PICK q \in Seq(Order) : q = bk[x][p]
      BY DEF AnyBook
    <3>2. \A i \in DOMAIN q : q[i].qty \in Nat /\ q[i].qty > 0
      BY WeightsFacts
    <3>3. Survivors(q, q, [i \in DOMAIN q |-> 0], [i \in DOMAIN q |-> i])
      BY <3>2 DEF Survivors
    <3>4. mb[x][p] = q
      BY <1>3, <2>2, <3>1
    <3>5. QED
      BY <3>1, <3>3, <3>4
  <2>3. QED
    BY <1>4, <2>1, <2>2
<1>7. QED
  BY <1>2, <1>3, <1>5, <1>6 DEF Survives

\* Where the price axis is cut by a limit: a level better than a crossing one crosses.
LEMMA CrossingBeyond ==
  ASSUME NEW side \in Side, NEW limit \in Price, NEW p \in Price, Crosses(side, limit, p)
  PROVE  Beyond(Opposite(side), p) \subseteq {x \in Price : Crosses(side, limit, x)}
<1> SUFFICES ASSUME NEW x \in Price, Better(Opposite(side), x, p)
             PROVE  Crosses(side, limit, x)
  BY DEF Beyond
<1>1. x \in Int /\ p \in Int /\ limit \in Int
  BY PriceFacts
<1>2. QED
  BY <1>1 DEF Crosses, Better, Opposite, Side

\* An incoming order trades no more than it asks for.
LEMMA FilledFacts ==
  ASSUME NEW bk \in AnyBook, NEW side \in Side, NEW limit, NEW qty \in Nat
  PROVE  /\ Filled(bk, side, limit, qty) \in Nat
         /\ Filled(bk, side, limit, qty) <= qty
         /\ Filled(bk, side, limit, qty) # qty =>
              Liquidity(bk, Opposite(side), {p \in Price : Crosses(side, limit, p)}) < qty
<1>1. PICK s \in Side : s = Opposite(side)
  BY SideFacts
<1>2. PICK P \in SUBSET Price : P = {p \in Price : Crosses(side, limit, p)}
  OBVIOUS
<1>3. PICK a \in Nat : a = Liquidity(bk, s, P)
  BY LiquidityFacts
<1>4. Filled(bk, side, limit, qty) = MinOf(qty, a)
  BY <1>1, <1>2, <1>3 DEF Filled
<1>5. /\ MinOf(qty, a) \in Nat /\ MinOf(qty, a) <= qty
      /\ MinOf(qty, a) # qty => a < qty
  BY DEF MinOf
<1>6. QED
  BY <1>1, <1>2, <1>3, <1>4, <1>5

\* An order that is not filled leaves nothing it could trade with.
LEMMA CrossingSwept ==
  ASSUME NEW bk \in AnyBook, NEW side \in Side, NEW limit \in Price, NEW qty \in Nat,
         Filled(bk, side, limit, qty) # qty,
         NEW p \in Price, Crosses(side, limit, p)
  PROVE  MatchedBook(bk, side, limit, qty)[Opposite(side)][p] = <<>>
<1>1. PICK s \in Side : s = Opposite(side)
  BY SideFacts
<1>2. PICK q \in Seq(Order), r \in Seq(Order) :
        q = bk[s][p] /\ r = MatchedBook(bk, side, limit, qty)[s][p]
  BY <1>1, MatchedLevel DEF AnyBook
<1>3. PICK P \in SUBSET Price : P = {x \in Price : Crosses(side, limit, x)}
  OBVIOUS
<1>4. PICK a \in Nat : a = Liquidity(bk, s, P) /\ a < qty
  <2>1. Liquidity(bk, Opposite(side), {x \in Price : Crosses(side, limit, x)}) < qty
    BY FilledFacts
  <2>2. Liquidity(bk, s, P) \in Nat
    BY LiquidityFacts
  <2>3. QED
    BY <1>1, <1>3, <2>1, <2>2
<1>5. ASSUME NEW i \in DOMAIN q PROVE FillOf(bk, side, limit, qty, p, i) = q[i].qty
  <2>1. Ahead(bk, s, p, i) + bk[s][p][i].qty <= Liquidity(bk, s, P)
    <3>1. p \in P /\ Beyond(s, p) \subseteq P
      BY <1>1, <1>3, CrossingBeyond
    <3>2. i \in DOMAIN bk[s][p]
      BY <1>2
    <3>3. QED
      BY <3>1, <3>2, AheadFacts
  <2>2. PICK b \in Nat, c \in Nat : b = Ahead(bk, s, p, i) /\ c = bk[s][p][i].qty
    BY <1>2, AheadFacts
  <2>3. qty >= b + c
    BY SMTT(30), <1>4, <2>1, <2>2
  <2>4. i \in DOMAIN bk[s][p]
    BY <1>2
  <2>5. FillOf(bk, side, limit, qty, p, i) = bk[s][p][i].qty
    BY <1>1, <2>2, <2>3, <2>4, FillFacts
  <2>6. QED
    BY <1>2, <2>5
<1>6. PICK fill : fill = MatchFill(bk, side, limit, qty, p)
  OBVIOUS
<1>7. PICK m : Survivors(r, q, fill, m)
  BY <1>1, <1>2, <1>6, MatchedLevel
<1>8. \A i \in DOMAIN q : fill[i] = q[i].qty /\ q[i].qty \in Nat
  <2>1. \A i \in DOMAIN q : fill[i] = FillOf(bk, side, limit, qty, p, i)
    BY <1>1, <1>2, <1>6 DEF MatchFill
  <2>2. QED
    BY <1>5, <2>1, WeightsFacts
<1>9. ASSUME r # <<>> PROVE FALSE
  <2>1. 1 \in DOMAIN r
    BY <1>9
  <2>2. m[1] \in DOMAIN q /\ fill[m[1]] < q[m[1]].qty
    BY <1>7, <2>1 DEF Survivors
  <2>3. QED
    BY <1>8, <2>2
<1>10. QED
  BY <1>1, <1>2, <1>9

\* The book with an order rested at the back of a level.
Rested(bk, side, limit, o) == [bk EXCEPT ![side][limit] = Append(@, o)]

\* Resting an order appends it to its level and touches no other.
LEMMA RestedFacts ==
  ASSUME NEW bk \in AnyBook, NEW side \in Side, NEW limit \in Price, NEW o \in Order
  PROVE  /\ Rested(bk, side, limit, o) \in AnyBook
         /\ \A s \in Side, p \in Price :
              Rested(bk, side, limit, o)[s][p] =
                IF s = side /\ p = limit THEN Append(bk[s][p], o) ELSE bk[s][p]
<1>1. bk = [s \in Side |-> [p \in Price |-> bk[s][p]]]
      /\ \A s \in Side, p \in Price : bk[s][p] \in Seq(Order)
  BY DEF AnyBook
<1>2. PICK rb : rb = Rested(bk, side, limit, o)
  OBVIOUS
<1>3. /\ rb = [s \in Side |-> [p \in Price |-> rb[s][p]]]
      /\ \A s \in Side, p \in Price :
           rb[s][p] = IF s = side /\ p = limit THEN Append(bk[s][p], o) ELSE bk[s][p]
  BY <1>1, <1>2 DEF Rested
<1>4. \A s \in Side, p \in Price : rb[s][p] \in Seq(Order)
  <2> SUFFICES ASSUME NEW s \in Side, NEW p \in Price PROVE rb[s][p] \in Seq(Order)
    OBVIOUS
  <2>1. PICK q \in Seq(Order) : q = bk[s][p]
    BY <1>1
  <2>2. Append(q, o) \in Seq(Order)
    BY AppendProperties
  <2>3. rb[s][p] = IF s = side /\ p = limit THEN Append(q, o) ELSE q
    BY <1>3, <2>1
  <2>4. QED
    BY <2>2, <2>3
<1>5. rb \in AnyBook
  <2>1. [s \in Side |-> [p \in Price |-> rb[s][p]]] \in AnyBook
    BY <1>4 DEF AnyBook
  <2>2. QED
    BY <1>3, <2>1
<1>6. QED
  BY <1>2, <1>3, <1>5

\* Resting an order that was nowhere in the book.
LEMMA RestedPlaces ==
  ASSUME NEW bk \in AnyBook, NEW side \in Side, NEW limit \in Price, NEW o \in Order, ~Has(bk, o.id)
  PROVE  /\ OnePlaceEach(bk) => OnePlaceEach(Rested(bk, side, limit, o))
         /\ \A x : Has(Rested(bk, side, limit, o), x) <=> Has(bk, x) \/ x = o.id
<1>1. PICK rb : rb = Rested(bk, side, limit, o)
  OBVIOUS
<1>2. PICK q \in Seq(Order) : q = bk[side][limit]
  BY DEF AnyBook
<1>3. PICK n \in Nat : n = Len(q) /\ DOMAIN q = 1 .. n
  BY WeightsFacts
<1>4. \A s \in Side, p \in Price :
        rb[s][p] = IF s = side /\ p = limit THEN Append(q, o) ELSE bk[s][p]
  BY <1>1, <1>2, RestedFacts
<1>5. PICK u : u = Append(q, o)
  OBVIOUS
<1>6. DOMAIN u = 1 .. n + 1 /\ u[n + 1] = o /\ \A i \in DOMAIN q : u[i] = q[i]
  BY <1>3, <1>5
\* A place of the new book is the new order's or a place of the old book.
<1>7. ASSUME NEW s \in Side, NEW p \in Price, NEW i \in DOMAIN rb[s][p]
      PROVE  \/ s = side /\ p = limit /\ i = n + 1 /\ rb[s][p][i].id = o.id
             \/ i \in DOMAIN bk[s][p] /\ rb[s][p][i].id = bk[s][p][i].id
  <2>1. CASE s = side /\ p = limit
    <3>1. rb[s][p] = u
      BY <1>4, <1>5, <2>1
    <3>2. i = n + 1 \/ i \in DOMAIN q
      BY <1>3, <1>6, <3>1
    <3>3. i = n + 1 => rb[s][p][i].id = o.id
      BY <1>6, <3>1
    <3>4. i \in DOMAIN q => i \in DOMAIN bk[s][p] /\ rb[s][p][i].id = bk[s][p][i].id
      BY <1>2, <1>6, <2>1, <3>1
    <3>5. QED
      BY <2>1, <3>2, <3>3, <3>4
  <2>2. CASE ~(s = side /\ p = limit)
    <3>1. rb[s][p] = bk[s][p]
      BY <1>4, <2>2
    <3>2. QED
      BY <3>1
  <2>3. QED
    BY <2>1, <2>2
<1>8. ASSUME NEW s \in Side, NEW p \in Price, NEW i \in DOMAIN bk[s][p]
      PROVE  i \in DOMAIN rb[s][p] /\ rb[s][p][i].id = bk[s][p][i].id
  <2>1. CASE s = side /\ p = limit
    <3>1. rb[s][p] = u /\ bk[s][p] = q
      BY <1>2, <1>4, <1>5, <2>1
    <3>2. i \in DOMAIN q /\ i \in 1 .. n + 1
      BY <1>3, <3>1
    <3>3. QED
      BY <1>6, <3>1, <3>2
  <2>2. CASE ~(s = side /\ p = limit)
    BY <1>4, <2>2
  <2>3. QED
    BY <2>1, <2>2
<1>9. \A s \in Side, p \in Price : \A i \in DOMAIN bk[s][p] : bk[s][p][i].id # o.id
  BY HasFacts
<1>10. ASSUME OnePlaceEach(bk) PROVE OnePlaceEach(rb)
  <2> SUFFICES ASSUME NEW s \in Side, NEW t \in Side, NEW p \in Price, NEW r \in Price,
                      NEW i \in DOMAIN rb[s][p], NEW j \in DOMAIN rb[t][r],
                      rb[s][p][i].id = rb[t][r][j].id
               PROVE  s = t /\ p = r /\ i = j
    BY DEF OnePlaceEach
  <2>1. \/ s = side /\ p = limit /\ i = n + 1 /\ rb[s][p][i].id = o.id
        \/ i \in DOMAIN bk[s][p] /\ rb[s][p][i].id = bk[s][p][i].id
    BY <1>7
  <2>2. \/ t = side /\ r = limit /\ j = n + 1 /\ rb[t][r][j].id = o.id
        \/ j \in DOMAIN bk[t][r] /\ rb[t][r][j].id = bk[t][r][j].id
    BY <1>7
  <2>3. CASE i \in DOMAIN bk[s][p] /\ j \in DOMAIN bk[t][r] /\ bk[s][p][i].id = bk[t][r][j].id
    BY <1>10, <2>3 DEF OnePlaceEach
  <2>4. QED
    BY <1>9, <2>1, <2>2, <2>3
<1>11. ASSUME NEW x PROVE Has(rb, x) <=> Has(bk, x) \/ x = o.id
  <2>1. ASSUME Has(rb, x) PROVE Has(bk, x) \/ x = o.id
    <3>1. PICK s \in Side, p \in Price : \E i \in DOMAIN rb[s][p] : rb[s][p][i].id = x
      BY <2>1, HasFacts
    <3>2. PICK i \in DOMAIN rb[s][p] : rb[s][p][i].id = x
      BY <3>1
    <3>3. x = o.id \/ \E j \in DOMAIN bk[s][p] : bk[s][p][j].id = x
      BY <1>7, <3>2
    <3>4. QED
      BY <3>3, HasFacts
  <2>2. ASSUME Has(bk, x) PROVE Has(rb, x)
    <3>1. PICK s \in Side, p \in Price : \E i \in DOMAIN bk[s][p] : bk[s][p][i].id = x
      BY <2>2, HasFacts
    <3>2. \E i \in DOMAIN rb[s][p] : rb[s][p][i].id = x
      BY <1>8, <3>1
    <3>3. QED
      BY <3>2, HasFacts
  <2>3. Has(rb, o.id)
    <3>1. rb[side][limit] = u /\ n + 1 \in DOMAIN u /\ u[n + 1].id = o.id
      <4>1. n + 1 \in 1 .. n + 1
        OBVIOUS
      <4>2. QED
        BY <1>4, <1>5, <1>6, <4>1
    <3>2. \E i \in DOMAIN rb[side][limit] : rb[side][limit][i].id = o.id
      BY <3>1
    <3>3. QED
      BY <3>2, HasFacts
  <2>4. QED
    BY <2>1, <2>2, <2>3
<1>12. QED
  BY <1>1, <1>10, <1>11

\* What matching and resting an order leaves.
LEMMA AfterMatchFacts ==
  ASSUME NEW bk \in AnyBook, NEW side \in Side, NEW id \in OrderId, NEW limit \in Price,
         NEW qty \in 1 .. MaxQty, ~Has(bk, id),
         NEW nb, nb = AfterMatch(bk, side, id, limit, qty),
         NEW mb, mb = MatchedBook(bk, side, limit, qty)
  PROVE  /\ nb \in AnyBook
         /\ nb[Opposite(side)] = mb[Opposite(side)]
         /\ OnePlaceEach(bk) => OnePlaceEach(nb)
         /\ UncrossedBook(bk) => UncrossedBook(nb)
         /\ \A x : Has(nb, x) => Has(mb, x) \/ x = id
         /\ \/ nb = mb
            \/ \E o \in Order : /\ o.id = id /\ o.qty = qty - Filled(bk, side, limit, qty)
                                /\ nb = Rested(mb, side, limit, o)
<1>1. qty \in Nat /\ MaxQty \in Nat
  BY TypesAssumption
<1>2. PICK f \in Nat : f = Filled(bk, side, limit, qty) /\ f <= qty
  BY <1>1, FilledFacts
<1>3. mb \in AnyBook /\ mb[side] = bk[side] /\ Survives(mb, bk)
  BY <1>1, MatchedFacts
<1>4. /\ OnePlaceEach(bk) => OnePlaceEach(mb)
      /\ UncrossedBook(bk) => UncrossedBook(mb)
      /\ \A x : Has(mb, x) => Has(bk, x)
  BY <1>3, SurvivesFacts
<1>5. CASE f = qty
  <2>1. nb = mb
    BY <1>1, <1>2, <1>5 DEF AfterMatch
  <2>2. QED
    BY <1>3, <1>4, <2>1
<1>6. CASE f # qty
  <2>1. PICK o : o = [id |-> id, qty |-> qty - f]
    OBVIOUS
  <2>2. o \in Order /\ o.id = id /\ o.qty = qty - f
    <3>1. qty - f \in 1 .. MaxQty
      BY <1>1, <1>2, <1>6
    <3>2. QED
      BY <2>1, <3>1 DEF Order
  <2>3. nb = Rested(mb, side, limit, o)
    <3>1. qty - f # 0
      BY <1>1, <1>2, <1>6
    <3>2. QED
      BY <1>2, <2>1, <3>1 DEF AfterMatch, Rested
  <2>4. PICK s \in Side : s = Opposite(side) /\ s # side
    BY SideFacts
  <2>5. /\ nb \in AnyBook
        /\ \A x \in Side, p \in Price :
             nb[x][p] = IF x = side /\ p = limit THEN Append(mb[x][p], o) ELSE mb[x][p]
    BY <1>3, <2>2, <2>3, RestedFacts
  <2>6. nb[s] = mb[s]
    <3>1. nb[s] = [p \in Price |-> nb[s][p]] /\ mb[s] = [p \in Price |-> mb[s][p]]
      BY <1>3, <2>5 DEF AnyBook
    <3>2. \A p \in Price : nb[s][p] = mb[s][p]
      BY <2>4, <2>5
    <3>3. QED
      BY <3>1, <3>2
  <2>7. /\ OnePlaceEach(mb) => OnePlaceEach(nb)
        /\ \A x : Has(nb, x) <=> Has(mb, x) \/ x = id
    <3>1. ~Has(mb, o.id)
      BY <1>4, <2>2
    <3>2. QED
      BY <1>3, <2>2, <2>3, <3>1, RestedPlaces
  <2>8. ASSUME UncrossedBook(bk) PROVE UncrossedBook(nb)
    <3>1. \A p \in Price : Crosses(side, limit, p) => mb[s][p] = <<>>
      BY <1>1, <1>2, <1>6, <2>4, CrossingSwept
    <3>2. UncrossedBook(mb)
      BY <1>4, <2>8
    <3>3. \A p \in Price : nb[side][p] # <<>> => p = limit \/ mb[side][p] # <<>>
      BY <2>5
    <3>4. limit \in Int /\ \A p \in Price : p \in Int
      BY PriceFacts
    <3>5. CASE side = "Bid"
      <4>1. s = "Ask"
        BY <2>4, <3>5 DEF Opposite
      <4>2. \A a \in Price : mb["Ask"][a] # <<>> => limit < a
        BY <3>1, <3>4, <3>5, <4>1 DEF Crosses, Better
      <4>3. QED
        BY <2>6, <3>2, <3>3, <3>5, <4>1, <4>2 DEF UncrossedBook
    <3>6. CASE side = "Ask"
      <4>1. s = "Bid"
        BY <2>4, <3>6 DEF Opposite
      <4>2. \A b \in Price : mb["Bid"][b] # <<>> => b < limit
        BY <3>1, <3>4, <3>6, <4>1 DEF Crosses, Better
      <4>3. QED
        BY <2>6, <3>2, <3>3, <3>6, <4>1, <4>2 DEF UncrossedBook
    <3>7. QED
      BY <3>5, <3>6 DEF Side
  <2>9. QED
    BY <1>2, <1>4, <2>2, <2>3, <2>4, <2>5, <2>6, <2>7, <2>8
<1>7. QED
  BY <1>5, <1>6

\* Counters that report no crossing order.
Quiet(t) == t \in Tally /\ t.crossing_new_orders = 0 /\ t.crossing_modify_orders = 0

\* No counter starts with a crossing order.
LEMMA ZeroQuiet == Quiet(ZeroTally)
BY DEF Quiet, Tally, ZeroTally

\* Adding counters, at most one of which reports a crossing order.
LEMMA PlusFacts ==
  ASSUME NEW t \in Tally, NEW u \in Tally, Quiet(t) \/ Quiet(u)
  PROVE  /\ Plus(t, u) \in Tally
         /\ Quiet(t) /\ Quiet(u) => Quiet(Plus(t, u))
         /\ Plus(t, u).traded_qty = t.traded_qty + u.traded_qty
<1> DEFINE P(v) == [crossing_new_orders    |-> v.t.crossing_new_orders + v.u.crossing_new_orders,
                    crossing_modify_orders |-> v.t.crossing_modify_orders + v.u.crossing_modify_orders,
                    match_events           |-> v.t.match_events + v.u.match_events,
                    traded_qty             |-> v.t.traded_qty + v.u.traded_qty,
                    invalidations          |->
                      [s \in Side |-> v.t.invalidations[s] + v.u.invalidations[s]]]
<1>1. Plus(t, u) = CHOOSE y \in {P(v) : v \in {[t |-> t, u |-> u]}} : TRUE
  BY DEF Plus, With
<1>2. PICK w : w = [t |-> t, u |-> u]
  OBVIOUS
<1>3. w.t = t /\ w.u = u
  BY <1>2
<1>4. Plus(t, u) = P(w)
  <2> HIDE DEF P
  <2>1. {P(v) : v \in {w}} = {P(w)}
    OBVIOUS
  <2>2. QED
    BY <1>1, <1>2, <2>1
<1>5. PICK r : r = P(w)
  OBVIOUS
<1>6. /\ r = [crossing_new_orders    |-> t.crossing_new_orders + u.crossing_new_orders,
              crossing_modify_orders |-> t.crossing_modify_orders + u.crossing_modify_orders,
              match_events           |-> t.match_events + u.match_events,
              traded_qty             |-> t.traded_qty + u.traded_qty,
              invalidations          |-> [s \in Side |-> t.invalidations[s] + u.invalidations[s]]]
  BY <1>3, <1>5
<1>7. /\ t.crossing_new_orders \in 0 .. 1 /\ t.crossing_modify_orders \in 0 .. 1
      /\ t.match_events \in Nat /\ t.traded_qty \in Nat /\ t.invalidations \in [Side -> Nat]
      /\ u.crossing_new_orders \in 0 .. 1 /\ u.crossing_modify_orders \in 0 .. 1
      /\ u.match_events \in Nat /\ u.traded_qty \in Nat /\ u.invalidations \in [Side -> Nat]
  BY DEF Tally
<1>8. [s \in Side |-> t.invalidations[s] + u.invalidations[s]] \in [Side -> Nat]
  BY <1>7
<1>9. /\ t.match_events + u.match_events \in Nat /\ t.traded_qty + u.traded_qty \in Nat
      /\ t.crossing_new_orders + u.crossing_new_orders \in 0 .. 1
      /\ t.crossing_modify_orders + u.crossing_modify_orders \in 0 .. 1
      /\ Quiet(t) /\ Quiet(u) => /\ t.crossing_new_orders + u.crossing_new_orders = 0
                                 /\ t.crossing_modify_orders + u.crossing_modify_orders = 0
  BY <1>7 DEF Quiet
<1>10. r \in Tally
  BY <1>6, <1>8, <1>9 DEF Tally
<1>11. QED
  BY <1>4, <1>5, <1>6, <1>9, <1>10 DEF Quiet

\* An erasure trades nothing.
LEMMA EraseTallyType ==
  ASSUME NEW bk, NEW id
  PROVE  Quiet(EraseTally(bk, id)) /\ EraseTally(bk, id).traded_qty = 0
<1> DEFINE inv == [s \in Side |-> IF /\ Active(bk, s) # {}
                                     /\ IdsAt(bk, s, BestOf(s, Active(bk, s))) = {id}
                                  THEN 1 ELSE 0]
<1>1. EraseTally(bk, id) = [ZeroTally EXCEPT !.invalidations = inv]
  BY DEF EraseTally
<1>2. inv \in [Side -> Nat]
  OBVIOUS
<1> HIDE DEF inv
<1>3. QED
  BY <1>1, <1>2 DEF Quiet, Tally, ZeroTally

\* Counting a crossing order trades nothing.
LEMMA CrossTallyType ==
  ASSUME NEW bk, NEW side, NEW limit, NEW isNew \in BOOLEAN
  PROVE  /\ CrossTally(bk, side, limit, isNew) \in Tally
         /\ CrossTally(bk, side, limit, isNew).traded_qty = 0
<1>1. PICK c \in BOOLEAN : c <=> LET best == Best(bk, Opposite(side))
                                 IN  best # None /\ Crosses(side, limit, best.price)
  OBVIOUS
<1>2. CrossTally(bk, side, limit, isNew) =
        [ZeroTally EXCEPT !.crossing_new_orders = IF c /\ isNew THEN 1 ELSE 0,
                          !.crossing_modify_orders = IF c /\ ~isNew THEN 1 ELSE 0]
  BY <1>1 DEF CrossTally
<1>3. PICK x \in 0 .. 1, y \in 0 .. 1 :
        x = (IF c /\ isNew THEN 1 ELSE 0) /\ y = (IF c /\ ~isNew THEN 1 ELSE 0)
  OBVIOUS
<1>4. CrossTally(bk, side, limit, isNew) =
        [ZeroTally EXCEPT !.crossing_new_orders = x, !.crossing_modify_orders = y]
  BY <1>2, <1>3
<1>5. CrossTally(bk, side, limit, isNew) =
        [crossing_new_orders |-> x, crossing_modify_orders |-> y, match_events |-> 0,
         traded_qty |-> 0, invalidations |-> [u \in Side |-> 0]]
  BY <1>4 DEF ZeroTally
<1>6. [u \in Side |-> 0] \in [Side -> Nat]
  OBVIOUS
<1>7. QED
  BY <1>5, <1>6 DEF Tally

\* The counters of a match.
TallyOf(s, x, y, z) ==
  [ZeroTally EXCEPT !.match_events = x, !.traded_qty = y, !.invalidations[s] = z]

\* They report no crossing order, and what was traded.
LEMMA TallyOfFacts ==
  ASSUME NEW s \in Side, NEW x \in Nat, NEW y \in Nat, NEW z \in Nat
  PROVE  Quiet(TallyOf(s, x, y, z)) /\ TallyOf(s, x, y, z).traded_qty = y
<1>1. PICK i, j : i = [u \in Side |-> 0] /\ j = [u \in Side |-> IF u = s THEN z ELSE 0]
  OBVIOUS
<1>2. [i EXCEPT ![s] = z] = j
  BY <1>1
<1>3. PICK t : t = [ZeroTally EXCEPT !.match_events = x, !.traded_qty = y]
  OBVIOUS
<1>4. t = [crossing_new_orders |-> 0, crossing_modify_orders |-> 0, match_events |-> x,
           traded_qty |-> y, invalidations |-> i]
  BY <1>1, <1>3 DEF ZeroTally
<1>5. TallyOf(s, x, y, z) = [t EXCEPT !.invalidations[s] = z]
  BY <1>3 DEF TallyOf
<1>6. [t EXCEPT !.invalidations[s] = z] = [t EXCEPT !.invalidations = j]
  BY <1>2, <1>4
<1>7. [t EXCEPT !.invalidations = j]
        = [crossing_new_orders |-> 0, crossing_modify_orders |-> 0, match_events |-> x,
           traded_qty |-> y, invalidations |-> j]
  BY <1>4
<1>8. j \in [Side -> Nat]
  BY <1>1
<1>9. QED
  BY <1>5, <1>6, <1>7, <1>8 DEF Quiet, Tally

\* Matching counts what it trades.
LEMMA MatchTallyType ==
  ASSUME NEW bk \in AnyBook, NEW side \in Side, NEW limit, NEW qty \in Nat
  PROVE  /\ Quiet(MatchTally(bk, side, limit, qty))
         /\ MatchTally(bk, side, limit, qty).traded_qty = Filled(bk, side, limit, qty)
<1>1. PICK s \in Side : s = Opposite(side)
  BY SideFacts
<1> DEFINE hit(p) == {i \in DOMAIN bk[Opposite(side)][p] : FillOf(bk, side, limit, qty, p, i) > 0}
           events == MapThenSumSet(LAMBDA p : Cardinality(hit(p)), Price)
           wet == With(MatchedBook(bk, side, limit, qty)[Opposite(side)],
                       LAMBDA left : {p \in Active(bk, Opposite(side)) : left[p] = <<>>})
<1>2. MatchTally(bk, side, limit, qty) =
        [ZeroTally EXCEPT !.match_events = events,
                          !.traded_qty = Filled(bk, side, limit, qty),
                          !.invalidations[Opposite(side)] = Cardinality(wet)]
  BY DEF MatchTally
<1>3. events \in Nat
  <2> DEFINE P == Price
             f == [p \in P |-> Cardinality(hit(p))]
             pick(r) == CHOOSE x \in r : TRUE
             A(h) == h = [r \in SUBSET P |-> IF r = {} THEN 0 ELSE Cardinality(hit(pick(r))) + h[r \ {pick(r)}]]
             B(h) == h = [r \in SUBSET P |-> IF r = {} THEN 0 ELSE f[pick(r)] + h[r \ {pick(r)}]]
  <2>1. events = (CHOOSE h : A(h))[P]
    BY DEF MapThenSumSet, MapThenFoldSet
  <2>2. SumOf(f, P) = (CHOOSE h : B(h))[P]
    BY DEF SumOf, MapThenSumSet, MapThenFoldSet
  <2>3. \A r \in SUBSET P : r # {} => pick(r) \in P
    OBVIOUS
  <2>4. \A p \in P : f[p] = Cardinality(hit(p))
    OBVIOUS
  <2>5. \A p \in P : Cardinality(hit(p)) \in Nat
    <3> SUFFICES ASSUME NEW p \in Price PROVE Cardinality(hit(p)) \in Nat
      OBVIOUS
    <3>1. bk[Opposite(side)][p] \in Seq(Order)
      BY SideFacts DEF AnyBook
    <3>2. IsFiniteSet(DOMAIN bk[Opposite(side)][p]) /\ hit(p) \in SUBSET DOMAIN bk[Opposite(side)][p]
      BY <3>1, WeightsFacts
    <3>3. QED
      BY <3>2, FS_Subset, FS_CardinalityType
  <2>6. f \in [P -> Nat]
    BY <2>5
  <2> HIDE DEF f, P, hit
  <2>7. ASSUME NEW h PROVE A(h) <=> B(h)
    <3>1. \A r \in SUBSET P : (IF r = {} THEN 0 ELSE Cardinality(hit(pick(r))) + h[r \ {pick(r)}])
               = (IF r = {} THEN 0 ELSE f[pick(r)] + h[r \ {pick(r)}])
      BY <2>3, <2>4
    <3> HIDE DEF pick
    <3>2. QED
      BY <3>1
  <2> HIDE DEF A, B
  <2>8. (CHOOSE h : A(h)) = (CHOOSE h : B(h))
    BY <2>7, Zenon
  <2>9. SumOf(f, P) \in Nat
    <3>1. IsFiniteSet(P) /\ P \in SUBSET P
      BY PriceFinite DEF P
    <3>2. QED
      BY <2>6, <3>1, SumFacts
  <2>10. QED
    BY <2>1, <2>2, <2>8, <2>9
<1>4. Cardinality(wet) \in Nat
  <2>1. PICK mb : mb = MatchedBook(bk, side, limit, qty)[Opposite(side)]
    OBVIOUS
  <2> DEFINE gone(left) == {p \in Active(bk, Opposite(side)) : left[p] = <<>>}
  <2>2. wet = CHOOSE y \in {gone(v) : v \in {mb}} : TRUE
    BY <2>1 DEF With
  <2>3. wet = gone(mb)
    <3> HIDE DEF gone, wet
    <3>1. {gone(v) : v \in {mb}} = {gone(mb)}
      OBVIOUS
    <3>2. QED
      BY <2>2, <3>1
  <2>4. gone(mb) \in SUBSET Price
    BY DEF Active
  <2>5. QED
    BY <2>3, <2>4, PriceFinite, FS_Subset, FS_CardinalityType
<1>5. Filled(bk, side, limit, qty) \in Nat
  BY FilledFacts
<1> HIDE DEF events, wet
<1>6. PICK x \in Nat, y \in Nat, z \in Nat :
        x = events /\ y = Filled(bk, side, limit, qty) /\ z = Cardinality(wet)
  BY <1>3, <1>4, <1>5
<1>7. MatchTally(bk, side, limit, qty) = TallyOf(s, x, y, z)
  BY <1>1, <1>2, <1>6 DEF TallyOf
<1>8. QED
  BY <1>6, <1>7, TallyOfFacts

\* A new order reports in traded_qty what it trades.
LEMMA NewTallyType ==
  ASSUME NEW bk \in AnyBook, NEW side \in Side, NEW id, NEW price, NEW qty \in Nat,
         NEW isNew \in BOOLEAN
  PROVE  /\ NewTally(bk, side, id, price, qty, isNew) \in Tally
         /\ ~Refused(id, price, qty) =>
              NewTally(bk, side, id, price, qty, isNew).traded_qty
                = Filled(Erased(bk, id), side, price, qty)
<1> DEFINE after(left) == Plus(EraseTally(bk, id),
                               Plus(CrossTally(left, side, price, isNew),
                                    MatchTally(left, side, price, qty)))
<1>1. CASE Refused(id, price, qty)
  BY <1>1, ZeroQuiet DEF NewTally, Quiet
<1>2. CASE ~Refused(id, price, qty)
  <2>1. PICK eb \in AnyBook : eb = Erased(bk, id)
    BY ErasedBook
  <2>2. NewTally(bk, side, id, price, qty, isNew) = CHOOSE y \in {after(v) : v \in {eb}} : TRUE
    BY <1>2, <2>1 DEF NewTally, With
  <2>3. NewTally(bk, side, id, price, qty, isNew) = after(eb)
    <3> HIDE DEF after
    <3>1. {after(v) : v \in {eb}} = {after(eb)}
      OBVIOUS
    <3>2. QED
      BY <2>2, <3>1
  <2>4. PICK a, b, c : /\ a = EraseTally(bk, id) /\ b = CrossTally(eb, side, price, isNew)
                       /\ c = MatchTally(eb, side, price, qty)
    OBVIOUS
  <2>5. /\ Quiet(a) /\ a.traded_qty = 0 /\ b \in Tally /\ b.traded_qty = 0
        /\ Quiet(c) /\ c.traded_qty = Filled(eb, side, price, qty)
    BY <2>4, EraseTallyType, CrossTallyType, MatchTallyType
  <2>6. /\ Plus(b, c) \in Tally
        /\ Plus(b, c).traded_qty = b.traded_qty + c.traded_qty
    BY <2>5, PlusFacts DEF Quiet
  <2>7. /\ Plus(a, Plus(b, c)) \in Tally
        /\ Plus(a, Plus(b, c)).traded_qty = a.traded_qty + Plus(b, c).traded_qty
    BY <2>5, <2>6, PlusFacts DEF Quiet
  <2>8. Filled(eb, side, price, qty) \in Nat
    BY FilledFacts
  <2>9. QED
    BY <2>1, <2>3, <2>4, <2>5, <2>6, <2>7, <2>8
<1>3. QED
  BY <1>1, <1>2

\* What an accepted order does to the book.
LEMMA AfterNewIs ==
  ASSUME NEW bk, NEW side, NEW id, NEW price, NEW qty, ~Refused(id, price, qty)
  PROVE  AfterNew(bk, side, id, price, qty) = AfterMatch(Erased(bk, id), side, id, price, qty)
<1> DEFINE after(left) == AfterMatch(left, side, id, price, qty)
<1>1. PICK eb : eb = Erased(bk, id)
  OBVIOUS
<1>2. AfterNew(bk, side, id, price, qty) = CHOOSE y \in {after(v) : v \in {eb}} : TRUE
  BY <1>1 DEF AfterNew, With
<1>3. CASE TRUE
  <2> HIDE DEF after
  <2>1. {after(v) : v \in {eb}} = {after(eb)}
    OBVIOUS
  <2>2. AfterNew(bk, side, id, price, qty) = after(eb)
    BY <1>2, <2>1
  <2>3. QED
    BY <1>1, <2>2 DEF after
<1>4. QED
  BY <1>3

\* What every book the program reaches is like.
GoodBook(bk) == bk \in AnyBook /\ OnePlaceEach(bk) /\ UncrossedBook(bk)

\* Erasing keeps a book good.
LEMMA ErasedGood ==
  ASSUME NEW bk, GoodBook(bk), NEW id
  PROVE  GoodBook(Erased(bk, id))
<1>1. bk \in AnyBook /\ Erased(bk, id) \in AnyBook /\ Survives(Erased(bk, id), bk)
  BY ErasedBook DEF GoodBook
<1>2. QED
  BY <1>1, SurvivesFacts DEF GoodBook

\* A new order keeps a book good: it erases its id first, sweeps all it crosses, rests last.
LEMMA AfterNewGood ==
  ASSUME NEW bk, GoodBook(bk), NEW side \in Side, NEW id \in OrderId \cup {ZeroId},
         NEW price \in Price, NEW qty \in Qty
  PROVE  GoodBook(AfterNew(bk, side, id, price, qty))
<1>1. CASE Refused(id, price, qty)
  BY <1>1 DEF AfterNew
<1>2. CASE ~Refused(id, price, qty)
  <2>1. id \in OrderId /\ qty \in 1 .. MaxQty
    BY <1>2, TypesAssumption DEF Refused, Qty
  <2>2. PICK eb : eb = Erased(bk, id)
    OBVIOUS
  <2>3. GoodBook(eb) /\ ~Has(eb, id)
    BY <2>2, ErasedGood, ErasedBook DEF GoodBook
  <2>4. GoodBook(AfterMatch(eb, side, id, price, qty))
    BY <2>1, <2>3, AfterMatchFacts DEF GoodBook
  <2>5. QED
    BY <1>2, <2>2, <2>4, AfterNewIs
<1>3. QED
  BY <1>1, <1>2

\* An order that rests is on a side.
LEMMA SideOfFacts ==
  ASSUME NEW bk, NEW id, Has(bk, id)
  PROVE  SideOf(bk, id) \in Side
BY DEF Has, SideOf

\* The empty book is good.
LEMMA EmptyGood ==
  ASSUME NEW bk, bk = [s \in Side |-> [p \in Price |-> <<>>]]
  PROVE  GoodBook(bk)
<1>1. \A s \in Side, p \in Price : bk[s][p] = <<>>
  OBVIOUS
<1>2. bk \in AnyBook
  <2>1. <<>> \in Seq(Order)
    OBVIOUS
  <2>2. QED
    BY <2>1 DEF AnyBook
<1>3. OnePlaceEach(bk) /\ UncrossedBook(bk)
  BY <1>1 DEF OnePlaceEach, UncrossedBook, Side
<1>4. QED
  BY <1>2, <1>3 DEF GoodBook

\* What is served before an order has room for every order served before it.
LEMMA AheadOrder ==
  ASSUME NEW bk \in AnyBook, NEW s \in Side, NEW p \in Price, NEW q \in Price,
         NEW i \in DOMAIN bk[s][p], NEW j \in DOMAIN bk[s][q], HasPriority(s, <<p, i>>, <<q, j>>)
  PROVE  Ahead(bk, s, p, i) + bk[s][p][i].qty <= Ahead(bk, s, q, j)
<1>1. PICK a \in Nat, b \in Nat, c \in Nat :
        a = Ahead(bk, s, p, i) /\ b = bk[s][p][i].qty /\ c = Ahead(bk, s, q, j)
  BY AheadFacts
<1>2. Beyond(s, q) \in SUBSET Price
  BY DEF Beyond
<1>3. PICK d \in Nat : d = Liquidity(bk, s, Beyond(s, q))
  BY <1>2, LiquidityFacts
<1>4. PICK u \in Seq(Order) : u = bk[s][q]
  BY DEF AnyBook
<1>5. PICK D, w : D = DOMAIN u /\ w = Weights(u)
  OBVIOUS
<1>6. /\ D = 1 .. Len(u) /\ Len(u) \in Nat /\ IsFiniteSet(D) /\ w \in [D -> Nat] /\ j \in D
      /\ \A k \in D : w[k] = u[k].qty
  BY <1>4, <1>5, WeightsFacts
<1>7. c = d + SumOf(w, 1 .. j - 1)
  BY <1>1, <1>3, <1>4, <1>5, AheadFacts
<1>8. 1 .. j - 1 \in SUBSET D
  BY <1>6
<1>9. PICK e \in Nat : e = SumOf(w, 1 .. j - 1)
  BY <1>6, <1>8, SumFacts
<1>10. CASE Better(s, p, q)
  <2>1. p \in Beyond(s, q) /\ Beyond(s, p) \subseteq Beyond(s, q)
    <3>1. p \in Int /\ q \in Int /\ \A x \in Price : x \in Int
      BY PriceFacts
    <3>2. p \in Beyond(s, q)
      BY <1>10 DEF Beyond
    <3>3. ASSUME NEW x \in Beyond(s, p) PROVE x \in Beyond(s, q)
      <4>1. x \in Price /\ Better(s, x, p)
        BY <3>3 DEF Beyond
      <4>2. Better(s, x, q)
        BY <1>10, <3>1, <4>1 DEF Better
      <4>3. QED
        BY <4>1, <4>2 DEF Beyond
    <3>4. QED
      BY <3>2, <3>3
  <2>2. a + b <= d
    BY <1>1, <1>2, <1>3, <2>1, AheadFacts
  <2>3. a + b <= c
    BY <1>7, <1>9, <2>2
  <2>4. QED
    BY <1>1, <2>3
<1>11. CASE p = q /\ i < j
  <2>1. i \in D /\ b = w[i] /\ a = d + SumOf(w, 1 .. i - 1)
    <3>1. i \in D /\ b = w[i]
      BY <1>1, <1>4, <1>5, <1>6, <1>11
    <3>2. QED
      BY SMTT(30), <1>1, <1>3, <1>4, <1>5, <1>11, <3>1, AheadFacts
  <2>2. PICK P, Q, R : P = 1 .. i /\ Q = 1 .. j - 1 /\ R = 1 .. i - 1
    OBVIOUS
  <2>3. i \in P /\ P \ {i} = R /\ P \subseteq Q
    <3>1. i \in Nat /\ j \in Nat /\ i >= 1
      BY <1>6, <2>1
    <3>2. QED
      BY <1>11, <2>2, <3>1
  <2>4. P \in SUBSET D /\ Q \in SUBSET D /\ R \in SUBSET D /\ IsFiniteSet(D) /\ w \in [D -> Nat]
    BY <1>6, <1>8, <2>1, <2>2, <2>3
  <2>5. SumOf(w, P) = w[i] + SumOf(w, R)
    <3>1. SumOf(w, P) = w[i] + SumOf(w, P \ {i})
      BY SMTT(30), <2>3, <2>4, SumFacts
    <3>2. QED
      BY <2>3, <3>1
  <2>6. SumOf(w, P) <= SumOf(w, Q)
    BY <2>3, <2>4, SumOfPart
  <2>7. SumOf(w, R) \in Nat /\ SumOf(w, P) \in Nat
    BY <2>4, SumFacts
  <2>8. PICK t \in Nat, v \in Nat : t = SumOf(w, R) /\ v = SumOf(w, P)
    BY <2>7
  <2>9. a = d + t /\ v = b + t /\ v <= e /\ c = d + e
    BY <1>7, <1>9, <2>1, <2>2, <2>5, <2>6, <2>8
  <2>10. a + b <= c
    BY <2>9
  <2>11. QED
    BY <1>1, <2>10
<1>12. QED
  BY <1>10, <1>11 DEF HasPriority

\* Matching takes from an order only when every order served before it is gone.
LEMMA MatchInPriority ==
  ASSUME NEW bk, GoodBook(bk), NEW side \in Side, NEW limit \in Price, NEW qty \in Nat,
         NEW s, s = Opposite(side), NEW mb, mb = MatchedBook(bk, side, limit, qty),
         NEW p \in Price, NEW q \in Price, NEW i \in DOMAIN bk[s][p], NEW j \in DOMAIN bk[s][q],
         HasPriority(s, <<p, i>>, <<q, j>>), bk[s][q][j] \notin ToSet(mb[s][q])
  PROVE  ~Has(mb, bk[s][p][i].id)
<1>1. s \in Side /\ bk \in AnyBook /\ mb \in AnyBook /\ Survives(mb, bk)
  BY SideFacts, MatchedFacts DEF GoodBook
<1>2. PICK a \in Nat, b \in Nat, c \in Nat, d \in Nat :
        /\ a = Ahead(bk, s, p, i) /\ b = bk[s][p][i].qty
        /\ c = Ahead(bk, s, q, j) /\ d = bk[s][q][j].qty /\ b > 0 /\ d > 0
  BY <1>1, AheadFacts
<1>3. a + b <= c
  BY <1>1, <1>2, AheadOrder
<1>4. FillOf(bk, side, limit, qty, q, j) > 0
  <2>1. PICK u \in Seq(Order), r \in Seq(Order) : u = bk[s][q] /\ r = mb[s][q]
    BY <1>1 DEF AnyBook
  <2>2. PICK fill : fill = MatchFill(bk, side, limit, qty, q)
    OBVIOUS
  <2>3. PICK m : Survivors(r, u, fill, m)
    BY <2>1, <2>2, MatchedLevel, <1>1
  <2>4. fill[j] = FillOf(bk, side, limit, qty, q, j)
    BY <2>2 DEF MatchFill
  <2>5. FillOf(bk, side, limit, qty, q, j) \in Nat
    BY <1>1, FillFacts
  <2>6. ASSUME fill[j] = 0 PROVE FALSE
    <3>1. j \in DOMAIN u /\ u[j].qty \in Nat /\ u[j].qty > 0
      BY <2>1, WeightsFacts
    <3>2. PICK k \in DOMAIN r : m[k] = j
      BY <2>3, <2>6, <3>1 DEF Survivors
    <3>3. r[k].id = u[j].id /\ r[k].qty = u[j].qty - 0
      BY <2>3, <2>6, <3>2 DEF Survivors
    <3>4. r[k].id = u[j].id /\ r[k].qty = u[j].qty
      BY <3>1, <3>3
    <3>5. r[k] \in Order /\ u[j] \in Order
      BY <3>1, QueueFacts
    <3>6. r[k] = u[j]
      <4>1. r[k] = [id |-> r[k].id, qty |-> r[k].qty]
        BY <3>5 DEF Order
      <4>2. u[j] = [id |-> u[j].id, qty |-> u[j].qty]
        BY <3>5 DEF Order
      <4>3. QED
        BY <3>4, <4>1, <4>2
    <3>7. u[j] \in ToSet(r)
      BY <3>6 DEF ToSet
    <3>8. QED
      BY <2>1, <3>7
  <2>7. QED
    BY <2>4, <2>5, <2>6
<1>5. Crosses(side, limit, q) /\ qty > c
  BY <1>1, <1>2, <1>4, FillFacts
<1>6. Crosses(side, limit, p)
  <2>1. p = q \/ p \in Beyond(s, q)
    BY DEF HasPriority, Beyond
  <2>2. QED
    BY <1>5, <2>1, CrossingBeyond
<1>7. FillOf(bk, side, limit, qty, p, i) = bk[s][p][i].qty
  <2>1. qty >= a + b
    BY <1>2, <1>3, <1>5
  <2>2. QED
    BY <1>1, <1>2, <1>6, <2>1, FillFacts
<1>8. ASSUME Has(mb, bk[s][p][i].id) PROVE FALSE
  <2>1. PICK t \in Side, x \in Price : \E k \in DOMAIN mb[t][x] : mb[t][x][k].id = bk[s][p][i].id
    BY <1>8, HasFacts
  <2>2. PICK k \in DOMAIN mb[t][x] : mb[t][x][k].id = bk[s][p][i].id
    BY <2>1
  <2>3. PICK fill, m : Survivors(mb[t][x], bk[t][x], fill, m) /\
                       (t = s => fill = MatchFill(bk, side, limit, qty, x))
    <3>1. CASE t = s
      BY <1>1, <3>1, MatchedLevel
    <3>2. CASE t # s
      BY <1>1, <3>2 DEF Survives
    <3>3. QED
      BY <3>1, <3>2
  <2>4. m[k] \in DOMAIN bk[t][x] /\ bk[t][x][m[k]].id = bk[s][p][i].id
        /\ fill[m[k]] < bk[t][x][m[k]].qty
    BY <2>2, <2>3 DEF Survivors
  <2>5. t = s /\ x = p /\ m[k] = i
    BY <1>1, <2>4 DEF GoodBook, OnePlaceEach
  <2>6. fill[i] = FillOf(bk, side, limit, qty, p, i)
    BY <2>3, <2>5 DEF MatchFill
  <2>7. fill[i] < bk[s][p][i].qty
    BY <2>4, <2>5
  <2>8. QED
    BY <1>2, <1>7, <2>6, <2>7
<1>9. QED
  BY <1>8

\* Place i of level p is served before place j of level q.
Before(s, p, i, q, j) == HasPriority(s, <<p, i>>, <<q, j>>)

\* The order at a place of bk is at some place of eb, before the same other order.
Stays(eb, bk, id, s, p, q, i, j) ==
  bk[s][p][i].id # id /\ bk[s][q][j].id # id /\ Before(s, p, i, q, j) =>
    \E k \in DOMAIN eb[s][p], l \in DOMAIN eb[s][q] :
      /\ eb[s][p][k].id = bk[s][p][i].id
      /\ eb[s][q][l] = bk[s][q][j]
      /\ Before(s, p, k, q, l)

\* Erasing an id leaves the other orders in the same priority.
LEMMA ErasedPriority ==
  ASSUME NEW bk \in AnyBook, NEW id, NEW s \in Side, NEW p \in Price, NEW q \in Price
  PROVE  \A i \in DOMAIN bk[s][p], j \in DOMAIN bk[s][q] :
           Stays(Erased(bk, id), bk, id, s, p, q, i, j)
<1>1. PICK eb : eb = Erased(bk, id)
  OBVIOUS
<1>2. SUFFICES ASSUME NEW i \in DOMAIN bk[s][p], NEW j \in DOMAIN bk[s][q],
                    bk[s][p][i].id # id, bk[s][q][j].id # id, Before(s, p, i, q, j)
             PROVE  \E k \in DOMAIN eb[s][p], l \in DOMAIN eb[s][q] :
                      /\ eb[s][p][k].id = bk[s][p][i].id
                      /\ eb[s][q][l] = bk[s][q][j]
                      /\ Before(s, p, k, q, l)
  BY <1>1, Zenon DEF Stays
<1>3. eb \in AnyBook
  BY <1>1, ErasedBook
<1>4. PICK m : OthersOf(eb[s][p], bk[s][p], id, m)
  BY <1>1, ErasedPlaces
<1>5. PICK n : OthersOf(eb[s][q], bk[s][q], id, n) /\ (p = q => n = m)
  <2>1. CASE p = q
    BY <1>4, <2>1
  <2>2. CASE p # q
    BY <2>2, <1>1, ErasedPlaces
  <2>3. QED
    BY <2>1, <2>2
<1>6. PICK k \in DOMAIN eb[s][p] : m[k] = i
  BY <1>4, <1>2 DEF OthersOf
<1>7. PICK l \in DOMAIN eb[s][q] : n[l] = j
  BY <1>5, <1>2 DEF OthersOf
<1>8. eb[s][p][k].id = bk[s][p][i].id
  BY <1>4, <1>6 DEF OthersOf
<1>9. eb[s][q][l].id = bk[s][q][j].id /\ eb[s][q][l].qty = bk[s][q][j].qty
  BY <1>5, <1>7 DEF OthersOf
<1>10. eb[s][q][l] = bk[s][q][j]
  <2>1. PICK u \in Seq(Order), v \in Seq(Order) : u = eb[s][q] /\ v = bk[s][q]
    BY <1>3 DEF AnyBook
  <2>2. u[l] \in Order /\ v[j] \in Order
    BY <2>1, QueueFacts
  <2>3. u[l] = [id |-> u[l].id, qty |-> u[l].qty] /\ v[j] = [id |-> v[j].id, qty |-> v[j].qty]
    BY <2>2 DEF Order
  <2>4. QED
    BY <1>9, <2>1, <2>3
<1>11. Before(s, p, k, q, l)
  <2>1. CASE Better(s, p, q)
    BY <2>1 DEF Before, HasPriority
  <2>2. CASE p = q /\ i < j
    <3>1. PICK u \in Seq(Order), v \in Seq(Order) : u = eb[s][p] /\ v = bk[s][p]
      BY <1>3 DEF AnyBook
    <3>2. k \in Nat /\ l \in Nat /\ i \in Nat /\ j \in Nat
      BY SMTT(30), <2>2, <3>1, QueueFacts
    <3>3. \A a, b \in DOMAIN eb[s][p] : a < b => m[a] < m[b]
      BY <1>4 DEF OthersOf
    <3>4. m[k] = i /\ m[l] = j /\ l \in DOMAIN eb[s][p]
      BY <1>5, <1>6, <1>7, <2>2
    <3>5. k < l
      <4>1. ASSUME l < k PROVE FALSE
        <5>1. j < i
          BY <3>3, <3>4, <4>1
        <5>2. QED
          BY <2>2, <3>2, <5>1
      <4>2. k # l
        BY <2>2, <3>2, <3>4
      <4>3. QED
        BY <3>2, <4>1, <4>2
    <3>6. QED
      BY <2>2, <3>5 DEF Before, HasPriority
  <2>3. QED
    BY <1>2, <2>1, <2>2 DEF Before, HasPriority
<1>12. QED
  BY <1>8, <1>10, <1>11

\* An order applied to a book respects the priority of the orders it meets.
LEMMA PriorityOfOne ==
  ASSUME NEW bk, GoodBook(bk), NEW side \in Side, NEW id, NEW limit, NEW qty,
         NEW eb, eb = Erased(bk, id), NEW nb,
         IF Refused(id, limit, qty) THEN nb \in {bk, eb}
         ELSE /\ nb = AfterMatch(eb, side, id, limit, qty)
              /\ id \in OrderId /\ limit \in Price /\ qty \in 1 .. MaxQty,
         NEW s \in Side, NEW p \in Price, NEW q \in Price,
         NEW i \in DOMAIN bk[s][p], NEW j \in DOMAIN bk[s][q],
         bk[s][p][i].id # id, bk[s][q][j].id # id, HasPriority(s, <<p, i>>, <<q, j>>),
         bk[s][q][j] \notin ToSet(nb[s][q])
  PROVE  ~Has(nb, bk[s][p][i].id)
<1>1. bk \in AnyBook
  BY DEF GoodBook
<1>2. PICK k \in DOMAIN eb[s][p], l \in DOMAIN eb[s][q] :
           /\ eb[s][p][k].id = bk[s][p][i].id
           /\ eb[s][q][l] = bk[s][q][j]
           /\ Before(s, p, k, q, l)
  
  <2>1. Stays(eb, bk, id, s, p, q, i, j)
    BY <1>1, ErasedPriority
  <2>2. QED
    BY <2>1, Zenon DEF Stays, Before
<1>3. GoodBook(eb) /\ ~Has(eb, id)
  BY ErasedGood, ErasedBook DEF GoodBook
<1>4. nb # bk /\ nb # eb
  BY <1>2 DEF ToSet
<1>5. /\ ~Refused(id, limit, qty)
      /\ nb = AfterMatch(eb, side, id, limit, qty)
      /\ id \in OrderId /\ limit \in Price /\ qty \in 1 .. MaxQty /\ qty \in Nat
  BY <1>4, TypesAssumption
<1>6. PICK mb : mb = MatchedBook(eb, side, limit, qty)
  OBVIOUS
<1>7. mb \in AnyBook /\ mb[side] = eb[side]
  BY <1>3, <1>5, <1>6, MatchedFacts DEF GoodBook
<1>8. /\ nb[Opposite(side)] = mb[Opposite(side)]
      /\ \A x : Has(nb, x) => Has(mb, x) \/ x = id
      /\ \/ nb = mb
         \/ \E o \in Order : nb = Rested(mb, side, limit, o)
  BY <1>3, <1>5, <1>6, AfterMatchFacts DEF GoodBook
<1>9. CASE s = side
  <2>1. eb[s][q][l] \in ToSet(mb[s][q])
    BY <1>7, <1>9 DEF ToSet
  <2>2. PICK o \in Order : nb = Rested(mb, side, limit, o)
    BY <1>2, <1>8, <2>1
  <2>3. PICK u \in Seq(Order) : u = mb[s][q]
    BY <1>7 DEF AnyBook
  <2>4. nb[s][q] = Append(u, o) \/ nb[s][q] = u
    <3>1. Rested(mb, side, limit, o)[s][q]
            = IF s = side /\ q = limit THEN Append(mb[s][q], o) ELSE mb[s][q]
      BY <1>5, <1>7, RestedFacts
    <3>2. QED
      BY <2>2, <2>3, <3>1
  <2>5. PICK n \in Nat : n = Len(u) /\ DOMAIN u = 1 .. n
    BY QueueFacts
  <2>6. l \in DOMAIN Append(u, o) /\ Append(u, o)[l] = u[l] /\ l \in DOMAIN u /\ u[l] = eb[s][q][l]
    <3>1. l \in DOMAIN u /\ u[l] = eb[s][q][l]
      BY <1>7, <1>9, <2>3
    <3>2. l \in 1 .. n + 1 /\ DOMAIN Append(u, o) = 1 .. n + 1 /\ Append(u, o)[l] = u[l]
      BY <2>5, <3>1
    <3>3. QED
      BY <3>1, <3>2
  <2>7. \E x \in DOMAIN nb[s][q] : nb[s][q][x] = eb[s][q][l]
    BY <2>4, <2>6
  <2>8. eb[s][q][l] \in ToSet(nb[s][q])
    BY <2>7 DEF ToSet
  <2>9. QED
    BY <1>2, <2>8
<1>10. CASE s = Opposite(side)
  <2>1. eb[s][q][l] \notin ToSet(mb[s][q])
    BY <1>2, <1>8, <1>10
  <2>2. ~Has(mb, eb[s][p][k].id)
    BY <1>2, <1>3, <1>5, <1>6, <1>10, <2>1, MatchInPriority DEF Before
  <2>3. QED
    BY <1>2, <1>8, <2>2
<1>11. QED
  BY <1>9, <1>10 DEF Side, Opposite

\* What a step does that applies an order.
AppliesTo(bk, req, nb, traded) ==
  /\ req.side \in Side /\ req.price \in Price /\ req.qty \in Qty
  /\ IF Refused(req.id, req.price, req.qty) THEN nb \in {bk, Erased(bk, req.id)}
     ELSE /\ nb = AfterMatch(Erased(bk, req.id), req.side, req.id, req.price, req.qty)
          /\ traded = Filled(Erased(bk, req.id), req.side, req.price, req.qty)
          /\ req.id \in OrderId /\ req.qty \in 1 .. MaxQty

\* Each fill[i] is what is left of R once the values before i have had their part.
Clips(fill, w, R, n) ==
  /\ n \in Nat /\ R \in Nat /\ fill \in [1 .. n -> Nat] /\ w \in [1 .. n -> Nat]
  /\ \A i \in 1 .. n :
       fill[i] = IF R > SumOf(w, 1 .. i - 1) THEN MinOf(R - SumOf(w, 1 .. i - 1), w[i]) ELSE 0

\* Taking from one value more.
LEMMA ClipStep ==
  ASSUME NEW a \in Nat, NEW x \in Nat, NEW R \in Nat
  PROVE  MinOf(a, R) + (IF R > a THEN MinOf(R - a, x) ELSE 0) = MinOf(a + x, R)
BY DEF MinOf

\* Taking from one level more.
LEMMA ClipAbove ==
  ASSUME NEW a \in Nat, NEW x \in Nat, NEW q \in Nat
  PROVE  MinOf(a, q) + MinOf(x, IF q > a THEN q - a ELSE 0) = MinOf(a + x, q)
BY DEF MinOf

\* What is taken in order from values of which R is wanted is R or all there is.
LEMMA SumClipped ==
  ASSUME NEW fill, NEW w, NEW R, NEW n, Clips(fill, w, R, n)
  PROVE  SumOf(fill, 1 .. n) = MinOf(SumOf(w, 1 .. n), R)
<1> DEFINE Bad(k) == SumOf(fill, 1 .. k) # MinOf(SumOf(w, 1 .. k), R)
           T == {k \in 0 .. n : Bad(k)}
<1>1. /\ n \in Nat /\ R \in Nat /\ fill \in [1 .. n -> Nat] /\ w \in [1 .. n -> Nat]
      /\ \A i \in 1 .. n :
           fill[i] = IF R > SumOf(w, 1 .. i - 1) THEN MinOf(R - SumOf(w, 1 .. i - 1), w[i]) ELSE 0
  BY DEF Clips
<1>2. SUFFICES ASSUME T # {} PROVE FALSE
  <2>1. n \in 0 .. n
    BY <1>1
  <2> HIDE DEF Bad
  <2>2. T = {} => ~Bad(n)
    BY <2>1
  <2>3. QED
    BY <2>2 DEF Bad
<1>3. PICK k \in T : \A j \in T : k <= j
  <2>1. T \in SUBSET Nat
    BY <1>1
  <2> HIDE DEF T
  <2>2. QED
    BY <1>2, <2>1, SmallestNat
<1>4. k \in Nat /\ k <= n /\ Bad(k)
  BY <1>1, <1>3
<1>5. CASE k = 0
  <2>1. SumOf(fill, {}) = 0 /\ SumOf(w, {}) = 0
    <3>1. IsFiniteSet(1 .. n)
      BY <1>1, FS_Interval
    <3>2. QED
      BY <1>1, <3>1, SumFacts
  <2>2. 1 .. k = {}
    BY <1>5
  <2>3. SumOf(fill, 1 .. k) = 0 /\ SumOf(w, 1 .. k) = 0
    BY <2>1, <2>2
  <2>4. MinOf(0, R) = 0
    BY <1>1 DEF MinOf
  <2>5. QED
    BY <1>4, <2>3, <2>4
<1>6. CASE k # 0
  <2>1. PICK j \in Nat : j = k - 1
    BY <1>4, <1>6
  <2>2. k \in 1 .. n /\ j \in 0 .. n /\ ~(k <= j)
    BY <1>1, <1>4, <1>6, <2>1
  <2>3. ~Bad(j)
    BY <1>3, <2>2
  <2>4. PICK a, x, b, y : a = SumOf(w, 1 .. j) /\ x = w[k] /\ b = SumOf(fill, 1 .. j) /\ y = fill[k]
    OBVIOUS
  <2>5. /\ a \in Nat /\ x \in Nat /\ b \in Nat /\ y \in Nat
        /\ SumOf(w, 1 .. k) = x + a /\ SumOf(fill, 1 .. k) = y + b
    <3>1. a \in Nat /\ x \in Nat /\ SumOf(w, 1 .. k) = x + a
      BY <1>1, <2>1, <2>2, <2>4, SumPrefix
    <3>2. b \in Nat /\ y \in Nat /\ SumOf(fill, 1 .. k) = y + b
      BY <1>1, <2>1, <2>2, <2>4, SumPrefix
    <3>3. QED
      BY <3>1, <3>2
  <2>6. b = MinOf(a, R)
    BY <2>3, <2>4
  <2>7. y = IF R > a THEN MinOf(R - a, x) ELSE 0
    BY <1>1, <2>1, <2>2, <2>4
  <2>8. b + y = MinOf(a + x, R)
    <3>1. MinOf(a, R) + (IF R > a THEN MinOf(R - a, x) ELSE 0) = MinOf(a + x, R)
      BY ZenonT(30), <1>1, <2>5, ClipStep
    <3>2. QED
      BY <2>6, <2>7, <3>1
  <2>9. SumOf(fill, 1 .. k) = MinOf(SumOf(w, 1 .. k), R)
    <3>1. x + a = a + x /\ y + b = b + y
      BY <2>5
    <3>2. QED
      BY <2>5, <2>8, <3>1
  <2>10. QED
    BY <1>4, <2>9
<1>7. QED
  BY <1>5, <1>6

\* What matching takes from one level.
LevelFill(bk, side, limit, qty) ==
  [p \in Price |-> SumOf(MatchFill(bk, side, limit, qty, p), DOMAIN bk[Opposite(side)][p])]

\* It is what is wanted after the levels served before, or all there is.
LEMMA LevelFillIs ==
  ASSUME NEW bk \in AnyBook, NEW side \in Side, NEW limit, NEW qty \in Nat,
         NEW s, s = Opposite(side), NEW p \in Price
  PROVE  LevelFill(bk, side, limit, qty)[p]
           = IF Crosses(side, limit, p)
             THEN MinOf(QueueQty(bk[s][p]),
                        IF qty > Liquidity(bk, s, Beyond(s, p))
                        THEN qty - Liquidity(bk, s, Beyond(s, p)) ELSE 0)
             ELSE 0
<1>1. s \in Side
  BY SideFacts
<1>2. PICK q \in Seq(Order) : q = bk[s][p]
  BY <1>1 DEF AnyBook
<1>3. PICK fill, D, w, n :
        /\ fill = MatchFill(bk, side, limit, qty, p)
        /\ D = DOMAIN q /\ w = Weights(q) /\ n = Len(q)
  OBVIOUS
<1>4. /\ D = 1 .. n /\ n \in Nat /\ IsFiniteSet(D) /\ w \in [D -> Nat] /\ QueueQty(q) = SumOf(w, D)
      /\ \A i \in D : w[i] = q[i].qty
  BY <1>3, WeightsFacts
<1>5. fill \in [D -> Nat] /\ \A i \in D : fill[i] = FillOf(bk, side, limit, qty, p, i)
  <2>1. CanGive(fill, q)
    BY <1>2, <1>3, MatchedLevel
  <2>2. QED
    BY <1>2, <1>3, <2>1 DEF CanGive, MatchFill
<1>6. LevelFill(bk, side, limit, qty)[p] = SumOf(fill, D)
  BY <1>2, <1>3 DEF LevelFill
<1>7. PICK d \in Nat : d = Liquidity(bk, s, Beyond(s, p))
  <2>1. Beyond(s, p) \in SUBSET Price
    BY DEF Beyond
  <2>2. QED
    BY <1>1, <2>1, LiquidityFacts
<1>8. CASE ~Crosses(side, limit, p)
  <2>1. \A i \in D : fill[i] = 0
    BY <1>5, <1>8 DEF FillOf
  <2>2. SumOf(fill, D) = 0
    BY <1>4, <2>1, SumOfZeros
  <2>3. QED
    BY <1>6, <1>8, <2>2
<1>9. CASE Crosses(side, limit, p)
  <2>1. PICK R \in Nat : R = IF qty > d THEN qty - d ELSE 0
    BY <1>7
  <2>2. ASSUME NEW i \in 1 .. n
        PROVE  fill[i] = IF R > SumOf(w, 1 .. i - 1) THEN MinOf(R - SumOf(w, 1 .. i - 1), w[i]) ELSE 0
    <3>1. PICK a \in Nat : a = SumOf(w, 1 .. i - 1)
      BY <1>4, SumPrefix
    <3>2. i \in DOMAIN bk[s][p]
      BY <1>2, <1>3, <1>4
    <3>3. Ahead(bk, s, p, i) = d + a
      BY <1>1, <1>2, <1>3, <1>7, <3>1, <3>2, AheadFacts
    <3>4. fill[i] = IF qty - (d + a) > 0 THEN MinOf(qty - (d + a), w[i]) ELSE 0
      <4>1. fill[i] = FillOf(bk, side, limit, qty, p, i) /\ w[i] = q[i].qty
        BY <1>4, <1>5
      <4>2. QED
        BY <1>2, <1>9, <3>3, <4>1 DEF FillOf
    <3>5. /\ R > a <=> qty - (d + a) > 0
          /\ R > a => R - a = qty - (d + a)
      BY <2>1
    <3>6. QED
      BY <3>1, <3>4, <3>5
  <2>3. Clips(fill, w, R, n)
    BY <1>4, <1>5, <2>2 DEF Clips
  <2>4. SumOf(fill, 1 .. n) = MinOf(SumOf(w, 1 .. n), R)
    BY <2>3, SumClipped
  <2>5. QED
    BY <1>2, <1>4, <1>6, <1>7, <1>9, <2>1, <2>4
<1>10. QED
  BY <1>8, <1>9

\* It is a number of each level.
LEMMA LevelFillType ==
  ASSUME NEW bk \in AnyBook, NEW side \in Side, NEW limit, NEW qty \in Nat
  PROVE  LevelFill(bk, side, limit, qty) \in [Price -> Nat]
<1>1. ASSUME NEW p \in Price PROVE LevelFill(bk, side, limit, qty)[p] \in Nat
  <2>1. PICK s \in Side : s = Opposite(side)
    BY SideFacts
  <2>2. bk[s][p] \in Seq(Order)
    BY DEF AnyBook
  <2>3. SumOf(MatchFill(bk, side, limit, qty, p), DOMAIN bk[s][p]) \in Nat
    <3>1. CanGive(MatchFill(bk, side, limit, qty, p), bk[s][p])
      BY <2>1, MatchedLevel
    <3>2. PICK r \in Seq(Order) : \E m : Survivors(r, bk[s][p], MatchFill(bk, side, limit, qty, p), m)
      BY <2>1, MatchedLevel
    <3>3. QED
      BY <2>2, <3>1, <3>2, SurvivorsQty
  <2>4. QED
    BY <2>1, <2>3 DEF LevelFill
<1>2. LevelFill(bk, side, limit, qty) = [p \in Price |-> LevelFill(bk, side, limit, qty)[p]]
  BY DEF LevelFill
<1>3. QED
  BY <1>1, <1>2

\* Every level served before one of P is in P.
Closed(s, P) == P \in SUBSET Price /\ \A p \in P : Beyond(s, p) \subseteq P

\* The last level of a closed set is served after the others, which are closed too.
LEMMA LastLevel ==
  ASSUME NEW s \in Side, NEW P, Closed(s, P), P # {}
  PROVE  \E z \in P : P \ {z} = Beyond(s, z) /\ Closed(s, P \ {z})
<1>1. P \in SUBSET Price /\ \A p \in P : Beyond(s, p) \subseteq P
  BY DEF Closed
<1>2. PICK z \in P : \A q \in P : ~Better(Opposite(s), q, z)
  BY <1>1, SideFacts, BestOfExists
<1>3. \A x \in Price : x \in Int
  BY PriceFacts
<1>4. \A q \in P : q # z <=> Better(s, q, z)
  BY <1>1, <1>2, <1>3 DEF Better, Opposite, Side
<1>5. P \ {z} = Beyond(s, z)
  BY <1>1, <1>4 DEF Beyond
<1>6. ASSUME NEW x \in P \ {z}, NEW y \in Beyond(s, x) PROVE y \in P \ {z}
  <2>1. y \in P /\ Better(s, y, x)
    BY <1>1, <1>6 DEF Beyond
  <2>2. Better(s, x, z)
    BY <1>4, <1>6
  <2>3. y # z
    BY <1>1, <1>3, <2>1, <2>2 DEF Better
  <2>4. QED
    BY <2>1, <2>3
<1>7. Closed(s, P \ {z})
  BY <1>1, <1>6 DEF Closed
<1>8. QED
  BY <1>5, <1>7

\* What matching takes from the levels up to one it has to take from.
LEMMA SweepFill ==
  ASSUME NEW bk \in AnyBook, NEW side \in Side, NEW limit, NEW qty \in Nat,
         NEW s, s = Opposite(side), NEW P, Closed(s, P), \A p \in P : Crosses(side, limit, p)
  PROVE  SumOf(LevelFill(bk, side, limit, qty), P) = MinOf(Liquidity(bk, s, P), qty)
<1>1. s \in Side /\ P \in SUBSET Price
  BY SideFacts DEF Closed
<1>2. PICK F, L : F = LevelFill(bk, side, limit, qty) /\ L = LevelQtys(bk, s)
  OBVIOUS
<1>3. F \in [Price -> Nat] /\ L \in [Price -> Nat] /\ IsFiniteSet(Price)
  BY <1>1, <1>2, LevelFillType, LiquidityFacts, PriceFinite
<1>4. \A r \in SUBSET Price : Liquidity(bk, s, r) = SumOf(L, r)
  BY <1>1, <1>2, LiquidityFacts
<1> DEFINE Good(r) == Closed(s, r) => SumOf(F, r) = MinOf(SumOf(L, r), qty)
           T == {Cardinality(r) : r \in {x \in SUBSET P : ~Good(x)}}
<1>5. /\ SumOf(F, {}) = 0 /\ SumOf(L, {}) = 0
      /\ \A r \in SUBSET Price : SumOf(F, r) \in Nat /\ SumOf(L, r) \in Nat
      /\ \A r \in SUBSET Price : \A x \in r : /\ SumOf(F, r) = F[x] + SumOf(F, r \ {x})
                                              /\ SumOf(L, r) = L[x] + SumOf(L, r \ {x})
  BY <1>3, SumFacts
<1>6. \A r \in SUBSET P : IsFiniteSet(r) /\ Cardinality(r) \in Nat
  BY <1>1, <1>3, FS_Subset, FS_CardinalityType
<1>7. ASSUME NEW r \in SUBSET P, ~Good(r), \A x \in SUBSET P : Cardinality(x) < Cardinality(r) => Good(x)
      PROVE  FALSE
  <2>1. CASE r = {}
    <3>1. SumOf(F, r) = 0 /\ SumOf(L, r) = 0
      BY <1>5, <2>1
    <3>2. MinOf(0, qty) = 0
      BY DEF MinOf
    <3>3. QED
      BY <1>7, <3>1, <3>2
  <2>2. CASE r # {}
    <3>1. Closed(s, r)
      BY <1>7
    <3>2. PICK z \in r : r \ {z} = Beyond(s, z) /\ Closed(s, r \ {z})
      BY <1>1, <2>2, <3>1, LastLevel
    <3>3. Cardinality(r \ {z}) < Cardinality(r) /\ r \ {z} \in SUBSET P
      <4>1. Cardinality(r \ {z}) = Cardinality(r) - 1
        BY <1>6, <3>2, FS_RemoveElement
      <4>2. QED
        BY <1>6, <4>1
    <3>4. SumOf(F, r \ {z}) = MinOf(SumOf(L, r \ {z}), qty)
      BY <1>7, <3>2, <3>3
    <3>5. PICK a, x, b, y : /\ a = SumOf(L, r \ {z}) /\ x = L[z]
                            /\ b = SumOf(F, r \ {z}) /\ y = F[z]
      OBVIOUS
    <3>6. r \in SUBSET Price /\ z \in Price /\ Crosses(side, limit, z)
      BY <1>1, <3>2
    <3>7. a \in Nat /\ x \in Nat /\ b \in Nat /\ y \in Nat
          /\ SumOf(L, r) = x + a /\ SumOf(F, r) = y + b
      BY <1>3, <1>5, <3>2, <3>5, <3>6
    <3>8. y = MinOf(x, IF qty > a THEN qty - a ELSE 0)
      <4>1. Liquidity(bk, s, Beyond(s, z)) = a
        BY <1>4, <3>2, <3>5, <3>6
      <4>2. QueueQty(bk[s][z]) = x
        BY <1>1, <1>2, <3>5, <3>6, LiquidityFacts
      <4>3. LevelFill(bk, side, limit, qty)[z]
              = IF Crosses(side, limit, z)
                THEN MinOf(QueueQty(bk[s][z]),
                           IF qty > Liquidity(bk, s, Beyond(s, z))
                           THEN qty - Liquidity(bk, s, Beyond(s, z)) ELSE 0)
                ELSE 0
        BY <3>6, LevelFillIs
      <4>4. QED
        BY <1>2, <3>5, <3>6, <4>1, <4>2, <4>3
    <3>9. b + y = MinOf(a + x, qty)
      <4>1. MinOf(a, qty) + MinOf(x, IF qty > a THEN qty - a ELSE 0) = MinOf(a + x, qty)
        BY <3>7, ClipAbove
      <4>2. b = MinOf(a, qty)
        BY <3>4, <3>5
      <4>3. QED
        BY <3>8, <4>1, <4>2
    <3>10. SumOf(F, r) = MinOf(SumOf(L, r), qty)
      <4>1. x + a = a + x /\ y + b = b + y
        BY <3>7
      <4>2. QED
        BY <3>7, <3>9, <4>1
    <3>11. QED
      BY <1>7, <3>10
  <2>3. QED
    BY <2>1, <2>2
<1> HIDE DEF Good
<1>8. T = {}
  <2>1. SUFFICES ASSUME T # {} PROVE FALSE
    OBVIOUS
  <2>2. T \in SUBSET Nat
    BY <1>6
  <2>3. PICK c \in T : \A d \in T : c <= d
    <3> HIDE DEF T
    <3>1. QED
      BY <2>1, <2>2, SmallestNat
  <2>4. PICK r \in SUBSET P : ~Good(r) /\ c = Cardinality(r)
    BY <2>3
  <2>5. ASSUME NEW x \in SUBSET P, Cardinality(x) < Cardinality(r) PROVE Good(x)
    <3>1. Cardinality(x) \in Nat /\ Cardinality(r) \in Nat
      BY <1>6
    <3>2. Cardinality(x) \notin T
      BY <2>3, <2>4, <2>5, <3>1
    <3>3. QED
      BY <3>2
  <2>6. QED
    BY <1>7, <2>4, <2>5
<1>9. Good(P)
  BY <1>8
<1>10. QED
  BY <1>1, <1>2, <1>4, <1>9 DEF Good

\* What matching takes is what the incoming order trades.
LEMMA SweptIsFilled ==
  ASSUME NEW bk \in AnyBook, NEW side \in Side, NEW limit \in Price, NEW qty \in Nat
  PROVE  SumOf(LevelFill(bk, side, limit, qty), Price) = Filled(bk, side, limit, qty)
<1>1. PICK s \in Side : s = Opposite(side)
  BY SideFacts
<1>2. PICK F \in [Price -> Nat] : F = LevelFill(bk, side, limit, qty)
  BY LevelFillType
<1>3. PICK P \in SUBSET Price, Q \in SUBSET Price :
        P = {p \in Price : Crosses(side, limit, p)} /\ Q = Price \ P
  OBVIOUS
<1>4. ASSUME NEW p \in P PROVE Beyond(s, p) \subseteq P
  BY <1>1, <1>3, CrossingBeyond
<1>5. Closed(s, P) /\ \A p \in P : Crosses(side, limit, p)
  BY <1>3, <1>4 DEF Closed
<1>6. SumOf(F, P) = MinOf(Liquidity(bk, s, P), qty)
  BY <1>1, <1>2, <1>5, SweepFill
<1>7. ASSUME NEW p \in Q PROVE F[p] = 0
  <2>1. ~Crosses(side, limit, p) /\ p \in Price
    BY <1>3
  <2>2. QED
    BY <1>1, <1>2, <2>1, LevelFillIs
<1>8. SumOf(F, Q) = 0
  <2>1. IsFiniteSet(Q)
    BY PriceFinite, FS_Subset
  <2>2. QED
    BY <1>7, <2>1, SumOfZeros
<1>9. SumOf(F, Price) = SumOf(F, P) + SumOf(F, Q)
  <2>1. P \cap Q = {} /\ P \cup Q = Price
    BY <1>3
  <2>2. SumOf(F, P \cup Q) = SumOf(F, P) + SumOf(F, Q)
    BY <2>1, PriceFinite, SumSplit
  <2>3. QED
    BY <2>1, <2>2
<1>10. PICK a \in Nat : a = Liquidity(bk, s, P)
  BY LiquidityFacts
<1>11. Filled(bk, side, limit, qty) = MinOf(qty, a)
  BY <1>1, <1>3, <1>10 DEF Filled
<1>12. MinOf(qty, a) = MinOf(a, qty) /\ MinOf(a, qty) \in Nat
  BY DEF MinOf
<1>13. QED
  BY <1>2, <1>6, <1>8, <1>9, <1>10, <1>11, <1>12

\* Matching takes out of the other side what the incoming order trades.
LEMMA MatchedTakes ==
  ASSUME NEW bk \in AnyBook, NEW side \in Side, NEW limit \in Price, NEW qty \in Nat,
         NEW s, s = Opposite(side)
  PROVE  Liquidity(bk, s, Price)
           = Liquidity(MatchedBook(bk, side, limit, qty), s, Price) + Filled(bk, side, limit, qty)
<1>1. s \in Side
  BY SideFacts
<1>2. PICK mb \in AnyBook : mb = MatchedBook(bk, side, limit, qty)
  BY MatchedFacts
<1>3. PICK F, L, M : /\ F = LevelFill(bk, side, limit, qty)
                     /\ L = LevelQtys(bk, s) /\ M = LevelQtys(mb, s)
  OBVIOUS
<1>4. F \in [Price -> Nat] /\ L \in [Price -> Nat] /\ M \in [Price -> Nat] /\ IsFiniteSet(Price)
  BY <1>1, <1>3, LevelFillType, LiquidityFacts, PriceFinite
<1>5. ASSUME NEW p \in Price PROVE L[p] = M[p] + F[p]
  <2>1. PICK q \in Seq(Order), r \in Seq(Order) : q = bk[s][p] /\ r = mb[s][p]
    BY <1>1 DEF AnyBook
  <2>2. PICK fill : fill = MatchFill(bk, side, limit, qty, p)
    OBVIOUS
  <2>3. CanGive(fill, q) /\ \E m : Survivors(r, q, fill, m)
    BY <1>2, <2>1, <2>2, MatchedLevel
  <2>4. QueueQty(q) = QueueQty(r) + SumOf(fill, DOMAIN q)
    BY <2>3, SurvivorsQty
  <2>5. F[p] = SumOf(fill, DOMAIN q)
    BY <1>3, <2>1, <2>2 DEF LevelFill
  <2>6. L[p] = QueueQty(q) /\ M[p] = QueueQty(r)
    BY <1>1, <1>3, <2>1, LiquidityFacts
  <2>7. QED
    BY <2>4, <2>5, <2>6
<1>6. SumOf(L, Price) = SumOf(M, Price) + SumOf(F, Price)
  BY <1>4, <1>5, SumOfBoth
<1>7. /\ SumOf(L, Price) = Liquidity(bk, s, Price) /\ SumOf(M, Price) = Liquidity(mb, s, Price)
      /\ SumOf(F, Price) = Filled(bk, side, limit, qty)
  BY <1>1, <1>3, LiquidityFacts, SweptIsFilled
<1>8. QED
  BY <1>2, <1>6, <1>7

\* Resting an order adds its quantity to its side.
LEMMA RestedAdds ==
  ASSUME NEW bk \in AnyBook, NEW side \in Side, NEW limit \in Price, NEW o \in Order
  PROVE  Liquidity(Rested(bk, side, limit, o), side, Price) = Liquidity(bk, side, Price) + o.qty
<1>1. PICK rb \in AnyBook : rb = Rested(bk, side, limit, o)
  BY RestedFacts
<1>2. o.qty \in Nat
  BY TypesAssumption DEF Order
<1>3. PICK L, M, g : /\ L = LevelQtys(bk, side) /\ M = LevelQtys(rb, side)
                     /\ g = [p \in Price |-> IF p = limit THEN o.qty ELSE 0]
  OBVIOUS
<1>4. L \in [Price -> Nat] /\ M \in [Price -> Nat] /\ IsFiniteSet(Price)
  BY <1>3, LiquidityFacts, PriceFinite
<1>5. g \in [Price -> Nat] /\ g[limit] = o.qty /\ \A p \in Price \ {limit} : g[p] = 0
  BY <1>2, <1>3
<1>6. ASSUME NEW p \in Price PROVE M[p] = L[p] + g[p]
  <2>1. PICK q \in Seq(Order) : q = bk[side][p]
    BY DEF AnyBook
  <2>2. rb[side][p] = IF p = limit THEN Append(q, o) ELSE q
    BY <1>1, <2>1, RestedFacts
  <2>3. L[p] = QueueQty(q) /\ M[p] = QueueQty(rb[side][p]) /\ L[p] \in Nat
    BY <1>3, <1>4, <2>1, LiquidityFacts
  <2>4. QueueQty(Append(q, o)) = QueueQty(q) + o.qty
    BY QueueQtyAppend
  <2>5. CASE p = limit
    BY <1>5, <2>2, <2>3, <2>4, <2>5
  <2>6. CASE p # limit
    BY <1>5, <2>2, <2>3, <2>6
  <2>7. QED
    BY <2>5, <2>6
<1>7. SumOf(M, Price) = SumOf(L, Price) + SumOf(g, Price)
  BY <1>4, <1>5, <1>6, SumOfBoth
<1>8. SumOf(g, Price) = o.qty
  <2>1. SumOf(g, Price) = g[limit] + SumOf(g, Price \ {limit})
    BY <1>4, <1>5, SumFacts
  <2>2. SumOf(g, Price \ {limit}) = 0
    <3>1. IsFiniteSet(Price \ {limit})
      BY PriceFinite, FS_Subset
    <3>2. QED
      BY <1>5, <3>1, SumOfZeros
  <2>3. QED
    BY <1>2, <1>5, <2>1, <2>2
<1>9. SumOf(L, Price) = Liquidity(bk, side, Price) /\ SumOf(M, Price) = Liquidity(rb, side, Price)
  BY <1>3, LiquidityFacts
<1>10. QED
  BY <1>1, <1>7, <1>8, <1>9

\* What an accepted order does to the quantity of both sides.
LEMMA AppliedConserves ==
  ASSUME NEW eb \in AnyBook, NEW side \in Side, NEW id \in OrderId, NEW limit \in Price,
         NEW qty \in 1 .. MaxQty, ~Has(eb, id), NEW s, s = Opposite(side),
         NEW nb, nb = AfterMatch(eb, side, id, limit, qty),
         NEW f, f = Filled(eb, side, limit, qty)
  PROVE  /\ Liquidity(nb, s, Price) = Liquidity(eb, s, Price) - f
         /\ Liquidity(nb, side, Price) = Liquidity(eb, side, Price) + qty - f
<1>1. s \in Side /\ qty \in Nat
  BY SideFacts, TypesAssumption
<1>2. f \in Nat
  BY <1>1, FilledFacts
<1>3. PICK mb \in AnyBook : mb = MatchedBook(eb, side, limit, qty) /\ mb[side] = eb[side]
  BY <1>1, MatchedFacts
<1>4. /\ nb \in AnyBook /\ nb[s] = mb[s]
      /\ \/ nb = mb
         \/ \E o \in Order : o.qty = qty - f /\ nb = Rested(mb, side, limit, o)
  BY <1>3, AfterMatchFacts
<1>5. /\ Liquidity(eb, s, Price) = Liquidity(mb, s, Price) + f
      /\ Liquidity(mb, s, Price) \in Nat /\ Liquidity(eb, s, Price) \in Nat
  BY <1>1, <1>3, MatchedTakes, LiquidityFacts
<1>6. ASSUME NEW x \in Side, NEW a \in AnyBook, NEW b \in AnyBook, a[x] = b[x]
      PROVE  Liquidity(a, x, Price) = Liquidity(b, x, Price)
  <2>1. LevelQtys(a, x) = LevelQtys(b, x)
    BY <1>6 DEF LevelQtys
  <2>2. QED
    BY <2>1, LiquidityFacts
<1>7. Liquidity(nb, s, Price) = Liquidity(mb, s, Price)
  BY <1>1, <1>3, <1>4, <1>6
<1>8. Liquidity(mb, side, Price) = Liquidity(eb, side, Price) /\ Liquidity(eb, side, Price) \in Nat
  BY <1>3, <1>6, LiquidityFacts
<1>9. Liquidity(nb, s, Price) = Liquidity(eb, s, Price) - f
  BY <1>2, <1>5, <1>7
<1>10. Liquidity(nb, side, Price) = Liquidity(eb, side, Price) + qty - f
  <2>1. CASE f = qty
    <3>1. nb = mb
      BY <1>3, <2>1 DEF AfterMatch
    <3>2. QED
      BY <1>1, <1>8, <2>1, <3>1
  <2>2. CASE f # qty
    <3>1. PICK o \in Order : o.qty = qty - f /\ nb = Rested(mb, side, limit, o)
      <4>1. CASE nb # mb
        BY <1>4, <4>1
      <4>2. PICK o : o = [id |-> id, qty |-> qty - f]
        OBVIOUS
      <4>3. nb = Rested(mb, side, limit, o)
        <5>1. qty - f # 0
          BY <1>1, <1>2, <2>2
        <5>2. QED
          BY <1>3, <4>2, <5>1 DEF AfterMatch, Rested
      <4>4. f <= qty
        BY <1>1, FilledFacts
      <4>5. qty - f \in 1 .. MaxQty
        BY <1>1, <1>2, <2>2, <4>4, TypesAssumption
      <4>6. o \in Order /\ o.qty = qty - f
        BY <4>2, <4>5 DEF Order
      <4>7. QED
        BY <4>3, <4>6
    <3>2. Liquidity(nb, side, Price) = Liquidity(mb, side, Price) + o.qty
      BY <1>3, <3>1, RestedAdds
    <3>3. QED
      BY <1>1, <1>2, <1>8, <3>1, <3>2
  <2>3. QED
    BY <2>1, <2>2
<1>11. QED
  BY <1>9, <1>10
=============================================================================
