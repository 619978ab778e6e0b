------------------------ MODULE L3LinkedListBookProofs ------------------------
(***************************************************************************)
(* Type correctness of L3LinkedListOrderBook, exactness of its lists, of   *)
(* their iterators and of the best iterators, the bound on the steps of a  *)
(* call, and the refinement of L3Book, for any numbers of orders, prices   *)
(* and quantities.                                                         *)
(***************************************************************************)
EXTENDS L3LinkedListBook, L3BookBaseProofs

\* A list of one side runs from its best price to its worst.
Sorted(s, list) == \A i, j \in DOMAIN list : i < j => Better(s, list[i], list[j])

-----------------------------------------------------------------------------
(* Lists of prices: where a node is, and what erasing and inserting one does. *)

\* A list of prices as a function on its places.
LEMMA ListFacts ==
  ASSUME NEW list \in Seq(Price)
  PROVE  /\ Len(list) \in Nat /\ DOMAIN list = 1 .. Len(list)
         /\ \A i \in 1 .. Len(list) : list[i] \in Price /\ list[i] \in Int
         /\ list = <<>> <=> Len(list) = 0
         /\ list # <<>> => Head(list) = list[1] /\ 1 \in 1 .. Len(list)
<1>1. Len(list) \in Nat /\ DOMAIN list = 1 .. Len(list) /\ (list = <<>> <=> Len(list) = 0)
  OBVIOUS
<1>2. \A i \in 1 .. Len(list) : list[i] \in Price
  BY <1>1
<1>3. \A i \in 1 .. Len(list) : list[i] \in Int
  BY <1>2, PriceFacts
<1>4. list # <<>> => Head(list) = list[1] /\ 1 \in 1 .. Len(list)
  BY <1>1
<1>5. QED
  BY <1>1, <1>2, <1>3, <1>4

\* In a sorted list no price has two nodes.
LEMMA SortedFacts ==
  ASSUME NEW s \in Side, NEW list \in Seq(Price), Sorted(s, list)
  PROVE  \A i, j \in 1 .. Len(list) : /\ list[i] = list[j] => i = j
                                      /\ Better(s, list[i], list[j]) => i < j
<1> SUFFICES ASSUME NEW i \in 1 .. Len(list), NEW j \in 1 .. Len(list)
             PROVE  /\ list[i] = list[j] => i = j
                    /\ Better(s, list[i], list[j]) => i < j
  OBVIOUS
<1>1. list[i] \in Int /\ list[j] \in Int /\ i \in Int /\ j \in Int
  BY ListFacts
<1>2. i < j => Better(s, list[i], list[j])
  BY ListFacts DEF Sorted
<1>3. j < i => Better(s, list[j], list[i])
  BY ListFacts DEF Sorted
<1>4. QED
  BY <1>1, <1>2, <1>3 DEF Better

\* The least of a non-empty set of naturals, as FiniteSetsExt defines it.
LEMMA FirstOf ==
  ASSUME NEW T \in SUBSET Nat, T # {}
  PROVE  Min(T) \in T /\ \A m \in T : Min(T) <= m
BY SmallestNat, Zenon DEF Min

\* The node of a price that is in the list is a place of the list and has that price.
LEMMA NodeAtFacts ==
  ASSUME NEW list \in Seq(Price), NEW p, Contains(list, p)
  PROVE  NodeAt(list, p) \in 1 .. Len(list) /\ list[NodeAt(list, p)] = p
<1> DEFINE I == {i \in 1 .. Len(list) : list[i] = p}
<1>1. I \in SUBSET Nat /\ I # {}
  BY DEF Contains
<1>2. NodeAt(list, p) = Min(I)
  BY <1>1 DEF NodeAt, SelectInSeq
<1>3. Min(I) \in I
  BY <1>1, FirstOf
<1>4. QED
  BY <1>2, <1>3

\* Erasing a node keeps the order of the others; the first node stays the first,
\* or the next one takes its place.
LEMMA EraseNodeFacts ==
  ASSUME NEW s \in Side, NEW list \in Seq(Price), Sorted(s, list),
         NEW p, Contains(list, p), NEW left, left = RemoveFirst(list, p)
  PROVE  /\ left \in Seq(Price) /\ Sorted(s, left) /\ Len(left) = Len(list) - 1
         /\ \A x : Contains(left, x) <=> Contains(list, x) /\ x # p
         /\ left # <<>> => Head(left) = IF Head(list) = p THEN NextNode(list, p) ELSE Head(list)
<1>1. PICK n : n = NodeAt(list, p)
  OBVIOUS
<1>2. n \in 1 .. Len(list) /\ list[n] = p /\ Len(list) \in Nat
  BY <1>1, NodeAtFacts, ListFacts
<1>3. left = RemoveAt(list, n)
  BY <1>1 DEF RemoveFirst, Contains, NodeAt
<1>4. /\ left \in Seq(Price) /\ Len(left) = Len(list) - 1
      /\ \A j \in 1 .. Len(list) - 1 : left[j] = IF j < n THEN list[j] ELSE list[j + 1]
  BY <1>2, <1>3, RemoveAtFacts
<1> DEFINE from(j) == IF j < n THEN j ELSE j + 1
<1>5. \A j \in 1 .. Len(left) : /\ from(j) \in 1 .. Len(list) /\ from(j) # n
                                /\ left[j] = list[from(j)]
  BY <1>2, <1>4
<1>6. \A j, k \in 1 .. Len(left) : j < k => from(j) < from(k)
  BY <1>2, <1>4
<1>7. \A i \in 1 .. Len(list) : i # n => \E j \in 1 .. Len(left) : from(j) = i
  <2> SUFFICES ASSUME NEW i \in 1 .. Len(list), i # n
               PROVE  \E j \in 1 .. Len(left) : from(j) = i
    OBVIOUS
  <2>1. CASE i < n
    <3>1. i \in 1 .. Len(left) /\ from(i) = i
      BY <1>2, <1>4, <2>1
    <3>2. QED
      BY <3>1
  <2>2. CASE i > n
    <3>1. i - 1 \in 1 .. Len(left) /\ from(i - 1) = i
      BY <1>2, <1>4, <2>2
    <3>2. QED
      BY <3>1
  <2>3. QED
    BY <1>2, <2>1, <2>2
<1> HIDE DEF from
<1>8. Sorted(s, left)
  <2>1. DOMAIN left = 1 .. Len(left) /\ DOMAIN list = 1 .. Len(list)
    BY <1>4, ListFacts
  <2>2. ASSUME NEW j \in 1 .. Len(left), NEW k \in 1 .. Len(left), j < k
        PROVE  Better(s, left[j], left[k])
    <3>1. from(j) < from(k) /\ from(j) \in DOMAIN list /\ from(k) \in DOMAIN list
      BY <1>5, <1>6, <2>1, <2>2
    <3>2. Better(s, list[from(j)], list[from(k)])
      BY <3>1 DEF Sorted
    <3>3. QED
      BY <1>5, <3>2
  <2>3. QED
    BY <2>1, <2>2 DEF Sorted
<1>9. ASSUME NEW x PROVE Contains(left, x) <=> Contains(list, x) /\ x # p
  <2>1. ASSUME Contains(left, x) PROVE Contains(list, x) /\ x # p
    <3>1. PICK j \in 1 .. Len(left) : left[j] = x
      BY <2>1 DEF Contains
    <3>2. from(j) \in 1 .. Len(list) /\ from(j) # n /\ list[from(j)] = x
      BY <1>5, <3>1
    <3>3. QED
      BY <1>2, <3>2, SortedFacts DEF Contains
  <2>2. ASSUME Contains(list, x), x # p PROVE Contains(left, x)
    <3>1. PICK i \in 1 .. Len(list) : list[i] = x
      BY <2>2 DEF Contains
    <3>2. PICK j \in 1 .. Len(left) : from(j) = i
      BY <1>2, <1>7, <2>2, <3>1
    <3>3. QED
      BY <1>5, <3>1, <3>2 DEF Contains
  <2>3. QED
    BY <2>1, <2>2
<1>10. ASSUME left # <<>>
       PROVE  Head(left) = IF Head(list) = p THEN NextNode(list, p) ELSE Head(list)
  <2>1. /\ Head(left) = left[1] /\ 1 \in 1 .. Len(left)
        /\ Head(list) = list[1] /\ 1 \in 1 .. Len(list)
    BY <1>2, <1>4, <1>10, ListFacts
  <2>2. left[1] = IF 1 < n THEN list[1] ELSE list[1 + 1]
    BY <1>4, <2>1
  <2>3. Head(list) = p <=> n = 1
    BY <1>2, <2>1, SortedFacts
  <2>4. CASE n = 1
    <3>1. NextNode(list, p) = list[1 + 1]
      BY <1>1, <1>2, <1>4, <2>1, <2>4 DEF NextNode
    <3>2. QED
      BY <2>1, <2>2, <2>3, <2>4, <3>1
  <2>5. CASE n # 1
    <3>1. 1 < n
      BY <1>2, <2>5
    <3>2. QED
      BY <2>1, <2>2, <2>3, <2>5, <3>1
  <2>6. QED
    BY <2>4, <2>5
<1>11. QED
  BY <1>4, <1>8, <1>9, <1>10

\* Where findOrInsertLevel() stops: everything before is better than the price,
\* nothing from there on is.
LEMMA SlotFacts ==
  ASSUME NEW s \in Side, levels[s] \in Seq(Price), Sorted(s, levels[s]), NEW p \in Price,
         NEW list, list = levels[s], NEW slot, slot = SlotOf(s, p)
  PROVE  /\ slot \in 1 .. Len(list) + 1
         /\ \A i \in 1 .. Len(list) : i < slot => Better(s, list[i], p)
         /\ \A i \in 1 .. Len(list) : i >= slot => list[i] = p \/ Better(s, p, list[i])
         /\ Found(s, p) <=> Contains(list, p)
         /\ slot \in 1 .. Len(list) /\ list[slot] # p => ~Contains(list, p)
<1> DEFINE I == {i \in 1 .. Len(list) : StopsAt(s, p, list[i])}
<1>1. /\ list \in Seq(Price) /\ Len(list) \in Nat /\ p \in Int /\ I \in SUBSET Nat
      /\ DOMAIN list = 1 .. Len(list) /\ \A i \in 1 .. Len(list) : list[i] \in Int
  BY ListFacts, PriceFacts
<1>2. slot = IF I # {} THEN Min(I) ELSE Len(list) + 1
  <2>1. CASE I # {}
    <3>1. Min(I) \in I
      BY <1>1, <2>1, FirstOf
    <3>2. SelectInSeq(levels[s], LAMBDA x : StopsAt(s, p, x)) = Min(I)
      BY <2>1 DEF SelectInSeq
    <3>3. QED
      BY <1>1, <2>1, <3>1, <3>2 DEF SlotOf
  <2>2. CASE I = {}
    BY <2>2 DEF SlotOf, SelectInSeq
  <2>3. QED
    BY <2>1, <2>2
<1>3. /\ slot \in 1 .. Len(list) + 1
      /\ \A i \in 1 .. Len(list) : i < slot => i \notin I
      /\ slot \in 1 .. Len(list) => slot \in I
  <2>1. CASE I # {}
    <3>1. Min(I) \in I /\ \A m \in I : Min(I) <= m
      BY <1>1, <2>1, FirstOf
    <3>2. slot \in I /\ \A m \in I : slot <= m
      BY <1>2, <2>1, <3>1
    <3> HIDE DEF I
    <3>3. \A i \in 1 .. Len(list) : i < slot => i \notin I
      BY <1>1, <3>2
    <3>4. slot \in 1 .. Len(list)
      BY <3>2 DEF I
    <3>5. QED
      BY <1>1, <3>2, <3>3, <3>4
  <2>2. CASE I = {}
    BY <1>1, <1>2, <2>2, SMTT(30)
  <2>3. QED
    BY <2>1, <2>2
<1>4. ASSUME NEW i \in 1 .. Len(list), i < slot PROVE Better(s, list[i], p)
  <2>1. ~StopsAt(s, p, list[i])
    BY <1>3, <1>4
  <2>2. QED
    BY <1>1, <2>1 DEF StopsAt, Better
<1>5. ASSUME NEW i \in 1 .. Len(list), i >= slot
      PROVE  /\ list[i] = p \/ Better(s, p, list[i])
             /\ i > slot => Better(s, p, list[i])
  <2>1. slot \in 1 .. Len(list)
    BY <1>1, <1>3, <1>5
  <2>2. list[slot] = p \/ Better(s, p, list[slot])
    BY <1>3, <2>1 DEF StopsAt
  <2>3. i = slot \/ Better(s, list[slot], list[i])
    BY <1>1, <1>5, <2>1, SMTT(30) DEF Sorted
  <2>4. list[i] \in Int /\ list[slot] \in Int /\ i \in Int /\ slot \in Int
    BY <1>1, <2>1
  <2>5. i > slot => Better(s, list[slot], list[i])
    BY <2>3, <2>4
  <2>6. i > slot => Better(s, p, list[i])
    BY <1>1, <2>2, <2>4, <2>5 DEF Better
  <2>7. i = slot \/ i > slot
    BY <1>5, <2>4
  <2>8. QED
    BY <2>2, <2>6, <2>7
<1>6. Contains(list, p) => slot \in 1 .. Len(list) /\ list[slot] = p
  <2> SUFFICES ASSUME NEW i \in 1 .. Len(list), list[i] = p
               PROVE  slot \in 1 .. Len(list) /\ list[slot] = p
    BY DEF Contains
  <2>1. ~Better(s, list[i], p) /\ ~Better(s, p, list[i])
    BY <1>1 DEF Better
  <2>2. ~(i < slot) /\ ~(i > slot)
    BY <1>1, <1>3, <1>4, <1>5, <2>1
  <2>3. i = slot
    BY <1>1, <1>3, <2>2
  <2>4. QED
    BY <2>3
<1>7. Found(s, p) <=> slot \in 1 .. Len(list) /\ list[slot] = p
  BY <1>1, <1>3 DEF Found
<1>8. Found(s, p) <=> Contains(list, p)
  BY <1>6, <1>7 DEF Contains
<1>9. QED
  BY <1>3, <1>4, <1>5, <1>6, <1>8

\* What a list is after a node of a new price was inserted into it.
Inserted(s, p, list, new) ==
  /\ new \in Seq(Price) /\ Sorted(s, new) /\ new # <<>>
  /\ \A x : Contains(new, x) <=> Contains(list, x) \/ x = p
  /\ Head(new) = IF list = <<>> \/ Better(s, p, Head(list)) THEN p ELSE Head(list)

\* Inserting a node where the scan stopped keeps the list sorted.
LEMMA InsertNodeFacts ==
  ASSUME NEW s \in Side, levels[s] \in Seq(Price), Sorted(s, levels[s]), NEW p \in Price,
         ~Contains(levels[s], p), NEW new, new = InsertAt(levels[s], SlotOf(s, p), p)
  PROVE  Inserted(s, p, levels[s], new)
<1>1. PICK list \in Seq(Price) : list = levels[s]
  OBVIOUS
<1>2. PICK n : n = SlotOf(s, p)
  OBVIOUS
<1>3. /\ Len(list) \in Nat /\ n \in 1 .. Len(list) + 1 /\ DOMAIN list = 1 .. Len(list)
      /\ \A i \in 1 .. Len(list) : i < n => Better(s, list[i], p)
      /\ \A i \in 1 .. Len(list) : i >= n => Better(s, p, list[i])
  <2>1. /\ n \in 1 .. Len(list) + 1
        /\ \A i \in 1 .. Len(list) : i < n => Better(s, list[i], p)
        /\ \A i \in 1 .. Len(list) : i >= n => list[i] = p \/ Better(s, p, list[i])
    BY <1>1, <1>2, SlotFacts
  <2>2. \A i \in 1 .. Len(list) : list[i] # p
    BY <1>1 DEF Contains
  <2>3. QED
    BY <2>1, <2>2, ListFacts
<1> DEFINE a == SubSeq(list, 1, n - 1)
           b == SubSeq(list, n, Len(list))
           one == <<p>>
<1>4. /\ a \in Seq(Price) /\ Len(a) = n - 1
      /\ \A j \in 1 .. n - 1 : a[j] = list[j]
  BY <1>3, SubSeqProperties
<1>5. /\ b \in Seq(Price) /\ Len(b) = Len(list) - n + 1
      /\ \A j \in 1 .. Len(list) - n + 1 : b[j] = list[j + n - 1]
  BY <1>3, SubSeqProperties
<1>6. one \in Seq(Price) /\ Len(one) = 1 /\ one[1] = p
  OBVIOUS
<1>7. new = (a \o one) \o b
  BY <1>1, <1>2 DEF InsertAt
<1> HIDE DEF a, b, one
<1>8. /\ a \o one \in Seq(Price) /\ Len(a \o one) = n
      /\ \A j \in 1 .. n : (a \o one)[j] = IF j < n THEN list[j] ELSE p
  <2>1. /\ a \o one \in Seq(Price) /\ Len(a \o one) = Len(a) + Len(one)
        /\ \A j \in 1 .. Len(a) + Len(one) :
             (a \o one)[j] = IF j <= Len(a) THEN a[j] ELSE one[j - Len(a)]
    BY <1>4, <1>6, ConcatProperties
  <2>2. Len(a) + Len(one) = n
    BY <1>3, <1>4, <1>6
  <2>3. ASSUME NEW j \in 1 .. n PROVE (a \o one)[j] = IF j < n THEN list[j] ELSE p
    <3>1. (a \o one)[j] = IF j <= n - 1 THEN a[j] ELSE one[j - (n - 1)]
      BY <1>4, <2>1, <2>2
    <3>2. CASE j < n
      BY <1>3, <1>4, <3>1, <3>2
    <3>3. CASE ~(j < n)
      <4>1. j - (n - 1) = 1
        BY <1>3, <3>3
      <4>2. QED
        BY <1>3, <1>6, <3>1, <3>3, <4>1
    <3>4. QED
      BY <3>2, <3>3
  <2>4. QED
    BY <2>1, <2>2, <2>3
<1>9. PICK c \in Seq(Price) : c = a \o one
  BY <1>8
<1>10. /\ new \in Seq(Price) /\ Len(new) = Len(list) + 1
       /\ \A j \in 1 .. Len(list) + 1 :
            new[j] = IF j < n THEN list[j] ELSE IF j = n THEN p ELSE list[j - 1]
  <2> PICK d \in Seq(Price) : d = b
    BY <1>5
  <2>1. /\ c \o d \in Seq(Price) /\ Len(c \o d) = Len(c) + Len(d)
        /\ \A j \in 1 .. Len(c) + Len(d) :
             (c \o d)[j] = IF j <= Len(c) THEN c[j] ELSE d[j - Len(c)]
    BY ConcatProperties
  <2>2. Len(c) = n /\ Len(c) + Len(d) = Len(list) + 1
    <3>1. Len(c) = n
      BY <1>8, <1>9
    <3>2. Len(d) = Len(list) - n + 1
      BY <1>5
    <3>3. QED
      BY <1>3, <3>1, <3>2
  <2>3. ASSUME NEW j \in 1 .. Len(list) + 1
        PROVE  new[j] = IF j < n THEN list[j] ELSE IF j = n THEN p ELSE list[j - 1]
    <3>1. new[j] = IF j <= n THEN c[j] ELSE d[j - n]
      BY <1>7, <1>9, <2>1, <2>2
    <3>2. CASE j <= n
      <4>1. j \in 1 .. n
        BY <1>3, <3>2
      <4>2. QED
        BY <1>3, <1>8, <1>9, <3>1, <3>2, <4>1
    <3>3. CASE ~(j <= n)
      <4>1. j - n \in 1 .. Len(list) - n + 1 /\ (j - n) + n - 1 = j - 1
        BY <1>3, <3>3
      <4>2. d[j - n] = list[j - 1]
        BY <1>5, <4>1
      <4>3. QED
        BY <1>3, <3>1, <3>3, <4>2
    <3>4. QED
      BY <3>2, <3>3
  <2>4. QED
    BY <1>7, <1>9, <2>1, <2>2, <2>3
<1>11. DOMAIN new = 1 .. Len(list) + 1 /\ new # <<>> /\ Head(new) = new[1]
  BY <1>3, <1>10, ListFacts
<1>12. Sorted(s, new)
  <2> SUFFICES ASSUME NEW j \in 1 .. Len(list) + 1, NEW k \in 1 .. Len(list) + 1, j < k
               PROVE  Better(s, new[j], new[k])
    BY <1>11 DEF Sorted
  <2>1. CASE j < n /\ k < n
    <3>1. j \in DOMAIN list /\ k \in DOMAIN list
      BY <1>3, <2>1
    <3>2. QED
      BY <1>1, <1>10, <2>1, <3>1 DEF Sorted
  <2>2. CASE j < n /\ k = n
    <3>1. j \in 1 .. Len(list)
      BY <1>3, <2>2
    <3>2. QED
      BY <1>3, <1>10, <2>2, <3>1
  <2>3. CASE j < n /\ k > n
    <3>1. j \in DOMAIN list /\ k - 1 \in DOMAIN list /\ j < k - 1
      BY <1>3, <2>3
    <3>2. new[j] = list[j] /\ new[k] = list[k - 1]
      BY <1>3, <1>10, <2>3
    <3>3. QED
      BY <1>1, <3>1, <3>2 DEF Sorted
  <2>4. CASE j = n
    <3>1. k - 1 \in 1 .. Len(list) /\ k - 1 >= n /\ k > n
      BY <1>3, <2>4
    <3>2. new[j] = p /\ new[k] = list[k - 1]
      BY <1>3, <1>10, <2>4, <3>1
    <3>3. QED
      BY <1>3, <3>1, <3>2
  <2>5. CASE j > n
    <3>1. j - 1 \in DOMAIN list /\ k - 1 \in DOMAIN list /\ j - 1 < k - 1
      BY <1>3, <2>5
    <3>2. new[j] = list[j - 1] /\ new[k] = list[k - 1]
      BY <1>3, <1>10, <2>5
    <3>3. QED
      BY <1>1, <3>1, <3>2 DEF Sorted
  <2>6. QED
    BY <1>3, <2>1, <2>2, <2>3, <2>4, <2>5
<1>13. ASSUME NEW x PROVE Contains(new, x) <=> Contains(list, x) \/ x = p
  <2>1. ASSUME Contains(new, x) PROVE Contains(list, x) \/ x = p
    <3>1. PICK j \in 1 .. Len(list) + 1 : new[j] = x
      BY <1>10, <2>1 DEF Contains
    <3>2. CASE j < n
      <4>1. j \in 1 .. Len(list) /\ list[j] = x
        BY <1>3, <1>10, <3>1, <3>2
      <4>2. QED
        BY <4>1 DEF Contains
    <3>3. CASE j = n
      BY <1>10, <3>1, <3>3
    <3>4. CASE j > n
      <4>1. j - 1 \in 1 .. Len(list) /\ list[j - 1] = x
        BY <1>3, <1>10, <3>1, <3>4
      <4>2. QED
        BY <4>1 DEF Contains
    <3>5. QED
      BY <1>3, <3>2, <3>3, <3>4
  <2>2. ASSUME Contains(list, x) PROVE Contains(new, x)
    <3>1. PICK i \in 1 .. Len(list) : list[i] = x
      BY <2>2 DEF Contains
    <3>2. CASE i < n
      <4>1. i \in 1 .. Len(new) /\ new[i] = x
        BY <1>3, <1>10, <3>1, <3>2
      <4>2. QED
        BY <4>1 DEF Contains
    <3>3. CASE i >= n
      <4>1. /\ i + 1 \in 1 .. Len(list) + 1 /\ (i + 1) - 1 = i
            /\ ~(i + 1 < n) /\ i + 1 # n
        BY <1>3, <3>3
      <4>2. new[i + 1] = list[(i + 1) - 1]
        BY <1>10, <4>1
      <4>3. i + 1 \in 1 .. Len(new) /\ new[i + 1] = x
        BY <1>10, <3>1, <4>1, <4>2
      <4>4. QED
        BY <4>3 DEF Contains
    <3>4. QED
      BY <1>3, <3>2, <3>3
  <2>3. Contains(new, p)
    <3>1. n \in 1 .. Len(new) /\ new[n] = p
      BY <1>3, <1>10
    <3>2. QED
      BY <3>1 DEF Contains
  <2>4. QED
    BY <2>1, <2>2, <2>3
<1>14. Head(new) = IF list = <<>> \/ Better(s, p, Head(list)) THEN p ELSE Head(list)
  <2>1. 1 \in 1 .. Len(list) + 1
    BY <1>3
  <2>2. CASE list = <<>>
    <3>1. n = 1
      BY <1>3, <2>2, ListFacts
    <3>2. QED
      BY <1>10, <1>11, <2>1, <2>2, <3>1
  <2>3. CASE list # <<>>
    <3>1. Head(list) = list[1] /\ 1 \in 1 .. Len(list) /\ list[1] \in Int /\ p \in Int
      BY <2>3, ListFacts, PriceFacts
    <3>2. CASE n = 1
      BY <1>3, <1>10, <1>11, <2>1, <3>1, <3>2
    <3>3. CASE n # 1
      <4>1. 1 < n
        BY <1>3, <3>3
      <4>2. Better(s, list[1], p) /\ new[1] = list[1]
        BY <1>3, <1>10, <2>1, <3>1, <4>1
      <4>3. ~Better(s, p, list[1])
        BY <3>1, <4>2 DEF Better
      <4>4. QED
        BY <1>11, <2>3, <3>1, <4>2, <4>3
    <3>4. QED
      BY <3>2, <3>3
  <2>4. QED
    BY <2>2, <2>3
<1>15. QED
  BY <1>1, <1>10, <1>11, <1>12, <1>13, <1>14 DEF Inserted

\* The first node of a sorted list has the best price of its nodes.
LEMMA HeadIsBest ==
  ASSUME NEW s \in Side, NEW list \in Seq(Price), Sorted(s, list), NEW P \in SUBSET Price,
         \A x \in Price : Contains(list, x) <=> x \in P
  PROVE  /\ list = <<>> <=> P = {}
         /\ list # <<>> => Head(list) = BestOf(s, P)
<1>1. /\ Len(list) \in Nat /\ DOMAIN list = 1 .. Len(list) /\ (list = <<>> <=> Len(list) = 0)
      /\ \A i \in 1 .. Len(list) : list[i] \in Price /\ list[i] \in Int
      /\ list # <<>> => Head(list) = list[1] /\ 1 \in 1 .. Len(list)
  BY ListFacts
<1>2. list = <<>> => P = {}
  BY <1>1 DEF Contains
<1>3. ASSUME list # <<>> PROVE Head(list) \in P /\ Head(list) = BestOf(s, P)
  <2>1. Head(list) = list[1] /\ list[1] \in P /\ 1 \in 1 .. Len(list)
    BY <1>1, <1>3 DEF Contains
  <2>2. ASSUME NEW x \in P PROVE ~Better(s, x, list[1])
    <3>1. PICK i \in 1 .. Len(list) : list[i] = x
      BY DEF Contains
    <3>2. i = 1 \/ Better(s, list[1], list[i])
      BY <1>1, <2>1 DEF Sorted
    <3>3. QED
      BY <1>1, <2>1, <3>1, <3>2 DEF Better
  <2>3. QED
    BY <2>1, <2>2, BestOfUnique
<1>4. QED
  BY <1>2, <1>3

\* A sorted list is no longer than there are prices.
LEMMA SortedBounded ==
  ASSUME NEW s \in Side, NEW list \in Seq(Price), Sorted(s, list)
  PROVE  Len(list) <= MaxPriceTick - MinPriceTick + 1 + 2 * PriceMargin
<1> DEFINE lo == MinPriceTick - PriceMargin
           hi == MaxPriceTick + PriceMargin
<1>1. lo \in Int /\ hi \in Int /\ lo <= hi /\ Len(list) \in Nat
  BY PriceFacts, ListFacts, TypesAssumption
<1>2. IsFiniteSet(Price) /\ Cardinality(Price) = hi - lo + 1
  BY <1>1, FS_Interval DEF Price
<1>3. list \in Injection(1 .. Len(list), Price)
  <2>1. list \in [1 .. Len(list) -> Price]
    OBVIOUS
  <2>2. \A i, j \in 1 .. Len(list) : list[i] = list[j] => i = j
    BY SortedFacts
  <2>3. QED
    BY <2>1, <2>2 DEF Injection, IsInjective
<1>4. Cardinality(1 .. Len(list)) <= Cardinality(Price)
  BY <1>2, <1>3, FS_Injection
<1>5. Cardinality(1 .. Len(list)) = Len(list)
  <2>1. 1 \in Int /\ Len(list) \in Int
    BY <1>1
  <2>2. Cardinality(1 .. Len(list)) = IF 1 > Len(list) THEN 0 ELSE Len(list) - 1 + 1
    BY <2>1, FS_Interval
  <2>3. QED
    BY <1>1, <2>2
<1>6. QED
  BY <1>1, <1>2, <1>4, <1>5, TypesAssumption
-----------------------------------------------------------------------------
(* The inductive invariant. *)

\* The nodes are the standing levels.
NodesExact == \A s \in Side, p \in Price : Contains(levels[s], p) <=> p \in Standing(s)

ListsSorted == \A s \in Side : Sorted(s, levels[s])

IInv ==
  /\ BaseInv
  /\ levels \in [Side -> Seq(Price)]
  /\ best \in [Side -> Price \cup {None}]
  /\ ListsSorted
  /\ NodesExact
  /\ BestIsFirst

\* A side's best iterator points at its best standing level, or at end().
LEMMA BestNode ==
  ASSUME IInv, NEW s \in Side
  PROVE  /\ levels[s] = <<>> <=> Standing(s) = {}
         /\ best[s] = None <=> Standing(s) = {}
         /\ Standing(s) # {} => best[s] = BestOf(s, Standing(s)) /\ best[s] \in Price
<1>1. PICK list \in Seq(Price) : list = levels[s]
  BY DEF IInv
<1>2. Sorted(s, list) /\ (\A x \in Price : Contains(list, x) <=> x \in Standing(s))
      /\ Standing(s) \in SUBSET Price
  BY <1>1 DEF IInv, ListsSorted, NodesExact, Standing
<1>3. /\ list = <<>> <=> Standing(s) = {}
      /\ list # <<>> => Head(list) = BestOf(s, Standing(s))
  BY <1>2, HeadIsBest
<1>4. best[s] = IF list = <<>> THEN None ELSE Head(list)
  BY <1>1 DEF IInv, BestIsFirst
<1>5. list # <<>> => BestOf(s, Standing(s)) \in Price
  BY <1>2, <1>3, BestOfExists
<1>6. QED
  BY <1>1, <1>3, <1>4, <1>5, NoneAssumption
-----------------------------------------------------------------------------
(* Erasing a level and erasing an order, wherever in a call that happens. *)

\* Erasing an emptied level leaves the best iterator on the first node left.
LEMMA EraseEmptyLevelFacts ==
  ASSUME IInv, NEW s \in Side, NEW p \in Standing(s), NEW t \in Tally, EraseEmptyLevel(s, p, t)
  PROVE  /\ levels' \in [Side -> Seq(Price)]
         /\ best' \in [Side -> Price \cup {None}]
         /\ ListsSorted'
         /\ \A x \in Price : Contains(levels'[s], x) <=> x \in Standing(s) \ {p}
         /\ \A o \in Side : o # s => levels'[o] = levels[o]
         /\ Len(levels'[s]) = Len(levels[s]) - 1
         /\ BestIsFirst'
         /\ tally' \in Tally
         /\ tally'.crossing_new_orders = t.crossing_new_orders
         /\ tally'.crossing_modify_orders = t.crossing_modify_orders
<1>1. /\ levels \in [Side -> Seq(Price)] /\ best \in [Side -> Price \cup {None}]
      /\ p \in Price
      /\ \A x \in Price : Contains(levels[s], x) <=> x \in Standing(s)
      /\ \A o \in Side : /\ Sorted(o, levels[o])
                          /\ best[o] = IF levels[o] = <<>> THEN None ELSE Head(levels[o])
  BY DEF IInv, ListsSorted, NodesExact, BestIsFirst, Standing
<1>2. PICK list \in Seq(Price) : list = levels[s]
  BY <1>1
<1>3. PICK left : left = RemoveFirst(list, p)
  OBVIOUS
<1>4. Sorted(s, list) /\ Contains(list, p)
  BY <1>1, <1>2
<1>5. /\ left \in Seq(Price) /\ Sorted(s, left) /\ Len(left) = Len(list) - 1
      /\ \A x : Contains(left, x) <=> Contains(list, x) /\ x # p
      /\ left # <<>> => Head(left) = IF Head(list) = p THEN NextNode(list, p) ELSE Head(list)
  BY <1>3, <1>4, EraseNodeFacts
<1>6. list # <<>>
  BY <1>4 DEF Contains
<1>7. best[s] = Head(list)
  BY <1>1, <1>2, <1>6
<1>8. PICK first : first = IF left = <<>> THEN None ELSE Head(left)
  OBVIOUS
<1>9. first \in Price \cup {None}
  <2>1. left # <<>> => Head(left) \in Price
    BY <1>5, ListFacts
  <2>2. QED
    BY <1>8, <2>1
<1>10. /\ levels' = [levels EXCEPT ![s] = left]
       /\ tally' = IF best[s] = p THEN Invalidated(t, s) ELSE t
       /\ best' = [best EXCEPT ![s] = first]
  <2>1. first = IF left = <<>> THEN None
                ELSE IF best[s] = p THEN NextNode(list, p) ELSE best[s]
    BY <1>5, <1>7, <1>8
  <2>2. QED
    BY <1>2, <1>3, <2>1 DEF EraseEmptyLevel
<1>11. /\ levels' \in [Side -> Seq(Price)] /\ levels'[s] = left
       /\ \A o \in Side : o # s => levels'[o] = levels[o]
       /\ best' \in [Side -> Price \cup {None}] /\ best'[s] = first
       /\ \A o \in Side : o # s => best'[o] = best[o]
  BY <1>1, <1>5, <1>9, <1>10
<1>12. ListsSorted'
  BY <1>1, <1>5, <1>11 DEF ListsSorted
<1>13. BestIsFirst'
  BY <1>1, <1>8, <1>11 DEF BestIsFirst
<1>14. /\ tally' \in Tally
       /\ tally'.crossing_new_orders = t.crossing_new_orders
       /\ tally'.crossing_modify_orders = t.crossing_modify_orders
  BY <1>10, TallyFacts
<1>15. QED
  BY <1>1, <1>2, <1>5, <1>11, <1>12, <1>13, <1>14

\* Erasing an order through its reference keeps queues, lists and iterators in step.
LEMMA EraseByRefKeeps ==
  ASSUME IInv, NEW id \in OrderId, NEW t \in Tally, refs[id] # None, EraseByRef(id, t),
         t.crossing_new_orders = 0, t.crossing_modify_orders = 0,
         ErasingCall(id, refs[id].side)
  PROVE  IInv'
<1>1. PICK s \in Side, p \in Price : RefIs(id, s, p)
  BY RefExists DEF IInv
<1>2. PICK left : left = Unlinked(orders[s][p], id)
  OBVIOUS
<1>3. /\ refs[id].side = s /\ refs[id].price = p /\ p \in Standing(s)
      /\ QueueQty(left) = total[s][p] - orders[s][p][NodeOf(orders[s][p], id)].qty
  BY <1>1, <1>2, RefFacts DEF IInv
<1>4. /\ RefDropped(id)
      /\ LevelBecomes(s, p, left)
      /\ left = <<>> => EraseEmptyLevel(s, p, t)
      /\ left # <<>> => tally' = t /\ UNCHANGED <<levels, best>>
  BY <1>2, <1>3 DEF EraseByRef, LevelBecomes, RefDropped
<1>5. /\ tally' \in Tally
      /\ tally'.crossing_new_orders = 0 /\ tally'.crossing_modify_orders = 0
  BY <1>3, <1>4, EraseEmptyLevelFacts
<1>6. /\ BaseInv'
      /\ Standing(s)' = IF left = <<>> THEN Standing(s) \ {p} ELSE Standing(s)
      /\ \A r \in Side : r # s => Standing(r)' = Standing(r)
  <2>1. BaseInv /\ ErasingCall(id, s)
    BY <1>3 DEF IInv
  <2>2. QED
    BY <1>1, <1>2, <1>4, <1>5, <2>1, EraseKeeps
<1>7. CASE left = <<>>
  <2>1. /\ levels' \in [Side -> Seq(Price)]
        /\ best' \in [Side -> Price \cup {None}]
        /\ ListsSorted'
        /\ \A x \in Price : Contains(levels'[s], x) <=> x \in Standing(s) \ {p}
        /\ \A o \in Side : o # s => levels'[o] = levels[o]
        /\ BestIsFirst'
    BY <1>3, <1>4, <1>7, EraseEmptyLevelFacts
  <2>2. NodesExact'
    BY <1>6, <1>7, <2>1 DEF IInv, NodesExact
  <2>3. QED
    BY <1>6, <2>1, <2>2 DEF IInv
<1>8. CASE left # <<>>
  <2>1. UNCHANGED <<levels, best>>
    BY <1>4, <1>8
  <2>2. \A r \in Side : Standing(r)' = Standing(r)
    BY <1>6, <1>8
  <2>3. NodesExact' /\ ListsSorted' /\ BestIsFirst'
    BY <2>1, <2>2 DEF IInv, NodesExact, ListsSorted, BestIsFirst
  <2>4. QED
    BY <1>6, <2>1, <2>3 DEF IInv
<1>9. QED
  BY <1>7, <1>8
-----------------------------------------------------------------------------
(* Every step keeps the invariant: first the steps that leave the lists alone. *)

\* A step that touches neither the lists nor the standing levels keeps the invariant.
LEMMA ListsKept ==
  ASSUME IInv, UNCHANGED <<levels, best>>, BaseInv',
         \A s \in Side : Standing(s)' = Standing(s)
  PROVE  IInv'
<1>1. NodesExact' /\ ListsSorted' /\ BestIsFirst'
  BY DEF IInv, NodesExact, ListsSorted, BestIsFirst
<1>2. QED
  BY <1>1 DEF IInv

\* A message that starts a new order keeps the invariant (apply, case New).
LEMMA NewStep ==
  ASSUME IInv, NEW s \in Side, NEW id \in OrderId \cup {ZeroId}, NEW p \in Price,
         NEW q \in Qty, New(s, id, p, q)
  PROVE  IInv'
<1>1. BeginNew(s, id, p, q) /\ UNCHANGED <<levels, best>>
  BY DEF New
<1>2. BaseInv' /\ \A r \in Side : Standing(r)' = Standing(r)
  BY <1>1, BeginNewKeeps DEF IInv
<1>3. QED
  BY <1>1, <1>2, ListsKept

\* A message that changes nothing keeps the invariant: a trade, a cancel or modify of an
\* unknown order.
LEMMA NothingStep ==
  ASSUME IInv, BeginNothing, UNCHANGED <<levels, best>>
  PROVE  IInv'
<1>1. BaseInv' /\ \A r \in Side : Standing(r)' = Standing(r)
  BY BeginNothingKeeps DEF IInv
<1>2. QED
  BY <1>1, ListsKept

\* A call that returns, refused or with nothing left to do, keeps the invariant.
LEMMA ReturnStep ==
  ASSUME IInv, Refuse \/ Done
  PROVE  IInv'
<1>1. /\ pc \in {"applyNew", "match"} /\ Return
      /\ UNCHANGED <<orders, total, refs, tally, levels, best>>
  BY DEF Refuse, Done, Matched
<1>2. BaseInv' /\ \A r \in Side : Standing(r)' = Standing(r)
  BY <1>1, ReturnKeeps DEF IInv
<1>3. QED
  BY <1>1, <1>2, ListsKept

\* Entering matchIncoming() keeps the invariant.
LEMMA StartMatchStep ==
  ASSUME IInv, StartMatch
  PROVE  IInv'
<1>1. PICK crosses \in BOOLEAN : crosses = WouldCross(call.side, call.price)
  BY DEF WouldCross
<1>2. /\ BeginMatch(crosses) /\ call.id # ZeroId /\ ~HasOrder(call.id)
      /\ UNCHANGED <<levels, best>>
  BY <1>1 DEF StartMatch, Applicable
<1>3. BaseInv' /\ \A r \in Side : Standing(r)' = Standing(r)
  BY <1>2, BeginMatchKeeps DEF IInv
<1>4. QED
  BY <1>2, <1>3, ListsKept
-----------------------------------------------------------------------------
(* The steps that erase one order. *)

\* eraseOrder() for a cancel keeps the invariant.
LEMMA CancelStep ==
  ASSUME IInv, NEW id, Cancel(id)
  PROVE  IInv'
<1>1. /\ pc = "idle" /\ UNCHANGED <<pc, call>>
      /\ id \in OrderId /\ refs[id] # None /\ EraseByRef(id, ZeroTally)
  BY DEF Cancel, HasOrder
<1>2. QED
  BY <1>1, EraseByRefKeeps, TallyFacts DEF ErasingCall

\* The erasure with which a modify begins keeps the invariant.
LEMMA ModifyStep ==
  ASSUME IInv, NEW id \in OrderId, NEW p \in Price, NEW q \in Qty, Modify(id, p, q)
  PROVE  IInv'
<1>1. /\ pc = "idle" /\ EnterApplyNew(refs[id].side, id, p, q, FALSE)
      /\ refs[id] # None /\ EraseByRef(id, ZeroTally)
  BY DEF Modify, HasOrder
<1>2. QED
  BY <1>1, EraseByRefKeeps, TallyFacts DEF ErasingCall

\* applyNew() of an id that rests in the book, which erases it first, keeps the invariant.
LEMMA ReplaceStep ==
  ASSUME IInv, Replace
  PROVE  IInv'
<1>1. /\ pc = "applyNew" /\ UNCHANGED <<pc, call>>
      /\ call.id \in OrderId /\ refs[call.id] # None /\ EraseByRef(call.id, tally)
      /\ tally \in Tally /\ tally.crossing_new_orders = 0 /\ tally.crossing_modify_orders = 0
  BY DEF IInv, BaseInv, BaseTypeOK, CallSound, Replace, Applicable, HasOrder
<1>2. PICK id \in OrderId : id = call.id
  BY <1>1
<1>3. PICK t \in Tally : t = tally
  BY <1>1
<1>4. ErasingCall(id, refs[id].side)
  BY <1>1 DEF ErasingCall
<1>5. QED
  BY <1>1, <1>2, <1>3, <1>4, EraseByRefKeeps
-----------------------------------------------------------------------------
(* The steps of matchIncoming() and consumeLevel(). *)

\* Turning to the best opposite level keeps the invariant.
LEMMA MatchLevelStep ==
  ASSUME IInv, MatchLevel
  PROVE  IInv'
<1>1. PICK r \in Side : r = Opposite(call.side)
  BY SideFacts DEF IInv, BaseInv, BaseTypeOK, Call, MatchLevel, BeginConsume
<1>2. Standing(r) # {} /\ BeginConsume(BestOf(r, Standing(r))) /\ UNCHANGED <<levels, best>>
  BY <1>1, BestNode DEF MatchLevel, WouldCross
<1>3. BaseInv' /\ \A s \in Side : Standing(s)' = Standing(s)
  BY <1>1, <1>2, BeginConsumeKeeps DEF IInv
<1>4. QED
  BY <1>2, <1>3, ListsKept

\* One iteration of consumeLevel() keeps the invariant.
LEMMA FillStep ==
  ASSUME IInv, Fill
  PROVE  IInv'
<1>1. BaseInv' /\ \A s \in Side : Standing(s)' = Standing(s)
  BY FillFrontKeeps DEF IInv, Fill
<1>2. QED
  BY <1>1, ListsKept DEF Fill

\* Leaving consumeLevel(), which erases a level it has emptied, keeps the invariant.
LEMMA LeaveLevelStep ==
  ASSUME IInv, LeaveLevel
  PROVE  IInv'
<1>1. PICK r, p : r = Opposite(call.side) /\ p = call.at
  OBVIOUS
<1>2. PICK t \in Tally : t = tally
  BY DEF IInv, BaseInv, BaseTypeOK
<1>3. pc = "consume" /\ pc' = "match" /\ UNCHANGED <<orders, total, refs, call>>
  BY DEF LeaveLevel
<1>4. r \in Side /\ p \in Standing(r)
  BY <1>1, <1>3, ConsumeFacts DEF IInv
<1>5. CASE orders[r][p] = <<>>
  <2>1. EraseEmptyLevel(r, p, t)
    BY <1>1, <1>2, <1>5 DEF LeaveLevel
  <2>2. /\ levels' \in [Side -> Seq(Price)]
        /\ best' \in [Side -> Price \cup {None}]
        /\ ListsSorted'
        /\ \A x \in Price : Contains(levels'[r], x) <=> x \in Standing(r) \ {p}
        /\ \A o \in Side : o # r => levels'[o] = levels[o]
        /\ BestIsFirst'
        /\ tally' \in Tally
    BY <1>4, <2>1, EraseEmptyLevelFacts
  <2>3. /\ BaseInv'
        /\ Standing(r)' = Standing(r) \ {p}
        /\ \A s \in Side : s # r => Standing(s)' = Standing(s)
    BY <1>1, <1>3, <1>5, <2>2, LeaveKeeps DEF IInv
  <2>4. NodesExact'
    BY <2>2, <2>3 DEF IInv, NodesExact
  <2>5. QED
    BY <2>2, <2>3, <2>4 DEF IInv
<1>6. CASE orders[r][p] # <<>>
  <2>1. UNCHANGED <<tally, levels, best>>
    BY <1>1, <1>6 DEF LeaveLevel
  <2>2. BaseInv' /\ \A s \in Side : Standing(s)' = Standing(s)
    BY <1>1, <1>2, <1>3, <1>6, <2>1, LeaveKeeps DEF IInv
  <2>3. QED
    BY <2>1, <2>2, ListsKept
<1>7. QED
  BY <1>5, <1>6

\* Resting what is left: matching has ended because the best opposite node is
\* out of reach, so the order's level crosses none.
LEMMA RestStep ==
  ASSUME IInv, Rest
  PROVE  IInv'
<1>1. /\ pc = "match" /\ call \in Call /\ call.rem > 0 /\ Return /\ tally' = tally
      /\ ~WouldCross(call.side, call.price)
      /\ levels \in [Side -> Seq(Price)] /\ best \in [Side -> Price \cup {None}]
      /\ \A o \in Side : /\ ~Consuming(o) /\ Sorted(o, levels[o])
                          /\ best[o] = IF levels[o] = <<>> THEN None ELSE Head(levels[o])
      /\ \A o \in Side, x \in Price : Contains(levels[o], x) <=> x \in Standing(o)
  BY DEF IInv, BaseInv, BaseTypeOK, NodesExact, ListsSorted, BestIsFirst, Consuming, Rest, Matched
<1>2. PICK s \in Side : s = call.side
  BY <1>1 DEF Call
<1>3. PICK p \in Price : p = call.price
  BY <1>1 DEF Call
<1>4. PICK list \in Seq(Price) : list = levels[s]
  BY <1>1
<1>5. Sorted(s, list) /\ levels[s] \in Seq(Price) /\ Sorted(s, levels[s])
  BY <1>1, <1>4
<1>6. PICK found \in BOOLEAN : found = Found(s, p)
  BY DEF Found
<1>7. found <=> p \in Standing(s)
  BY <1>1, <1>4, <1>5, <1>6, SlotFacts
<1>8. ~found => orders[s][p] = <<>> /\ total[s][p] = 0
  <2>1. ~found => orders[s][p] = <<>>
    BY <1>7 DEF Standing
  <2>2. QED
    BY <2>1, QueueQtyFacts DEF IInv, BaseInv, TotalsExact
<1>9. call.rem + (IF found THEN total[s][p] ELSE 0) = total[s][p] + call.rem
  <2>1. total[s][p] \in Int /\ call.rem \in Int
    BY <1>1, TypesAssumption DEF IInv, BaseInv, BaseTypeOK, Call, Qty
  <2>2. QED
    BY <1>8, <2>1
<1>10. PICK new : new = InsertAt(list, SlotOf(s, p), p)
  OBVIOUS
<1>11. /\ OrderRests(s, p)
       /\ levels' = IF found THEN levels ELSE [levels EXCEPT ![s] = new]
       /\ best' = IF best[s] = None \/ Better(s, p, best[s])
                  THEN [best EXCEPT ![s] = p] ELSE best
  BY <1>1, <1>2, <1>3, <1>4, <1>6, <1>8, <1>9, <1>10
  DEF Rest, OrderRests, RefBecomes, BestAfterRest
<1>12. \A x \in Standing(Opposite(call.side)) : ~Crosses(call.side, call.price, x)
  <2>1. CASE Standing(Opposite(s)) = {}
    BY <1>2, <2>1
  <2>2. CASE Standing(Opposite(s)) # {}
    <3>1. ~Crosses(s, p, BestOf(Opposite(s), Standing(Opposite(s))))
      BY <1>1, <1>2, <1>3, <2>2, SideFacts, BestNode DEF WouldCross
    <3>2. Standing(Opposite(s)) \in SUBSET Price
      BY DEF Standing
    <3>3. QED
      BY <1>2, <1>3, <2>2, <3>1, <3>2, NoneCrosses
  <2>3. QED
    BY <2>1, <2>2
<1>13. /\ BaseInv'
       /\ Standing(s)' = Standing(s) \cup {p}
       /\ \A r \in Side : r # s => Standing(r)' = Standing(r)
  BY <1>1, <1>2, <1>3, <1>11, <1>12, RestKeeps DEF IInv
<1>14. best' \in [Side -> Price \cup {None}]
  BY <1>1, <1>11
<1>15. CASE found
  <2>1. Contains(list, p) /\ list # <<>> /\ best[s] = Head(list)
    BY <1>1, <1>4, <1>7, <1>15 DEF Contains
  <2>2. p \in Standing(s) /\ Standing(s) \in SUBSET Price
        /\ best[s] = BestOf(s, Standing(s)) /\ best[s] # None
    BY <1>7, <1>15, BestNode DEF Standing
  <2>3. ~Better(s, p, best[s])
    BY <2>2, BestOfExists
  <2>4. UNCHANGED <<levels, best>>
    BY <1>11, <1>15, <2>2, <2>3
  <2>5. \A r \in Side : Standing(r)' = Standing(r)
    BY <1>13, <2>2
  <2>6. QED
    BY <1>13, <2>4, <2>5, ListsKept
<1>16. CASE ~found
  <2>1. ~Contains(levels[s], p)
    BY <1>1, <1>7, <1>16
  <2>2. /\ new \in Seq(Price) /\ Sorted(s, new) /\ new # <<>>
        /\ \A x : Contains(new, x) <=> Contains(list, x) \/ x = p
        /\ Head(new) = IF list = <<>> \/ Better(s, p, Head(list)) THEN p ELSE Head(list)
    <3>1. new = InsertAt(levels[s], SlotOf(s, p), p)
      BY <1>4, <1>10
    <3>2. Inserted(s, p, levels[s], new)
      BY <1>5, <2>1, <3>1, InsertNodeFacts
    <3>3. QED
      BY <1>4, <3>2 DEF Inserted
  <2>3. /\ levels' \in [Side -> Seq(Price)] /\ levels'[s] = new
        /\ \A o \in Side : o # s => levels'[o] = levels[o]
    BY <1>1, <1>11, <1>16, <2>2
  <2>4. NodesExact'
    BY <1>1, <1>4, <1>13, <2>2, <2>3 DEF NodesExact
  <2>5. ListsSorted'
    BY <1>1, <2>2, <2>3 DEF ListsSorted
  <2>6. best[s] = None <=> list = <<>>
    BY <1>4, BestNode
  <2>7. list # <<>> => best[s] = Head(list)
    BY <1>1, <1>4
  <2>8. best'[s] = Head(new) /\ \A o \in Side : o # s => best'[o] = best[o]
    BY <1>1, <1>11, <2>2, <2>6, <2>7
  <2>9. BestIsFirst'
    BY <1>1, <2>2, <2>3, <2>8 DEF BestIsFirst
  <2>10. QED
    BY <1>13, <1>14, <2>3, <2>4, <2>5, <2>9 DEF IInv
<1>17. QED
  BY <1>15, <1>16
-----------------------------------------------------------------------------
(* The invariant, and what follows from it. *)

\* The invariant holds of an empty book.
LEMMA InitInv == Init => IInv
<1> SUFFICES ASSUME Init PROVE IInv
  OBVIOUS
<1>1. BaseInv /\ \A s \in Side : Standing(s) = {}
  BY BaseInitInv DEF Init
<1>2. levels = [s \in Side |-> <<>>] /\ best = [s \in Side |-> None]
  BY DEF Init
<1>3. ListsSorted /\ NodesExact /\ BestIsFirst
  BY <1>1, <1>2 DEF ListsSorted, NodesExact, BestIsFirst, Sorted, Contains
<1>4. QED
  BY <1>1, <1>2, <1>3 DEF IInv

\* Every step keeps the invariant.
LEMMA NextInv == IInv /\ [Next]_vars => IInv'
<1> SUFFICES ASSUME IInv, [Next]_vars PROVE IInv'
  OBVIOUS
<1>1. ASSUME NEW s \in Side, NEW id \in OrderId \cup {ZeroId}, NEW p \in Price,
             NEW q \in Qty, New(s, id, p, q)
      PROVE  IInv'
  BY <1>1, NewStep
<1>2. ASSUME NEW id \in OrderId \cup {ZeroId}, UnknownOrder(id) PROVE IInv'
  BY <1>2, NothingStep DEF UnknownOrder
<1>3. ASSUME NEW id \in OrderId \cup {ZeroId}, Cancel(id) PROVE IInv'
  BY <1>3, CancelStep
<1>4. ASSUME NEW id \in OrderId, NEW p \in Price, NEW q \in Qty, Modify(id, p, q) PROVE IInv'
  BY <1>4, ModifyStep
<1>5. ASSUME Trade PROVE IInv'
  BY <1>5, NothingStep DEF Trade
<1>6. ASSUME Refuse \/ Done PROVE IInv'
  BY <1>6, ReturnStep
<1>7. ASSUME Replace PROVE IInv'
  BY <1>7, ReplaceStep
<1>8. ASSUME StartMatch PROVE IInv'
  BY <1>8, StartMatchStep
<1>9. ASSUME MatchLevel PROVE IInv'
  BY <1>9, MatchLevelStep
<1>10. ASSUME Fill PROVE IInv'
  BY <1>10, FillStep
<1>11. ASSUME LeaveLevel PROVE IInv'
  BY <1>11, LeaveLevelStep
<1>12. ASSUME Rest PROVE IInv'
  BY <1>12, RestStep
<1>13. ASSUME UNCHANGED vars PROVE IInv'
  <2>1. BaseInv' /\ \A r \in Side : Standing(r)' = Standing(r)
    BY <1>13, StutterKeeps DEF IInv, vars, baseVars
  <2>2. QED
    BY <1>13, <2>1, ListsKept DEF vars
<1>14. QED
  BY <1>1, <1>2, <1>3, <1>4, <1>5, <1>6, <1>7, <1>8, <1>9, <1>10, <1>11, <1>12, <1>13
  DEF Next, Message, Step

\* The inductive invariant holds of every reachable state: queues, orderId
\* index, lists and best iterators agree at every step of every apply().
THEOREM Invariance == Spec => []IInv
BY InitInv, NextInv, PTL DEF Spec

\* Types, and that no list ever has two nodes of one price: findOrInsertLevel()
\* never inserts a level that is already there.
THEOREM TypeCorrect == Spec => []TypeOK
<1>1. IInv => TypeOK
  <2> SUFFICES ASSUME IInv PROVE TypeOK
    OBVIOUS
  <2>1. ASSUME NEW s \in Side PROVE IsInjective(levels[s])
    <3>1. PICK list \in Seq(Price) : list = levels[s]
      BY DEF IInv
    <3>2. \A i, j \in 1 .. Len(list) : list[i] = list[j] => i = j
      BY <3>1, SortedFacts DEF IInv, ListsSorted
    <3>3. DOMAIN list = 1 .. Len(list)
      BY ListFacts
    <3>4. QED
      BY <3>1, <3>2, <3>3 DEF IsInjective
  <2>2. QED
    BY <2>1 DEF IInv, BaseInv, TypeOK
<1>2. QED
  BY Invariance, <1>1, PTL

\* The nodes of bids_ and asks_ are the levels with orders and no others, best
\* price first: the scan of findOrInsertLevel() may stop at the first worse node.
THEOREM ListIsExact == Spec => []ListExact
<1>1. IInv => ListExact
  <2> SUFFICES ASSUME IInv, NEW s \in Side
               PROVE  /\ ToSet(levels[s]) = {p \in Price : orders[s][p] # <<>>}
                                               \cup (IF Consuming(s) THEN {call.at} ELSE {})
                      /\ \A i, j \in DOMAIN levels[s] :
                           i < j => Better(s, levels[s][i], levels[s][j])
    BY DEF ListExact
  <2>1. Sorted(s, levels[s]) /\ (Consuming(s) => call.at \in Price)
    BY DEF IInv, BaseInv, BaseTypeOK, ListsSorted, Consuming, Call
  <2>2. PICK list \in Seq(Price) : list = levels[s]
    BY DEF IInv
  <2>3. \A p \in Price : Contains(list, p) <=> p \in Standing(s)
    BY <2>2 DEF IInv, NodesExact
  <2>4. ToSet(list) = {p \in Price : Contains(list, p)}
    BY ListFacts DEF ToSet, Contains
  <2>5. ToSet(levels[s]) = Standing(s)
    BY <2>2, <2>3, <2>4 DEF Standing
  <2>6. Standing(s) = {p \in Price : orders[s][p] # <<>>}
                        \cup (IF Consuming(s) THEN {call.at} ELSE {})
    BY <2>1 DEF Standing
  <2>7. QED
    BY <2>1, <2>5, <2>6 DEF Sorted
<1>2. QED
  BY Invariance, <1>1, PTL

\* No iterator dangles: neither level_it of an order in the book nor a best
\* iterator other than end() outlives its node.
THEOREM IteratorsAreValid == Spec => []IteratorsValid
<1>1. IInv => IteratorsValid
  <2> SUFFICES ASSUME IInv PROVE IteratorsValid
    OBVIOUS
  <2>1. ASSUME NEW id \in OrderId, refs[id] # None
        PROVE  Contains(levels[refs[id].side], refs[id].price)
    <3>1. PICK s \in Side, p \in Price : RefIs(id, s, p)
      BY <2>1, RefExists DEF IInv
    <3>2. refs[id].side = s /\ refs[id].price = p /\ p \in Standing(s)
      BY <3>1, RefFacts DEF IInv
    <3>3. QED
      BY <3>2 DEF IInv, NodesExact
  <2>2. ASSUME NEW s \in Side, best[s] # None PROVE Contains(levels[s], best[s])
    <3>1. PICK list \in Seq(Price) : list = levels[s]
      BY DEF IInv
    <3>2. list # <<>> /\ best[s] = Head(list)
      BY <2>2, <3>1 DEF IInv, BestIsFirst
    <3>3. 1 \in 1 .. Len(list) /\ Head(list) = list[1]
      BY <3>2, ListFacts
    <3>4. QED
      BY <3>1, <3>2, <3>3 DEF Contains
  <2>3. QED
    BY <2>1, <2>2 DEF IteratorsValid
<1>2. QED
  BY Invariance, <1>1, PTL

\* best_bid_ and best_ask_ point at the first node of their list at every step,
\* through every insertion and erasure, and are end() only when it is empty.
THEOREM BestIsTheFirst == Spec => []BestIsFirst
<1>1. IInv => BestIsFirst
  BY DEF IInv
<1>2. QED
  BY Invariance, <1>1, PTL

\* No OrderRef of order_refs_ ever dangles, and no order rests without its
\* reference or twice.
THEOREM RefsAreSound == Spec => []RefsSound
<1>1. IInv => RefsSound
  BY BaseRefsSound DEF IInv
<1>2. QED
  BY Invariance, <1>1, PTL

\* No resting bid ever reaches a resting ask, not even between two steps of a match.
THEOREM NeverCrossed == Spec => []Uncrossed
<1>1. IInv => Uncrossed
  BY BaseUncrossed DEF IInv
<1>2. QED
  BY Invariance, <1>1, PTL
-----------------------------------------------------------------------------
(* Every step of a call brings its end nearer. *)

\* The terms of the variant that the steps lower, by numbers alone.
LEMMA VariantFacts ==
  \A a, b, c, d \in Nat :
    /\ a < b => 2 * a + 2 * c + 2 < 2 * b + 2 * c + 2
    /\ c = d - 1 => 2 * a + 2 * c + 3 < 2 * a + 2 * d + 2
    /\ c <= d => 2 * a + 2 * c + 1 < 2 * a + 2 * d + 2
OBVIOUS

\* Every step of a call ends it or comes nearer to its end.
LEMMA StepProgress ==
  ASSUME IInv, Next, pc # "idle"
  PROVE  pc' = "idle" \/ Variant' < Variant
<1>1. /\ pc \in {"applyNew", "match", "consume"} /\ call \in Call
      /\ levels \in [Side -> Seq(Price)] /\ BaseInv
      /\ \A o \in Side : Sorted(o, levels[o])
  BY DEF IInv, BaseInv, BaseTypeOK, ListsSorted
<1>2. PICK o \in Side : o = Opposite(call.side)
  BY <1>1, SideFacts DEF Call
<1>3. PICK rem \in Nat : rem = call.rem /\ rem <= MaxQty
  BY <1>1, TypesAssumption DEF Call, Qty
<1>4. PICK left \in Nat :
        left = Len(levels[o]) /\ left <= MaxPriceTick - MinPriceTick + 1 + 2 * PriceMargin
  <2>1. PICK list \in Seq(Price) : list = levels[o]
    BY <1>1
  <2>2. Len(list) \in Nat /\ Sorted(o, list)
    BY <1>1, <2>1, ListFacts
  <2>3. QED
    BY <2>1, <2>2, SortedBounded
<1> DEFINE most == 2 * MaxQty + 2 * (MaxPriceTick - MinPriceTick + 1 + 2 * PriceMargin) + 4
<1>5. most \in Int /\ 2 * rem + 2 * left + 4 <= most
  BY <1>3, <1>4, TypesAssumption, SMTT(30)
<1>6. /\ pc = "applyNew" => Variant = most + (IF HasOrder(call.id) THEN 1 ELSE 0)
      /\ pc = "match" => Variant = 2 * rem + 2 * left + (IF rem > 0 THEN 3 ELSE 1)
      /\ pc = "consume" => Variant = 2 * rem + 2 * left + 2
  BY <1>2, <1>3, <1>4 DEF Variant, CallVariant
<1> HIDE DEF most
<1>7. ~Message
  BY <1>1 DEF Message, New, UnknownOrder, Cancel, Modify, Trade, BeginNew, BeginNothing
<1>8. CASE Refuse \/ Done \/ Rest
  BY <1>8 DEF Refuse, Done, Rest, Return
<1>9. CASE Replace
  <2>1. /\ pc = "applyNew" /\ UNCHANGED <<pc, call>>
        /\ call.id \in OrderId /\ HasOrder(call.id)
        /\ refs' = [refs EXCEPT ![call.id] = None]
    BY <1>9 DEF Replace, Applicable, HasOrder, EraseByRef
  <2>2. ~HasOrder(call.id)'
    BY <2>1 DEF HasOrder, IInv, BaseInv, BaseTypeOK
  <2>3. Variant = most + 1
    BY <1>6, <2>1
  <2>4. Variant' = most
    BY <2>1, <2>2, <1>5 DEF Variant, CallVariant, most
  <2>5. QED
    BY <1>5, <2>3, <2>4
<1>10. CASE StartMatch
  <2>1. pc = "applyNew" /\ pc' = "match" /\ UNCHANGED <<call, levels>> /\ ~HasOrder(call.id)
    BY <1>10 DEF StartMatch, Applicable, BeginMatch
  <2>2. Variant' = 2 * rem + 2 * left + (IF rem > 0 THEN 3 ELSE 1)
    BY <1>2, <1>3, <1>4, <2>1 DEF Variant, CallVariant
  <2>3. Variant = most
    BY <1>5, <1>6, <2>1
  <2>4. 2 * rem + 2 * left + (IF rem > 0 THEN 3 ELSE 1) < most
    <3> PICK c \in {1, 3} : c = IF rem > 0 THEN 3 ELSE 1
      OBVIOUS
    <3>1. c \in Int /\ c < 4 /\ rem \in Int /\ left \in Int /\ most \in Int
      BY <1>3, <1>4, <1>5
    <3>2. 2 * rem + 2 * left + 4 <= most
      BY <1>5
    <3>3. 2 * rem + 2 * left + c < most
      BY <3>1, <3>2
    <3>4. QED
      BY <3>3
  <2>5. QED
    BY <2>2, <2>3, <2>4
<1>11. CASE MatchLevel
  <2>1. /\ pc = "match" /\ pc' = "consume" /\ rem > 0
        /\ call'.rem = rem /\ call'.side = call.side /\ UNCHANGED levels
    BY <1>1, <1>3, <1>11 DEF MatchLevel, BeginConsume, Call
  <2>2. Variant' = 2 * rem + 2 * left + 2
    BY <1>2, <1>4, <2>1 DEF Variant, CallVariant
  <2>3. QED
    BY SMTT(30), <1>3, <1>4, <1>6, <2>1, <2>2
<1>12. CASE Fill
  <2>1. pc = "consume" /\ pc' = "consume" /\ UNCHANGED levels /\ FillFront
    BY <1>12 DEF Fill, FillFront
  <2>2. BaseInv' /\ call'.side = call.side /\ call'.rem < rem
    BY <1>1, <1>3, <2>1, FillFrontKeeps
  <2>3. PICK m \in Nat : m = call'.rem
    BY <2>1, <2>2, TypesAssumption DEF BaseInv, BaseTypeOK, Call, Qty
  <2>4. Variant' = 2 * m + 2 * left + 2
    BY <1>2, <1>4, <2>1, <2>2, <2>3 DEF Variant, CallVariant
  <2>5. 2 * m + 2 * left + 2 < 2 * rem + 2 * left + 2
    <3>1. m < rem
      BY <2>2, <2>3
    <3>2. QED
      BY <3>1, VariantFacts
  <2>6. QED
    BY <1>6, <2>1, <2>4, <2>5
<1>13. CASE LeaveLevel
  <2>1. pc = "consume" /\ pc' = "match" /\ call' = call /\ ~CanFill
    BY <1>13 DEF LeaveLevel
  <2> PICK p : p = call.at
    OBVIOUS
  <2> PICK t \in Tally : t = tally
    BY DEF IInv, BaseInv, BaseTypeOK
  <2>2. p = call.at /\ t = tally
    OBVIOUS
  <2>3. p \in Standing(o)
    BY <1>1, <1>2, <2>1, <2>2, ConsumeFacts
  <2>4. rem = 0 \/ orders[o][p] = <<>>
    BY <1>2, <1>3, <2>1, <2>2 DEF CanFill
  <2> PICK m : m = Len(levels'[o])
    OBVIOUS
  <2>5. m = Len(levels'[o]) /\ m \in Nat /\ m <= left /\ (orders[o][p] = <<>> => m = left - 1)
    <3>1. CASE orders[o][p] = <<>>
      <4>1. EraseEmptyLevel(o, p, t)
        BY <1>2, <1>13, <2>2, <3>1 DEF LeaveLevel
      <4>2. Len(levels'[o]) = Len(levels[o]) - 1 /\ levels' \in [Side -> Seq(Price)]
        BY <2>3, <4>1, EraseEmptyLevelFacts
      <4>3. m \in Nat /\ m = left - 1
        BY <1>4, <4>2
      <4>4. QED
        BY <1>4, <4>3
    <3>2. CASE orders[o][p] # <<>>
      BY <1>2, <1>4, <1>13, <2>2, <3>2 DEF LeaveLevel
    <3>3. QED
      BY <3>1, <3>2
  <2>6. Variant' = 2 * rem + 2 * m + (IF rem > 0 THEN 3 ELSE 1)
    BY <1>2, <1>3, <2>1, <2>5 DEF Variant, CallVariant
  <2>7. 2 * rem + 2 * m + (IF rem > 0 THEN 3 ELSE 1) < 2 * rem + 2 * left + 2
    <3>1. rem = 0 \/ m = left - 1
      BY <2>4, <2>5
    <3>2. CASE rem > 0
      <4>1. m = left - 1
        BY <1>3, <3>1, <3>2
      <4>2. 2 * rem + 2 * m + 3 < 2 * rem + 2 * left + 2
        BY <2>5, <4>1, VariantFacts
      <4>3. QED
        BY <3>2, <4>2
    <3>3. CASE ~(rem > 0)
      <4>1. rem = 0
        BY <1>3, <3>3
      <4>2. 2 * rem + 2 * m + 1 < 2 * rem + 2 * left + 2
        BY <2>5, <4>1, VariantFacts
      <4>3. QED
        BY <3>3, <4>2
    <3>4. QED
      BY <3>2, <3>3
  <2>8. QED
    BY <1>6, <2>1, <2>6, <2>7
<1>14. QED
  BY <1>7, <1>8, <1>9, <1>10, <1>11, <1>12, <1>13 DEF Next, Step

\* The loops of applyNew() run out: each step of a call in progress ends it or
\* brings the variant down, whatever the book holds, so no level is consumed
\* again once it is empty.
THEOREM CallsRunOut == Spec => StepsRunOut
<1>1. IInv /\ [Next]_vars => [pc # "idle" => pc' = "idle" \/ Variant' < Variant]_vars
  BY StepProgress
<1>2. QED
  BY Invariance, <1>1, PTL DEF Spec, StepsRunOut
-----------------------------------------------------------------------------
(* The class implements the contract. *)

\* eraseByRef() takes the order out of the queue that its reference names, and counts an
\* invalidation when the order was all there was of the best level.
LEMMA EraseByRefErases ==
  ASSUME IInv, pc # "consume", NEW id \in OrderId, NEW t \in Tally, refs[id] # None,
         EraseByRef(id, t)
  PROVE  \E s \in Side, p \in Price : OrderErased(id, s, p, t) /\ refs[id].side = s
<1>1. PICK s \in Side, p \in Price : RefIs(id, s, p)
  BY RefExists DEF IInv
<1>2. PICK left : left = Unlinked(orders[s][p], id)
  OBVIOUS
<1>3. refs[id].side = s /\ refs[id].price = p /\ p \in Standing(s)
  BY <1>1, RefFacts DEF IInv
<1>4. best[s] = BestOf(s, Standing(s))
  BY <1>3, BestNode
<1>5. /\ orders' = [orders EXCEPT ![s][p] = left]
      /\ left = <<>> => EraseEmptyLevel(s, p, t)
      /\ left # <<>> => tally' = t
  BY <1>2, <1>3 DEF EraseByRef
<1>6. /\ left = <<>> /\ p = BestOf(s, Standing(s)) => tally' = Invalidated(t, s)
      /\ ~(left = <<>> /\ p = BestOf(s, Standing(s))) => tally' = t
  BY <1>4, <1>5 DEF EraseEmptyLevel
<1>7. QED
  BY <1>1, <1>2, <1>3, <1>5, <1>6 DEF OrderErased

\* eraseByRef() of a cancel is the contract's Cancel.
LEMMA CancelImplements ==
  ASSUME IInv, NEW id, Cancel(id)
  PROVE  StepRefines
<1>1. /\ pc = "idle" /\ UNCHANGED <<pc, call>> /\ id \in OrderId /\ refs[id] # None
      /\ EraseByRef(id, ZeroTally) /\ BaseInv
  BY DEF Cancel, HasOrder, IInv
<1>2. PICK s \in Side, p \in Price : OrderErased(id, s, p, ZeroTally)
  BY <1>1, EraseByRefErases, TallyFacts
<1>3. Contract!Cancel(id) /\ CallExact'
  BY <1>1, <1>2, CancelRefines
<1>4. QED
  BY <1>1, <1>3, ActionRefines

\* eraseByRef() and the call of applyNew() are the contract's Modify.
LEMMA ModifyImplements ==
  ASSUME IInv, NEW id \in OrderId, NEW x \in Price, NEW q \in Qty, Modify(id, x, q)
  PROVE  StepRefines
<1>1. /\ pc = "idle" /\ refs[id] # None /\ q > 0 /\ EraseByRef(id, ZeroTally) /\ BaseInv
      /\ EnterApplyNew(refs[id].side, id, x, q, FALSE)
  BY DEF Modify, HasOrder, IInv
<1>2. PICK s \in Side, p \in Price : OrderErased(id, s, p, ZeroTally) /\ refs[id].side = s
  BY <1>1, EraseByRefErases, TallyFacts
<1>3. EnterApplyNew(s, id, x, q, FALSE)
  BY <1>1, <1>2
<1>4. Contract!Modify(id, x, q) /\ CallExact'
  BY <1>1, <1>2, <1>3, ModifyRefines
<1>5. QED
  BY <1>4, ActionRefines

\* applyNew() refuses what the contract refuses.
LEMMA AppliesAccepted ==
  ASSUME Accepted = Price, IInv, pc = "applyNew"
  PROVE  Refused(call.id, call.price, call.qty) <=> call.qty = 0 \/ call.id = ZeroId
BY CallIs DEF Refused, IInv

\* The erasure with which applyNew() begins is part of the contract's New or Modify.
LEMMA ReplaceImplements ==
  ASSUME Accepted = Price, IInv, CallExact, Replace
  PROVE  StepRefines
<1>1. /\ pc = "applyNew" /\ UNCHANGED <<pc, call>> /\ BaseInv /\ tally \in Tally
      /\ call.id \in OrderId /\ refs[call.id] # None /\ EraseByRef(call.id, tally)
      /\ call.qty > 0 /\ call.id # ZeroId
  BY CallIs DEF IInv, Replace, Applicable, HasOrder
<1>2. ~Refused(call.id, call.price, call.qty)
  BY <1>1, AppliesAccepted
<1>3. PICK id \in OrderId, t \in Tally : id = call.id /\ t = tally
  BY <1>1
<1>4. PICK s \in Side, p \in Price : OrderErased(id, s, p, tally)
  BY <1>1, <1>3, EraseByRefErases
<1>5. QED
  BY <1>1, <1>2, <1>3, <1>4, ReplaceRefines, KeptRefines

\* wouldCross() asks what the contract asks of the whole book.
LEMMA StartMatchImplements ==
  ASSUME Accepted = Price, IInv, CallExact, StartMatch
  PROVE  StepRefines
<1>1. /\ pc = "applyNew" /\ BaseInv /\ ~HasOrder(call.id) /\ call.qty > 0 /\ call.id # ZeroId
      /\ BeginMatch(WouldCross(call.side, call.price))
  BY DEF IInv, StartMatch, Applicable
<1>2. ~Refused(call.id, call.price, call.qty)
  BY <1>1, AppliesAccepted, CallIs
<1>3. PICK r \in Side : r = Opposite(call.side)
  BY <1>1, CallIs, SideFacts
<1>4. PICK c \in BOOLEAN : c = WouldCross(call.side, call.price)
  BY DEF WouldCross
<1>5. c <=> Standing(r) # {} /\ Crosses(call.side, call.price, BestOf(r, Standing(r)))
  BY <1>3, <1>4, BestNode, NoneFacts DEF WouldCross
<1>6. BeginMatch(c)
  BY <1>1, <1>4
<1>7. QED
  BY <1>1, <1>2, <1>3, <1>5, <1>6, StartMatchRefines, KeptRefines

\* Turning to the best level is nothing to the contract.
LEMMA MatchLevelImplements ==
  ASSUME IInv, MatchLevel
  PROVE  StepRefines
<1>1. pc = "match" /\ BaseInv /\ pc # "idle"
  BY DEF IInv, MatchLevel
<1>2. PICK r \in Side : r = Opposite(call.side)
  BY <1>1, CallIs, SideFacts
<1>3. Standing(r) # {} /\ Standing(r) \in SUBSET Price /\ best[r] = BestOf(r, Standing(r))
  BY <1>2, BestNode DEF MatchLevel, WouldCross, Standing
<1>4. PICK b \in Price : b \in Standing(r) /\ b = best[r]
  BY <1>3, BestOfExists
<1>5. BeginConsume(b) /\ Crosses(call.side, call.price, b)
  BY <1>2, <1>4 DEF MatchLevel, WouldCross
<1>6. orders[Opposite(call.side)][b] # <<>>
  BY <1>1, <1>2, <1>4 DEF Standing, Consuming
<1>7. QED
  BY <1>1, <1>5, <1>6, MatchLevelRefines, KeptRefines

\* An emptied level is erased as the contract counts it.
LEMMA LeaveLevelImplements ==
  ASSUME IInv, CallExact, LeaveLevel
  PROVE  StepRefines
<1>1. /\ pc = "consume" /\ pc' = "match" /\ UNCHANGED <<orders, call>> /\ BaseInv
  BY DEF IInv, LeaveLevel
<1>2. PICK r \in Side, p \in Price : r = Opposite(call.side) /\ p = call.at
  BY <1>1, CallIs, SideFacts
<1>3. best[r] = p
  BY <1>1, <1>2, ConsumeFacts, BestNode
<1>4. tally' = IF orders[r][call.at] = <<>> THEN Invalidated(tally, r) ELSE tally
  BY <1>2, <1>3 DEF LeaveLevel, EraseEmptyLevel
<1>5. QED
  BY <1>1, <1>2, <1>4, LeaveLevelRefines, KeptRefines

\* Resting what is left ends the call the contract has already applied.
LEMMA RestImplements ==
  ASSUME IInv, Rest
  PROVE  StepRefines
<1>1. /\ pc = "match" /\ BaseInv /\ call.rem > 0 /\ UNCHANGED tally
      /\ ~WouldCross(call.side, call.price)
  BY DEF IInv, Rest, Matched
<1>2. PICK s \in Side, p \in Price, r \in Side : s = call.side /\ p = call.price /\ r = Opposite(s)
  BY <1>1, CallIs, SideFacts
<1>3. Standing(r) \in SUBSET Price /\ ~Consuming(s)
  BY <1>1 DEF Standing, Consuming
<1>4. \A x \in Standing(Opposite(call.side)) : ~Crosses(call.side, call.price, x)
  BY <1>1, <1>2, <1>3, BestNode, NoneCrosses DEF WouldCross
<1>5. PICK found, queue : found = Found(s, p) /\ queue = IF found THEN orders[s][p] ELSE <<>>
  OBVIOUS
<1>6. found <=> p \in Standing(s)
  <2>1. PICK list \in Seq(Price) : list = levels[s] /\ Sorted(s, list)
    BY DEF IInv, ListsSorted
  <2>2. Contains(list, p) <=> p \in Standing(s)
    BY <2>1 DEF IInv, NodesExact
  <2>3. levels[s] \in Seq(Price) /\ Sorted(s, levels[s])
    BY <2>1
  <2>4. QED
    BY <1>5, <2>1, <2>2, <2>3, SlotFacts
<1>7. OrderRests(call.side, call.price)
  <2>1. queue = orders[s][p]
    BY <1>3, <1>5, <1>6 DEF Standing
  <2>2. call.rem + (IF found THEN total[s][p] ELSE 0) = total[s][p] + call.rem
    <3>1. total[s][p] \in Int /\ call.rem \in Int
      BY <1>1, CallIs DEF BaseInv, BaseTypeOK
    <3>2. ~found => total[s][p] = 0
      BY <1>3, <1>6, <2>1, QueueQtyFacts DEF IInv, BaseInv, TotalsExact, Standing
    <3>3. QED
      BY <3>1, <3>2
  <2>3. /\ orders' = [orders EXCEPT ![s][p] = Append(queue, [id |-> call.id, qty |-> call.rem])]
        /\ total' = [total EXCEPT ![s][p] = call.rem + (IF found THEN total[s][p] ELSE 0)]
        /\ refs' = [refs EXCEPT ![call.id] = [side |-> s, price |-> p]]
        /\ Return
    BY <1>2, <1>5 DEF Rest
  <2>4. QED
    BY <1>2, <2>1, <2>2, <2>3 DEF OrderRests, RefBecomes
<1>8. Contract!Return /\ CallExact'
  BY <1>1, <1>4, <1>7, RestRefines
<1>9. QED
  BY <1>8, ActionRefines

\* Every step of the class is one of the contract's, or nothing to it.
LEMMA NextImplements ==
  ASSUME Accepted = Price
  PROVE  IInv /\ CallExact /\ [Next]_vars => StepRefines
<1> SUFFICES ASSUME IInv, CallExact, [Next]_vars PROVE StepRefines
  OBVIOUS
<1> BaseInv
  BY DEF IInv
<1>1. ASSUME NEW s \in Side, NEW id \in OrderId \cup {ZeroId}, NEW p \in Price,
             NEW q \in Qty, New(s, id, p, q)
      PROVE  StepRefines
  BY <1>1, NewRefines, ActionRefines DEF New
<1>2. ASSUME BeginNothing PROVE StepRefines
  BY <1>2, NothingRefines, ActionRefines
<1>3. ASSUME NEW id \in OrderId \cup {ZeroId}, UnknownOrder(id) \/ Trade PROVE StepRefines
  BY <1>2, <1>3 DEF UnknownOrder, Trade
<1>4. ASSUME NEW id \in OrderId \cup {ZeroId}, Cancel(id) PROVE StepRefines
  BY <1>4, CancelImplements
<1>5. ASSUME NEW id \in OrderId, NEW p \in Price, NEW q \in Qty, Modify(id, p, q)
      PROVE  StepRefines
  BY <1>5, ModifyImplements
<1>6. ASSUME Refuse PROVE StepRefines
  <2>1. /\ pc = "applyNew" /\ Return /\ UNCHANGED <<orders, tally>>
        /\ Refused(call.id, call.price, call.qty)
    BY <1>6, AppliesAccepted DEF Refuse
  <2>2. QED
    BY <2>1, RefuseRefines, ActionRefines
<1>7. ASSUME Replace PROVE StepRefines
  BY <1>7, ReplaceImplements
<1>8. ASSUME StartMatch PROVE StepRefines
  BY <1>8, StartMatchImplements
<1>9. ASSUME MatchLevel PROVE StepRefines
  BY <1>9, MatchLevelImplements
<1>10. ASSUME Fill PROVE StepRefines
  BY <1>10, FillRefines, KeptRefines DEF Fill
<1>11. ASSUME LeaveLevel PROVE StepRefines
  BY <1>11, LeaveLevelImplements
<1>12. ASSUME Done PROVE StepRefines
  <2>1. pc = "match" /\ call.rem = 0 /\ Return /\ UNCHANGED <<orders, tally>>
    BY <1>12 DEF Done, Matched
  <2>2. QED
    BY <2>1, DoneRefines, ActionRefines
<1>13. ASSUME Rest PROVE StepRefines
  BY <1>13, RestImplements
<1>14. ASSUME UNCHANGED vars PROVE StepRefines
  BY <1>14, StutterRefines, KeptRefines DEF vars, baseVars
<1>15. QED
  BY <1>1, <1>2, <1>3, <1>4, <1>5, <1>6, <1>7, <1>8, <1>9, <1>10, <1>11, <1>12, <1>13, <1>14
  DEF Next, Message, Step, Trade

\* The class implements the contract: every call of apply() has exactly the effect on the
\* queues and the counters that price-time priority gives its message.
THEOREM ImplementsContract == Accepted = Price => (Spec => Implements)
<1> SUFFICES ASSUME Accepted = Price PROVE Spec => Implements
  OBVIOUS
<1>1. Init => Contract!BookInit /\ CallExact
  BY InitRefines DEF Init
<1>2. IInv /\ CallExact /\ [Next]_vars => CallExact' /\ [Contract!BookNext]_(Contract!bookVars)
  BY NextImplements DEF StepRefines
<1>3. QED
  BY Invariance, <1>1, <1>2, PTL DEF Spec, Implements, Contract!BookSpec
=============================================================================
