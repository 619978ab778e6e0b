------------------------------- MODULE NatFacts -------------------------------
(***************************************************************************)
(* Facts that the proofs share: about the naturals, about words, about     *)
(* recursive functions, and about l3detail::FenwickTree, which counts by   *)
(* the lowest bit of a number.                                             *)
(***************************************************************************)
EXTENDS FenwickTree, FiniteSetsExt, FiniteSetTheorems, WellFoundedInduction, TLAPS

\* A non-empty set of natural numbers has a smallest element.
LEMMA SmallestNat ==
  ASSUME NEW T \in SUBSET Nat, T # {}
  PROVE  \E n \in T : \A m \in T : n <= m
<1> DEFINE R == {r \in Nat \X Nat : r[1] < r[2]}
<1>1. IsWellFoundedOn(R, Nat)
  BY NatLessThanWellFounded DEF OpToRel
<1>2. PICK n \in T : \A m \in T : ~(<<m, n>> \in R)
  BY <1>1, WFMin, Zenon
<1>3. \A m \in T : ~(m < n)
  <2>1. ASSUME NEW m \in T, m < n
        PROVE  <<m, n>> \in R
    BY <2>1
  <2>2. QED
    BY <1>2, <2>1
<1>4. QED
  BY <1>3

\* A number that fits is not changed by wrapping, a negative one by one turn.
LEMMA WrapFacts ==
  ASSUME NEW w \in Nat \ {0}
  PROVE  /\ \A x \in 0 .. w - 1 : x % w = x
         /\ \A x \in 1 .. w - 1 : (0 - x) % w = w - x
         /\ \A x \in Int : x % w \in 0 .. w - 1
<1>1. \A x \in 0 .. w - 1 : x % w = x
  OBVIOUS
<1>2. \A x \in 1 .. w - 1 : (0 - x) % w = w - x
  OBVIOUS
<1>3. \A x \in Int : x % w \in 0 .. w - 1
  OBVIOUS
<1>4. QED
  BY <1>1, <1>2, <1>3
-----------------------------------------------------------------------------
(* Recursion.  Each recursive function of the models calls itself on an     *)
(* argument of smaller rank; that it exists is shown once here.             *)

\* The recursion over D that stops in B with e[d], and otherwise adds, with h,
\* what belongs to d to the result for p[d].
Unfolds(f, D, B, e, p, h) == \A d \in D : f[d] = IF d \in B THEN e[d] ELSE h[<<d, f[p[d]]>>]

\* Recursion along p, which lowers the rank outside B, defines a function.
LEMMA RecursionExists ==
  ASSUME NEW D, NEW S, NEW B \in SUBSET D, NEW e \in [D -> S], NEW p \in [D -> D],
         NEW h \in [D \X S -> S], NEW rank \in [D -> Nat],
         \A d \in D \ B : rank[p[d]] < rank[d]
  PROVE  \E f \in [D -> S] : Unfolds(f, D, B, e, p, h)
<1> DEFINE Below(n) == {d \in D : rank[d] < n}
           Part(f, n) == /\ f \in [Below(n) -> S]
                         /\ \A d \in Below(n) : f[d] = IF d \in B THEN e[d] ELSE h[<<d, f[p[d]]>>]
<1>0. \A d \in D : rank[d] \in Nat /\ p[d] \in D
  OBVIOUS
<1>1. ASSUME NEW n \in Nat, NEW m \in Nat, NEW f, NEW g, Part(f, n), Part(g, m)
      PROVE  \A d \in D : rank[d] < n /\ rank[d] < m => f[d] = g[d]
  <2> DEFINE T == {rank[d] : d \in {c \in D : rank[c] < n /\ rank[c] < m /\ f[c] # g[c]}}
  <2> SUFFICES ASSUME T # {} PROVE FALSE
    OBVIOUS
  <2>1. T \in SUBSET Nat
    BY <1>0
  <2>2. PICK t \in T : \A u \in T : t <= u
    BY <2>1, SmallestNat
  <2>3. PICK d \in D : t = rank[d] /\ rank[d] < n /\ rank[d] < m /\ f[d] # g[d]
    BY <2>2
  <2>4. d \in Below(n) /\ d \in Below(m)
    BY <2>3
  <2>5. /\ f[d] = IF d \in B THEN e[d] ELSE h[<<d, f[p[d]]>>]
        /\ g[d] = IF d \in B THEN e[d] ELSE h[<<d, g[p[d]]>>]
    BY <1>1, <2>4
  <2> HIDE DEF Part, Below
  <2>6. d \notin B /\ f[p[d]] # g[p[d]]
    BY <2>3, <2>5
  <2>7. rank[p[d]] < rank[d] /\ rank[p[d]] \in Nat /\ rank[d] \in Nat /\ p[d] \in D
    BY <1>0, <2>6
  <2>8. rank[p[d]] < n /\ rank[p[d]] < m
    BY <2>3, <2>7
  <2>9. rank[p[d]] \in T
    BY <2>6, <2>7, <2>8
  <2> HIDE DEF T
  <2>10. rank[d] <= rank[p[d]]
    BY <2>2, <2>3, <2>9
  <2>11. QED
    BY <2>7, <2>10
<1>2. ASSUME NEW n \in Nat, NEW f, Part(f, n)
      PROVE  \E g : Part(g, n + 1)
  <2> DEFINE g == [d \in Below(n + 1) |->
                     IF d \in Below(n) THEN f[d]
                     ELSE IF d \in B THEN e[d] ELSE h[<<d, f[p[d]]>>]]
  <2>1. \A d \in Below(n + 1) \ B : p[d] \in Below(n) /\ p[d] \in Below(n + 1)
    BY <1>0
  <2>2. \A d \in Below(n) : d \in Below(n + 1)
    BY <1>0
  <2>3. \A d \in Below(n) : f[d] \in S
    BY <1>2
  <2>4. \A d \in Below(n + 1) : d \in D
    OBVIOUS
  <2>5. \A d \in Below(n) : f[d] = IF d \in B THEN e[d] ELSE h[<<d, f[p[d]]>>]
    BY <1>2
  <2> HIDE DEF Below
  <2>6. g \in [Below(n + 1) -> S]
    BY <2>1, <2>3, <2>4
  <2>7. \A d \in Below(n + 1) : g[d] = IF d \in B THEN e[d] ELSE h[<<d, f[p[d]]>>]
    BY <2>5
  <2>8. \A d \in Below(n + 1) \ B : g[p[d]] = f[p[d]]
    BY <2>1
  <2> HIDE DEF g
  <2>9. \A d \in Below(n + 1) : g[d] = IF d \in B THEN e[d] ELSE h[<<d, g[p[d]]>>]
    BY <2>7, <2>8
  <2>10. QED
    BY <2>6, <2>9
<1>3. \E f : Part(f, 0)
  <2>1. Below(0) = {}
    BY <1>0
  <2>2. Part([d \in {} |-> 0], 0)
    BY <2>1
  <2>3. QED
    BY <2>2
<1>4. \A n \in Nat : \E f : Part(f, n)
  <2> DEFINE T == {n \in Nat : ~\E f : Part(f, n)}
  <2> HIDE DEF Part
  <2> SUFFICES ASSUME T # {} PROVE FALSE
    OBVIOUS
  <2>1. PICK t \in T : \A u \in T : t <= u
    BY SmallestNat
  <2>2. t # 0 /\ t \in Nat
    BY <1>3, <2>1
  <2>3. t - 1 \in Nat /\ t - 1 < t /\ (t - 1) + 1 = t
    BY <2>2
  <2>4. t - 1 \notin T
    BY <2>1, <2>3
  <2>5. PICK f : Part(f, t - 1)
    BY <2>3, <2>4
  <2>6. \E g : Part(g, t)
    BY <1>2, <2>3, <2>5
  <2>7. QED
    BY <2>1, <2>6
<1> DEFINE part[n \in Nat] == CHOOSE f : Part(f, n)
           F == [d \in D |-> part[rank[d] + 1][d]]
<1>5. \A n \in Nat : Part(part[n], n)
  <2> HIDE DEF Part
  <2>1. QED
    BY <1>4
<1> HIDE DEF part
<1>6. ASSUME NEW d \in D
      PROVE  F[d] \in S /\ F[d] = IF d \in B THEN e[d] ELSE h[<<d, F[p[d]]>>]
  <2>1. rank[d] \in Nat /\ rank[d] + 1 \in Nat /\ d \in Below(rank[d] + 1)
    BY <1>0
  <2>2. Part(part[rank[d] + 1], rank[d] + 1)
    BY <1>5, <2>1
  <2>3. /\ part[rank[d] + 1][d] \in S
        /\ part[rank[d] + 1][d] = IF d \in B THEN e[d] ELSE h[<<d, part[rank[d] + 1][p[d]]>>]
    BY <2>1, <2>2
  <2>4. ASSUME d \notin B
        PROVE  part[rank[d] + 1][p[d]] = F[p[d]]
    <3>1. p[d] \in D /\ rank[p[d]] \in Nat /\ rank[p[d]] + 1 \in Nat /\ rank[p[d]] < rank[d] + 1
          /\ rank[p[d]] < rank[p[d]] + 1
      BY <1>0, <2>1, <2>4
    <3>2. Part(part[rank[p[d]] + 1], rank[p[d]] + 1)
      BY <1>5, <3>1
    <3> HIDE DEF Part
    <3>3. part[rank[d] + 1][p[d]] = part[rank[p[d]] + 1][p[d]]
      BY <1>1, <2>1, <2>2, <3>1, <3>2
    <3>4. QED
      BY <3>1, <3>3
  <2>5. QED
    BY <2>3, <2>4
<1> HIDE DEF F
<1>7. F \in [D -> S]
  BY <1>6 DEF F
<1>8. QED
  BY <1>6, <1>7 DEF Unfolds

-----------------------------------------------------------------------------
(* The lowest bit, by halving. *)

\* A positive number is odd or twice a smaller one.
LEMMA Halves ==
  ASSUME NEW i \in Nat \ {0}
  PROVE  \/ i % 2 = 1 /\ \E k \in Nat : i = 2 * k + 1
         \/ i % 2 # 1 /\ \E k \in Nat \ {0} : i = 2 * k /\ i \div 2 = k /\ k < i
OBVIOUS

\* LowBit unfolds as it is defined.
LEMMA LowBitSolves ==
  ASSUME NEW i \in Nat \ {0}
  PROVE  LowBit[i] = IF i % 2 = 1 THEN 1 ELSE 2 * LowBit[i \div 2]
<1> DEFINE D == Nat \ {0}
           B == {n \in D : n % 2 = 1}
           e == [n \in D |-> 1]
           p == [n \in D |-> IF n % 2 = 1 THEN n ELSE n \div 2]
           h == [x \in D \X Nat |-> 2 * x[2]]
           rank == [n \in D |-> n]
           Low(f) == f = [n \in D |-> IF n % 2 = 1 THEN 1 ELSE 2 * f[n \div 2]]
<1>1. \A n \in D : n % 2 # 1 => n \div 2 \in D /\ n \div 2 < n
  BY Halves
<1>2. \E f \in [D -> Nat] : Unfolds(f, D, B, e, p, h)
  <2>1. B \in SUBSET D /\ e \in [D -> Nat] /\ rank \in [D -> Nat]
    OBVIOUS
  <2>2. p \in [D -> D]
    BY <1>1
  <2>3. h \in [D \X Nat -> Nat]
    OBVIOUS
  <2>4. \A d \in D \ B : rank[p[d]] < rank[d]
    BY <1>1
  <2> HIDE DEF D, B, e, p, h, rank
  <2>5. QED
    BY <2>1, <2>2, <2>3, <2>4, RecursionExists
<1>3. PICK f \in [D -> Nat] : Unfolds(f, D, B, e, p, h)
  BY <1>2
<1>4. \A n \in D : f[n] = IF n % 2 = 1 THEN 1 ELSE 2 * f[n \div 2]
  <2>1. \A n \in D : f[n] = IF n \in B THEN e[n] ELSE h[<<n, f[p[n]]>>]
    BY <1>3 DEF Unfolds
  <2>2. \A n \in D : f[n] \in Nat /\ p[n] \in D /\ f[p[n]] \in Nat
    BY <1>1
  <2>3. \A n \in D : h[<<n, f[p[n]]>>] = 2 * f[p[n]]
    BY <2>2
  <2>4. QED
    BY <2>1, <2>3
<1>5. Low(f)
  BY <1>4
<1>6. LowBit = CHOOSE g : Low(g)
  BY DEF LowBit
<1>7. Low(LowBit)
  BY <1>5, <1>6
<1>8. QED
  BY <1>7

\* The lowest bit of an odd and of an even number.
LEMMA LowBitCases ==
  /\ \A k \in Nat : LowBit[2 * k + 1] = 1
  /\ \A k \in Nat \ {0} : LowBit[2 * k] = 2 * LowBit[k]
<1>1. ASSUME NEW k \in Nat PROVE LowBit[2 * k + 1] = 1
  <2>1. PICK i \in Nat \ {0} : i = 2 * k + 1
    OBVIOUS
  <2>2. i % 2 = 1
    BY <2>1
  <2>3. QED
    BY <2>1, <2>2, LowBitSolves
<1>2. ASSUME NEW k \in Nat \ {0} PROVE LowBit[2 * k] = 2 * LowBit[k]
  <2>1. PICK i \in Nat \ {0} : i = 2 * k
    OBVIOUS
  <2>2. i % 2 # 1 /\ i \div 2 = k
    BY <2>1
  <2>3. QED
    BY <2>1, <2>2, LowBitSolves
<1>3. QED
  BY <1>1, <1>2

\* The lowest bit of a number is not above it.
LEMMA LowBitRange ==
  ASSUME NEW i \in Nat \ {0}
  PROVE  LowBit[i] \in Nat \ {0} /\ LowBit[i] <= i
<1> DEFINE T == {n \in Nat \ {0} : ~(LowBit[n] \in Nat \ {0} /\ LowBit[n] <= n)}
<1> SUFFICES ASSUME T # {} PROVE FALSE
  OBVIOUS
<1>1. PICK n \in T : \A m \in T : n <= m
  BY SmallestNat
<1>2. n \in Nat \ {0} /\ ~(LowBit[n] \in Nat \ {0} /\ LowBit[n] <= n)
  OBVIOUS
<1>3. \A m \in Nat \ {0} : m < n => LowBit[m] \in Nat \ {0} /\ LowBit[m] <= m
  BY <1>1
<1> HIDE DEF T
<1>4. ASSUME NEW k \in Nat, n = 2 * k + 1 PROVE FALSE
  <2>1. LowBit[n] = 1
    BY <1>4, LowBitCases
  <2>2. QED
    BY <1>2, <2>1
<1>5. PICK k \in Nat \ {0} : n = 2 * k /\ k < n
  BY <1>2, <1>4, Halves
<1>6. LowBit[n] = 2 * LowBit[k] /\ LowBit[k] \in Nat \ {0} /\ LowBit[k] <= k
  BY <1>3, <1>5, LowBitCases
<1>7. QED
  BY <1>2, <1>5, <1>6

\* A node that lies inside the range of another is followed, in the walk of
\* add(), by a node that does not lie behind it.
LEMMA WalkStaysBelow ==
  ASSUME NEW j \in Nat \ {0}, NEW i \in Nat \ {0}, i < j, j - LowBit[j] < i
  PROVE  i + LowBit[i] <= j
<1> DEFINE Bad(n) == \E m \in Nat \ {0} : m < n /\ n - LowBit[n] < m /\ ~(m + LowBit[m] <= n)
           T == {n \in Nat \ {0} : Bad(n)}
<1> SUFFICES ASSUME T # {} PROVE FALSE
  OBVIOUS
<1>1. PICK n \in T : \A l \in T : n <= l
  BY SmallestNat
<1>2. n \in Nat \ {0} /\ Bad(n)
  OBVIOUS
<1>3. \A l \in Nat \ {0} : l < n => ~Bad(l)
  BY <1>1
<1> HIDE DEF T
<1>4. PICK m \in Nat \ {0} : m < n /\ n - LowBit[n] < m /\ ~(m + LowBit[m] <= n)
  BY <1>2
<1>5. ~\E k \in Nat : n = 2 * k + 1
  BY <1>4, LowBitCases
<1>6. PICK k \in Nat \ {0} : n = 2 * k /\ k < n
  BY <1>2, <1>5, Halves
<1>7. ASSUME NEW l \in Nat, m = 2 * l + 1 PROVE FALSE
  <2>1. LowBit[m] = 1
    BY <1>7, LowBitCases
  <2>2. QED
    BY <1>4, <1>6, <1>7, <2>1
<1>8. PICK l \in Nat \ {0} : m = 2 * l
  BY <1>7, Halves
<1>9. /\ LowBit[n] = 2 * LowBit[k] /\ LowBit[k] \in Nat
      /\ LowBit[m] = 2 * LowBit[l] /\ LowBit[l] \in Nat
  BY <1>6, <1>8, LowBitCases, LowBitRange
<1>10. l < k /\ k - LowBit[k] < l /\ ~(l + LowBit[l] <= k)
  BY <1>4, <1>6, <1>8, <1>9
<1>11. QED
  BY <1>3, <1>6, <1>10

\* The range of a node that the walk of add() reaches from i, and that i is not
\* in, begins behind the next node of the walk.
LEMMA WalkSkipsNone ==
  ASSUME NEW j \in Nat \ {0}, NEW i \in Nat \ {0}, i <= j - LowBit[j], i + LowBit[i] <= j
  PROVE  i + LowBit[i] <= j - LowBit[j]
<1> DEFINE Bad(n) == \E m \in Nat \ {0} : /\ m <= n - LowBit[n] /\ m + LowBit[m] <= n
                                        /\ ~(m + LowBit[m] <= n - LowBit[n])
           T == {n \in Nat \ {0} : Bad(n)}
<1> SUFFICES ASSUME T # {} PROVE FALSE
  OBVIOUS
<1>1. PICK n \in T : \A l \in T : n <= l
  BY SmallestNat
<1>2. n \in Nat \ {0} /\ Bad(n)
  OBVIOUS
<1>3. \A l \in Nat \ {0} : l < n => ~Bad(l)
  BY <1>1
<1> HIDE DEF T
<1>4. PICK m \in Nat \ {0} : /\ m <= n - LowBit[n] /\ m + LowBit[m] <= n
                            /\ ~(m + LowBit[m] <= n - LowBit[n])
  BY <1>2
<1>5. LowBit[n] \in Nat \ {0} /\ LowBit[m] \in Nat \ {0}
  BY <1>2, LowBitRange
<1>6. m % 2 = 1 => \E l \in Nat : m = 2 * l + 1 /\ LowBit[m] = 1
  BY Halves, LowBitCases
<1>7. m % 2 # 1 => \E l \in Nat \ {0} : m = 2 * l /\ LowBit[m] = 2 * LowBit[l] /\ LowBit[l] \in Nat
  BY Halves, LowBitCases, LowBitRange
<1>8. n % 2 = 1 => \E k \in Nat : n = 2 * k + 1 /\ LowBit[n] = 1
  BY <1>2, Halves, LowBitCases
<1>9. n % 2 # 1 => \E k \in Nat \ {0} : /\ n = 2 * k /\ k < n
                                       /\ LowBit[n] = 2 * LowBit[k] /\ LowBit[k] \in Nat
  BY <1>2, Halves, LowBitCases, LowBitRange
<1>10. CASE n % 2 = 1 /\ m % 2 = 1
  <2>1. PICK l \in Nat : m = 2 * l + 1 /\ LowBit[m] = 1
    BY <1>6, <1>10
  <2>2. PICK k \in Nat : n = 2 * k + 1 /\ LowBit[n] = 1
    BY <1>8, <1>10
  <2>3. QED
    BY <1>4, <2>1, <2>2
<1>11. CASE n % 2 = 1 /\ m % 2 # 1
  <2>1. PICK l \in Nat \ {0} : m = 2 * l /\ LowBit[m] = 2 * LowBit[l] /\ LowBit[l] \in Nat
    BY <1>7, <1>11
  <2>2. PICK k \in Nat : n = 2 * k + 1 /\ LowBit[n] = 1
    BY <1>8, <1>11
  <2>3. QED
    BY <1>4, <2>1, <2>2
<1>12. CASE n % 2 # 1 /\ m % 2 = 1
  <2>1. PICK l \in Nat : m = 2 * l + 1 /\ LowBit[m] = 1
    BY <1>6, <1>12
  <2>2. PICK k \in Nat \ {0} : n = 2 * k /\ LowBit[n] = 2 * LowBit[k] /\ LowBit[k] \in Nat
    BY <1>9, <1>12
  <2>3. QED
    BY <1>4, <2>1, <2>2
<1>13. CASE n % 2 # 1 /\ m % 2 # 1
  <2>1. PICK l \in Nat \ {0} : m = 2 * l /\ LowBit[m] = 2 * LowBit[l] /\ LowBit[l] \in Nat
    BY <1>7, <1>13
  <2>2. PICK k \in Nat \ {0} : /\ n = 2 * k /\ k < n
                              /\ LowBit[n] = 2 * LowBit[k] /\ LowBit[k] \in Nat
    BY <1>9, <1>13
  <2>3. /\ l <= k - LowBit[k] /\ l + LowBit[l] <= k
        /\ ~(l + LowBit[l] <= k - LowBit[k])
    BY <1>4, <2>1, <2>2
  <2>4. QED
    BY <1>3, <2>2, <2>3
<1>14. QED
  BY <1>10, <1>11, <1>12, <1>13

\* A power of two is its own lowest bit.
PowerOfTwo(b) == b \in Nat \ {0} /\ LowBit[b] = b

\* Below the lowest bit of a number, a power of two is the lowest bit of the sum.
LEMMA LowBitOfSum ==
  ASSUME NEW b, PowerOfTwo(b), NEW x \in Nat, x = 0 \/ LowBit[x] > b
  PROVE  LowBit[x + b] = b
<1> DEFINE Above(y, n) == y = 0 \/ LowBit[y] > n
           Bad(n) == PowerOfTwo(n) /\ \E y \in Nat : Above(y, n) /\ LowBit[y + n] # n
           T == {n \in Nat \ {0} : Bad(n)}
<1>0. b \in Nat \ {0}
  BY DEF PowerOfTwo
<1> SUFFICES ASSUME T # {} PROVE FALSE
  BY <1>0
<1>1. PICK n \in T : \A l \in T : n <= l
  BY SmallestNat
<1>2. n \in Nat \ {0} /\ Bad(n)
  OBVIOUS
<1>3. \A l \in Nat \ {0} : l < n => ~Bad(l)
  BY <1>1
<1> HIDE DEF T
<1>4. PICK y \in Nat : Above(y, n) /\ LowBit[y + n] # n
  BY <1>2
<1>5. LowBit[n] = n
  BY <1>2 DEF PowerOfTwo
<1>6. y # 0
  BY <1>2, <1>4, <1>5
<1>7. LowBit[y] > n
  BY <1>4, <1>6
<1>8. y % 2 # 1
  BY <1>2, <1>6, <1>7, Halves, LowBitCases
<1>9. PICK z \in Nat \ {0} : y = 2 * z
  BY <1>6, <1>8, Halves
<1>10. LowBit[y] = 2 * LowBit[z] /\ LowBit[z] \in Nat
  BY <1>9, LowBitCases, LowBitRange
<1>11. CASE n % 2 = 1
  <2>1. PICK k \in Nat : n = 2 * k + 1
    BY <1>2, <1>11, Halves
  <2>2. n = 1
    BY <1>5, <2>1, LowBitCases
  <2>3. LowBit[2 * z + 1] = 1
    BY LowBitCases
  <2>4. QED
    BY <1>4, <1>9, <2>2, <2>3
<1>12. CASE n % 2 # 1
  <2>1. PICK k \in Nat \ {0} : n = 2 * k /\ k < n
    BY <1>2, <1>12, Halves
  <2>2. LowBit[n] = 2 * LowBit[k] /\ LowBit[k] \in Nat
    BY <2>1, LowBitCases, LowBitRange
  <2>3. PowerOfTwo(k) /\ LowBit[z] > k
    BY <1>5, <1>7, <1>10, <2>1, <2>2 DEF PowerOfTwo
  <2>4. LowBit[z + k] = k
    BY <1>3, <2>1, <2>3
  <2>5. y + n = 2 * (z + k) /\ z + k \in Nat \ {0}
    BY <1>9, <2>1
  <2>6. LowBit[y + n] = 2 * k
    BY <2>4, <2>5, LowBitCases
  <2>7. QED
    BY <1>4, <2>1, <2>6
<1>13. QED
  BY <1>11, <1>12

\* Half of a power of two is one, or zero.
LEMMA PowerOfTwoHalf ==
  ASSUME NEW b, PowerOfTwo(b)
  PROVE  \/ b = 1 /\ b \div 2 = 0
         \/ PowerOfTwo(b \div 2) /\ b = 2 * (b \div 2)
<1>1. b \in Nat \ {0} /\ LowBit[b] = b
  BY DEF PowerOfTwo
<1>2. CASE b % 2 = 1
  BY <1>1, <1>2, LowBitSolves
<1>3. CASE b % 2 # 1
  <2>1. PICK k \in Nat \ {0} : b = 2 * k /\ b \div 2 = k
    BY <1>1, <1>3, Halves
  <2>2. LowBit[b] = 2 * LowBit[k] /\ LowBit[k] \in Nat
    BY <2>1, LowBitCases, LowBitRange
  <2>3. QED
    BY <1>1, <2>1, <2>2 DEF PowerOfTwo
<1>4. QED
  BY <1>2, <1>3
-----------------------------------------------------------------------------
(* Counting the marked indices. *)

\* The number of marked indices below x.
Below(A, x) == Cardinality({i \in A : i < x})

\* How many members of a set lie below a number, from 0 to the last.
LEMMA BelowFacts ==
  ASSUME NEW n \in Nat, NEW A \in SUBSET (0 .. n - 1)
  PROVE  /\ IsFiniteSet(A) /\ Cardinality(A) \in Nat
         /\ \A x \in Nat : Below(A, x) \in Nat
         /\ Below(A, 0) = 0
         /\ \A x \in Nat : x >= n => Below(A, x) = Cardinality(A)
         /\ \A x \in Nat : Below(A, x + 1) = Below(A, x) + (IF x \in A THEN 1 ELSE 0)
<1>1. IsFiniteSet(A) /\ \A x \in A : x \in Nat /\ x < n
  <2>1. IsFiniteSet(0 .. n - 1)
    BY FS_Interval
  <2>2. IsFiniteSet(A)
    BY <2>1, FS_Subset
  <2>3. \A x \in A : x \in 0 .. n - 1
    BY Zenon
  <2>4. QED
    BY <2>2, <2>3
<1>2. \A B \in SUBSET A : IsFiniteSet(B) /\ Cardinality(B) \in Nat
  BY <1>1, FS_Subset, FS_CardinalityType
<1>3. ASSUME NEW x \in Nat PROVE Below(A, x) \in Nat
  BY <1>2 DEF Below
<1>4. Below(A, 0) = 0
  <2>1. \A i \in A : ~(i < 0)
    BY <1>1
  <2>2. {i \in A : i < 0} = {}
    BY <2>1, Zenon
  <2>3. QED
    BY <2>2, FS_EmptySet DEF Below
<1>5. ASSUME NEW x \in Nat, x >= n PROVE Below(A, x) = Cardinality(A)
  <2>1. \A i \in A : i < x
    BY <1>1, <1>5
  <2>2. {i \in A : i < x} = A
    BY <2>1, Zenon
  <2>3. QED
    BY <2>2 DEF Below
<1>6. ASSUME NEW x \in Nat PROVE Below(A, x + 1) = Below(A, x) + (IF x \in A THEN 1 ELSE 0)
  <2> DEFINE U == {i \in A : i < x}
             V == {i \in A : i < x + 1}
  <2>1. \A i \in A : i < x + 1 <=> (i < x \/ i = x)
    BY <1>1
  <2>2. \A i : i \in V <=> i \in U \/ (i \in A /\ i = x)
    BY <2>1, Zenon
  <2>3. x \notin U /\ IsFiniteSet(U) /\ Cardinality(U) \in Nat
    BY <1>1, <1>2
  <2>4. Below(A, x) = Cardinality(U) /\ Below(A, x + 1) = Cardinality(V)
    BY DEF Below
  <2> HIDE DEF U, V
  <2>5. CASE x \in A
    <3>1. V = U \cup {x}
      BY <2>2, <2>5
    <3>2. Cardinality(V) = Cardinality(U) + 1
      BY <2>3, <3>1, FS_AddElement
    <3>3. QED
      BY <2>4, <2>5, <3>2
  <2>6. CASE x \notin A
    <3>1. V = U
      BY <2>2, <2>6
    <3>2. QED
      BY <2>3, <2>4, <2>6, <3>1
  <2>7. QED
    BY <2>5, <2>6
<1>7. QED
  BY <1>1, <1>2, <1>3, <1>4, <1>5, <1>6

\* The marked indices of a range.
LEMMA RangeCount ==
  ASSUME NEW n \in Nat, NEW A \in SUBSET (0 .. n - 1), NEW x \in Nat, NEW y \in Nat, x <= y
  PROVE  Below(A, y) = Cardinality({i \in A : x <= i /\ i < y}) + Below(A, x)
<1> DEFINE U == {i \in A : i < x}
           V == {i \in A : x <= i /\ i < y}
<1>1. IsFiniteSet(A) /\ \A i \in A : i \in Nat
  BY BelowFacts
<1>2. IsFiniteSet(U) /\ IsFiniteSet(V) /\ Cardinality(U) \in Nat /\ Cardinality(V) \in Nat
  BY <1>1, FS_Subset, FS_CardinalityType
<1> DEFINE W == {i \in A : i < y}
<1>3. W = U \cup V /\ U \cap V = {}
  <2>1. \A i \in A : /\ i < y <=> (i < x \/ (x <= i /\ i < y))
                    /\ ~(i < x /\ x <= i)
    BY <1>1
  <2>2. QED
    BY <2>1, Zenon
<1>4. Below(A, y) = Cardinality(W) /\ Below(A, x) = Cardinality(U)
  BY DEF Below
<1>5. Cardinality({i \in A : x <= i /\ i < y}) = Cardinality(V)
  OBVIOUS
<1> HIDE DEF U, V, W
<1>6. Cardinality(W) = Cardinality(U) + Cardinality(V)
  BY <1>2, <1>3, FS_Union, FS_EmptySet
<1>7. QED
  BY <1>2, <1>4, <1>5, <1>6

\* A node holds the number of marked indices of its range.
LEMMA TreeNode ==
  ASSUME NEW n \in Nat, NEW A \in SUBSET (0 .. n - 1), NEW j \in 1 .. n
  PROVE  /\ TreeOf(n, A)[j] \in Nat
         /\ Below(A, j) = TreeOf(n, A)[j] + Below(A, j - LowBit[j])
         /\ LowBit[j] \in 1 .. j /\ j - LowBit[j] \in Nat
<1>1. LowBit[j] \in 1 .. j /\ j - LowBit[j] \in Nat /\ j - LowBit[j] <= j
  BY LowBitRange
<1> DEFINE V == {i \in A : j - LowBit[j] <= i /\ i < j}
<1>2. TreeOf(n, A)[j] = Cardinality(V)
  BY DEF TreeOf
<1>3. Cardinality(V) \in Nat
  BY BelowFacts, FS_Subset, FS_CardinalityType
<1>4. PICK x \in Nat : x = j - LowBit[j]
  BY <1>1
<1>5. Below(A, j) = Cardinality({i \in A : x <= i /\ i < j}) + Below(A, x)
  BY <1>1, <1>4, RangeCount, j \in Nat
<1>6. QED
  BY <1>1, <1>2, <1>3, <1>4, <1>5

\* A tree has one node for each index.
LEMMA TreeShape ==
  ASSUME NEW n \in Nat, NEW A
  PROVE  Len(TreeOf(n, A)) = n /\ DOMAIN TreeOf(n, A) = 1 .. n
BY DEF TreeOf

\* add() visits the nodes whose range holds the index.
LEMMA NodesAboveAre ==
  ASSUME NEW n \in Nat, NEW i \in Nat \ {0}
  PROVE  NodesAbove(n, i) = {j \in 1 .. n : j - LowBit[j] < i /\ i <= j}
<1> DEFINE Above(f) == f = [j \in Nat \ {0} |-> IF j > n THEN {} ELSE {j} \cup f[j + LowBit[j]]]
           g == [j \in Nat \ {0} |-> {m \in 1 .. n : m - LowBit[m] < j /\ j <= m}]
           above == CHOOSE f : Above(f)
<1>0. \A j \in Nat \ {0} : LowBit[j] \in Nat \ {0} /\ LowBit[j] <= j
  BY LowBitRange
<1>1. ASSUME NEW j \in Nat \ {0}
      PROVE  g[j] = IF j > n THEN {} ELSE {j} \cup g[j + LowBit[j]]
  <2>1. CASE j > n
    BY <2>1
  <2>2. CASE ~(j > n)
    <3>1. ASSUME NEW m \in 1 .. n, m - LowBit[m] < j, j <= m, m # j
          PROVE  m - LowBit[m] < j + LowBit[j] /\ j + LowBit[j] <= m
      <4>1. j + LowBit[j] <= m
        BY <3>1, WalkStaysBelow
      <4>2. QED
        BY <1>0, <3>1, <4>1
    <3>2. ASSUME NEW m \in 1 .. n, m - LowBit[m] < j + LowBit[j], j + LowBit[j] <= m
          PROVE  m - LowBit[m] < j /\ j <= m
      <4>1. ~(j <= m - LowBit[m])
        BY <1>0, <3>2, WalkSkipsNone
      <4>2. QED
        BY <1>0, <3>2, <4>1
    <3>3. j - LowBit[j] < j /\ j <= j /\ j \in 1 .. n
      BY <1>0, <2>2
    <3>4. j + LowBit[j] \in Nat \ {0}
      BY <1>0
    <3>5. g[j + LowBit[j]] = {m \in 1 .. n : m - LowBit[m] < j + LowBit[j] /\ j + LowBit[j] <= m}
      BY <3>4
    <3>6. \A m : m \in g[j] <=> m \in {j} \cup g[j + LowBit[j]]
      BY <3>1, <3>2, <3>3, <3>5
    <3>7. QED
      BY <2>2, <3>6
  <2>3. QED
    BY <2>1, <2>2
<1>2. Above(g)
  <2>1. g = [j \in Nat \ {0} |-> g[j]]
    OBVIOUS
  <2> HIDE DEF g
  <2>2. QED
    BY <1>1, <2>1
<1>3. Above(above)
  BY <1>2
<1>4. NodesAbove(n, i) = above[i]
  BY DEF NodesAbove
<1> HIDE DEF above, g
<1>5. \A j \in Nat \ {0} : above[j] = IF j > n THEN {} ELSE {j} \cup above[j + LowBit[j]]
  BY <1>3
<1>6. \A j \in Nat \ {0} : above[j] = g[j]
  <2> DEFINE T == {n - j : j \in {m \in 1 .. n : above[m] # g[m]}}
  <2>1. \A j \in Nat \ {0} : j > n => above[j] = g[j]
    BY <1>1, <1>5
  <2> SUFFICES ASSUME T # {} PROVE FALSE
    BY <2>1
  <2>2. T \in SUBSET Nat
    OBVIOUS
  <2>3. PICK t \in T : \A u \in T : t <= u
    BY <2>2, SmallestNat
  <2>4. PICK j \in 1 .. n : t = n - j /\ above[j] # g[j]
    BY <2>3
  <2>5. above[j + LowBit[j]] # g[j + LowBit[j]]
    <3>1. j \in Nat \ {0}
      OBVIOUS
    <3>2. /\ above[j] = IF j > n THEN {} ELSE {j} \cup above[j + LowBit[j]]
          /\ g[j] = IF j > n THEN {} ELSE {j} \cup g[j + LowBit[j]]
      BY <1>1, <1>5, <3>1
    <3>3. QED
      BY <2>4, <3>2
  <2>6. j + LowBit[j] \in Nat \ {0} /\ j + LowBit[j] > j /\ j \in Nat \ {0}
    BY <1>0
  <2>7. j + LowBit[j] \in 1 .. n
    BY <2>1, <2>5, <2>6
  <2>8. n - (j + LowBit[j]) \in T
    BY <2>5, <2>7
  <2> HIDE DEF T
  <2>9. n - j <= n - (j + LowBit[j])
    BY <2>3, <2>4, <2>8
  <2>10. QED
    BY <2>6, <2>7, <2>9
<1>7. QED
  BY <1>4, <1>6 DEF g

\* sumAll() counts the marked indices.
LEMMA SumAllCounts ==
  ASSUME NEW n \in Nat, NEW A \in SUBSET (0 .. n - 1)
  PROVE  SumAll(TreeOf(n, A)) = Cardinality(A)
<1> DEFINE tree == TreeOf(n, A)
           Sums(f) == f = [i \in 0 .. n |-> IF i = 0 THEN 0 ELSE tree[i] + f[i - LowBit[i]]]
           g == [i \in 0 .. n |-> Below(A, i)]
           sum == CHOOSE f : Sums(f)
<1>1. Len(tree) = n
  BY TreeShape
<1>2. SumAll(tree) = sum[n]
  BY <1>1 DEF SumAll
<1>3. \A i \in 1 .. n : i - LowBit[i] \in 0 .. n /\ i - LowBit[i] < i
  BY LowBitRange
<1>4. \A i \in 1 .. n : g[i] = tree[i] + g[i - LowBit[i]]
  BY <1>3, TreeNode
<1>5. g[0] = 0 /\ g[n] = Cardinality(A)
  BY BelowFacts
<1> HIDE DEF tree
<1>6. Sums(g)
  <2>1. g = [i \in 0 .. n |-> g[i]]
    OBVIOUS
  <2> HIDE DEF g
  <2>2. \A i \in 0 .. n : g[i] = IF i = 0 THEN 0 ELSE tree[i] + g[i - LowBit[i]]
    BY <1>4, <1>5
  <2>3. QED
    BY <2>1, <2>2
<1>7. Sums(sum)
  BY <1>6
<1> HIDE DEF sum, g
<1>8. sum[0] = 0 /\ \A i \in 1 .. n : sum[i] = tree[i] + sum[i - LowBit[i]]
  BY <1>7
<1>9. \A i \in 0 .. n : sum[i] = g[i]
  <2> DEFINE T == {i \in 0 .. n : sum[i] # g[i]}
  <2> SUFFICES ASSUME T # {} PROVE FALSE
    OBVIOUS
  <2>1. T \in SUBSET Nat
    OBVIOUS
  <2>2. PICK i \in T : \A j \in T : i <= j
    BY <2>1, SmallestNat
  <2>3. i \in 0 .. n /\ sum[i] # g[i]
    OBVIOUS
  <2>4. i \in 1 .. n
    BY <1>5, <1>8, <2>3
  <2>5. sum[i - LowBit[i]] # g[i - LowBit[i]]
    BY <1>4, <1>8, <2>3, <2>4
  <2>6. i - LowBit[i] \in T
    BY <1>3, <2>4, <2>5
  <2> HIDE DEF T
  <2>7. i <= i - LowBit[i]
    BY <2>2, <2>6
  <2>8. QED
    BY <1>3, <2>4, <2>7
<1>10. QED
  BY <1>2, <1>5, <1>9 DEF tree

\* Marking an index keeps every node exact.
LEMMA AddMarks ==
  ASSUME NEW n \in Nat, NEW A \in SUBSET (0 .. n - 1), NEW i \in (0 .. n - 1) \ A
  PROVE  Add(TreeOf(n, A), i, 1) = TreeOf(n, A \cup {i})
<1> DEFINE Part(B, j) == {k \in B : j - LowBit[j] <= k /\ k < j}
<1>1. Len(TreeOf(n, A)) = n /\ DOMAIN TreeOf(n, A) = 1 .. n /\ i + 1 \in Nat \ {0} /\ i \in Nat
  BY TreeShape
<1>2. /\ TreeOf(n, A) = [j \in 1 .. n |-> Cardinality(Part(A, j))]
      /\ TreeOf(n, A \cup {i}) = [j \in 1 .. n |-> Cardinality(Part(A \cup {i}, j))]
  BY DEF TreeOf
<1>3. Add(TreeOf(n, A), i, 1) =
        [j \in 1 .. n |-> IF j \in NodesAbove(n, i + 1) THEN TreeOf(n, A)[j] + 1
                                                       ELSE TreeOf(n, A)[j]]
  BY <1>1 DEF Add
<1>4. \A j \in 1 .. n : j \in NodesAbove(n, i + 1) <=> (j - LowBit[j] <= i /\ i < j)
  <2> TAKE j \in 1 .. n
  <2>1. j \in NodesAbove(n, i + 1) <=> (j - LowBit[j] < i + 1 /\ i + 1 <= j)
    BY <1>1, NodesAboveAre
  <2>2. j - LowBit[j] \in Int
    BY LowBitRange
  <2>3. QED
    BY <1>1, <2>1, <2>2
<1>5. \A j \in 1 .. n : IsFiniteSet(Part(A, j)) /\ i \notin Part(A, j)
  BY BelowFacts, FS_Subset
<1>6. ASSUME NEW j \in 1 .. n
      PROVE  Cardinality(Part(A \cup {i}, j)) =
               IF j - LowBit[j] <= i /\ i < j THEN Cardinality(Part(A, j)) + 1
               ELSE Cardinality(Part(A, j))
  <2>1. CASE j - LowBit[j] <= i /\ i < j
    <3>1. Part(A \cup {i}, j) = Part(A, j) \cup {i}
      BY <2>1, Zenon
    <3>2. Cardinality(Part(A, j) \cup {i}) = Cardinality(Part(A, j)) + 1
      BY <1>5, FS_AddElement
    <3>3. QED
      BY <2>1, <3>1, <3>2
  <2>2. CASE ~(j - LowBit[j] <= i /\ i < j)
    <3>1. Part(A \cup {i}, j) = Part(A, j)
      BY <2>2, Zenon
    <3>2. QED
      BY <2>2, <3>1
  <2>3. QED
    BY <2>1, <2>2
<1> HIDE DEF Part
<1>7. QED
  BY <1>2, <1>3, <1>4, <1>6, ZenonT(30)

\* Clearing it undoes that.
LEMMA AddClears ==
  ASSUME NEW n \in Nat, NEW A \in SUBSET (0 .. n - 1), NEW i \in A
  PROVE  Add(TreeOf(n, A), i, -1) = TreeOf(n, A \ {i})
<1> DEFINE B == A \ {i}
           visited == NodesAbove(n, i + 1)
<1>1. B \in SUBSET (0 .. n - 1) /\ i \in (0 .. n - 1) \ B /\ A = B \cup {i}
  OBVIOUS
<1>2. TreeOf(n, A) = Add(TreeOf(n, B), i, 1)
  BY <1>1, AddMarks
<1> HIDE DEF B
<1>3. /\ Len(TreeOf(n, A)) = n /\ DOMAIN TreeOf(n, A) = 1 .. n
      /\ Len(TreeOf(n, B)) = n /\ DOMAIN TreeOf(n, B) = 1 .. n
  BY TreeShape
<1>4. \A j \in 1 .. n : TreeOf(n, B)[j] \in Nat
  BY <1>1, TreeNode
<1>5. \A j \in 1 .. n : TreeOf(n, A)[j] = IF j \in visited THEN TreeOf(n, B)[j] + 1
                                                       ELSE TreeOf(n, B)[j]
  BY <1>2, <1>3 DEF Add
<1>6. Add(TreeOf(n, A), i, -1) =
        [j \in 1 .. n |-> IF j \in visited THEN TreeOf(n, A)[j] + (-1) ELSE TreeOf(n, A)[j]]
  BY <1>3 DEF Add
<1> HIDE DEF visited
<1>7. TreeOf(n, B) = [j \in 1 .. n |-> TreeOf(n, B)[j]]
  BY DEF TreeOf
<1>8. \A j \in 1 .. n : (IF j \in visited THEN TreeOf(n, A)[j] + (-1) ELSE TreeOf(n, A)[j])
                        = TreeOf(n, B)[j]
  BY <1>4, <1>5
<1>9. QED
  BY <1>6, <1>7, <1>8 DEF B

-----------------------------------------------------------------------------
(* The search. *)

\* The search starts at the largest power of two that is a node.
LEMMA TopBitIs ==
  ASSUME NEW n \in Nat \ {0}
  PROVE  PowerOfTwo(TopBit(n)) /\ TopBit(n) <= n /\ n < 2 * TopBit(n)
<1> DEFINE B == {b \in Nat : b = 0 \/ 2 * b > n}
           e == [b \in Nat |-> b]
           p == [b \in Nat |-> 2 * b]
           h == [x \in Nat \X Nat |-> x[2]]
           rank == [b \in Nat |-> IF b <= n THEN n - b ELSE 0]
           Grows(f) == f = [bit \in Nat |-> IF 2 * bit <= n THEN f[2 * bit] ELSE bit]
           grown == CHOOSE f : Grows(f)
<1>1. \E f \in [Nat -> Nat] : Unfolds(f, Nat, B, e, p, h)
  <2>1. B \in SUBSET Nat /\ e \in [Nat -> Nat] /\ p \in [Nat -> Nat] /\ rank \in [Nat -> Nat]
    OBVIOUS
  <2>2. h \in [Nat \X Nat -> Nat]
    OBVIOUS
  <2>3. \A b \in Nat \ B : rank[p[b]] < rank[b]
    OBVIOUS
  <2> HIDE DEF B, e, p, h, rank
  <2>4. QED
    BY <2>1, <2>2, <2>3, RecursionExists
<1>2. PICK f \in [Nat -> Nat] : Unfolds(f, Nat, B, e, p, h)
  BY <1>1
<1>3. Grows(f)
  <2>1. \A b \in Nat : f[b] = IF b \in B THEN e[b] ELSE h[<<b, f[p[b]]>>]
    BY <1>2 DEF Unfolds
  <2>2. \A b \in Nat : 2 * b \in Nat /\ f[2 * b] \in Nat
    OBVIOUS
  <2>3. \A b \in Nat : h[<<b, f[p[b]]>>] = f[2 * b]
    BY <2>2
  <2>4. \A b \in Nat : f[b] = IF 2 * b <= n THEN f[2 * b] ELSE b
    <3> TAKE b \in Nat
    <3>1. CASE b = 0
      BY <3>1
    <3>2. CASE b # 0 /\ 2 * b > n
      <4>1. f[b] = b
        BY <2>1, <3>2
      <4>2. QED
        BY <3>2, <4>1
    <3>3. CASE b # 0 /\ ~(2 * b > n)
      <4>1. f[b] = f[2 * b]
        BY <2>1, <2>3, <3>3
      <4>2. QED
        BY <3>3, <4>1
    <3>4. QED
      BY <3>1, <3>2, <3>3
  <2>5. QED
    BY <2>4
<1>4. Grows(grown)
  BY <1>3
<1>5. TopBit(n) = grown[1]
  BY DEF TopBit
<1> HIDE DEF grown
<1>6. \A b \in Nat : grown[b] = IF 2 * b <= n THEN grown[2 * b] ELSE b
  BY <1>4
<1> DEFINE Good(t) == PowerOfTwo(t) /\ t <= n /\ n < 2 * t
           T == {n - b : b \in {c \in 1 .. n : PowerOfTwo(c) /\ ~Good(grown[c])}}
<1>7. T = {}
  <2> SUFFICES ASSUME T # {} PROVE FALSE
    OBVIOUS
  <2>1. T \in SUBSET Nat
    OBVIOUS
  <2>2. PICK t \in T : \A u \in T : t <= u
    BY <2>1, SmallestNat
  <2>3. PICK b \in 1 .. n : t = n - b /\ PowerOfTwo(b) /\ ~Good(grown[b])
    BY <2>2
  <2>4. CASE 2 * b <= n
    <3>1. grown[b] = grown[2 * b] /\ 2 * b \in 1 .. n
      BY <1>6, <2>4
    <3>2. PowerOfTwo(2 * b)
      BY <2>3, LowBitCases DEF PowerOfTwo
    <3>3. n - 2 * b \in T
      BY <2>3, <3>1, <3>2
    <3> HIDE DEF T
    <3>4. n - b <= n - 2 * b
      BY <2>2, <2>3, <3>3
    <3>5. QED
      BY <3>4
  <2>5. CASE ~(2 * b <= n)
    <3>1. grown[b] = b
      BY <1>6, <2>5
    <3>2. Good(b)
      BY <2>3, <2>5
    <3>3. QED
      BY <2>3, <3>1, <3>2
  <2>6. QED
    BY <2>4, <2>5
<1>8. PowerOfTwo(1)
  BY LowBitCases DEF PowerOfTwo
<1>9. 1 \in 1 .. n
  OBVIOUS
<1>10. Good(grown[1])
  BY <1>7, <1>8, <1>9
<1>11. QED
  BY <1>5, <1>10

\* The states of the search, and the steps that findByOrder() takes from one.
SearchAt(b, i, r) == [bit |-> b, idx |-> i, remaining |-> r]

Searches(f, tree) ==
  \A b \in Nat, i \in Nat, r \in Int :
    f[SearchAt(b, i, r)] =
      IF b = 0 THEN i
      ELSE IF Skips(tree, i + b, r) THEN f[SearchAt(b \div 2, i + b, r - tree[i + b])]
                                    ELSE f[SearchAt(b \div 2, i, r)]

\* The descent of findByOrder() is a function of the bit, the position and what is left.
LEMMA SearchExists ==
  ASSUME NEW n \in Nat, NEW A \in SUBSET (0 .. n - 1), NEW order \in Int
  PROVE  \E f : /\ Searches(f, TreeOf(n, A))
               /\ FindByOrder(TreeOf(n, A), order) = f[SearchAt(TopBit(n), 0, order)]
<1> DEFINE tree == TreeOf(n, A)
           D == [bit : Nat, idx : Nat, remaining : Int]
           B == {d \in D : d.bit = 0}
           e == [d \in D |-> d.idx]
           next(d) == d.idx + d.bit
           p == [d \in D |->
                   IF d.bit = 0 THEN d
                   ELSE IF Skips(tree, next(d), d.remaining)
                        THEN SearchAt(d.bit \div 2, next(d), d.remaining - tree[next(d)])
                        ELSE SearchAt(d.bit \div 2, d.idx, d.remaining)]
           h == [x \in D \X Nat |-> x[2]]
           rank == [d \in D |-> d.bit]
           Finds(f) == f = [at \in D |->
                              IF at.bit = 0 THEN at.idx
                              ELSE IF Skips(tree, next(at), at.remaining)
                                   THEN f[[bit |-> at.bit \div 2, idx |-> next(at),
                                           remaining |-> at.remaining - tree[next(at)]]]
                                   ELSE f[[at EXCEPT !.bit = @ \div 2]]]
           found == CHOOSE f : Finds(f)
<1>1. Len(tree) = n /\ \A j \in 1 .. n : tree[j] \in Nat
  BY TreeShape, TreeNode
<1>2. FindByOrder(tree, order) = found[SearchAt(TopBit(n), 0, order)]
  BY <1>1 DEF FindByOrder, SearchAt
<1> HIDE DEF tree
<1>3. \A d \in D : /\ d.bit \in Nat /\ d.idx \in Nat /\ d.remaining \in Int
                  /\ [d EXCEPT !.bit = @ \div 2] = SearchAt(d.bit \div 2, d.idx, d.remaining)
  BY DEF SearchAt
<1>4. ASSUME NEW d \in D, d.bit # 0
      PROVE  /\ d.bit \div 2 \in Nat /\ d.bit \div 2 < d.bit
             /\ Skips(tree, next(d), d.remaining) =>
                  next(d) \in Nat /\ d.remaining - tree[next(d)] \in Int
  <2>1. PICK b \in Nat : b = d.bit
    BY <1>3
  <2>2. PICK i \in Nat : i = d.idx
    BY <1>3
  <2>3. PICK r \in Int : r = d.remaining
    BY <1>3
  <2>4. b \div 2 \in Nat /\ b \div 2 < b
    BY <1>4, <2>1
  <2>5. ASSUME Skips(tree, i + b, r) PROVE i + b \in Nat /\ r - tree[i + b] \in Int
    <3>1. i + b \in 1 .. n
      BY <1>1, <1>4, <2>1, <2>5 DEF Skips
    <3>2. QED
      BY <1>1, <3>1
  <2>6. QED
    BY <2>1, <2>2, <2>3, <2>4, <2>5
<1>5. \A b \in Nat, i \in Nat, r \in Int : /\ SearchAt(b, i, r) \in D
                                         /\ SearchAt(b, i, r).bit = b
                                         /\ SearchAt(b, i, r).idx = i
                                         /\ SearchAt(b, i, r).remaining = r
  BY DEF SearchAt
<1>6. ASSUME NEW d \in D PROVE p[d] \in D /\ (d \notin B => rank[p[d]] < rank[d])
  <2>1. CASE d.bit = 0
    BY <2>1
  <2>2. CASE d.bit # 0 /\ Skips(tree, next(d), d.remaining)
    <3>1. p[d] = SearchAt(d.bit \div 2, next(d), d.remaining - tree[next(d)])
      BY <2>2
    <3>2. p[d] \in D /\ p[d].bit = d.bit \div 2
      <4>1. PICK b \in Nat : b = d.bit \div 2
        BY <1>4, <2>2
      <4>2. PICK i \in Nat : i = next(d)
        BY <1>4, <2>2
      <4>3. PICK r \in Int : r = d.remaining - tree[next(d)]
        BY <1>4, <2>2
      <4>4. p[d] = SearchAt(b, i, r)
        BY <3>1, <4>1, <4>2, <4>3
      <4> HIDE DEF p, D
      <4>5. QED
        BY <1>5, <4>1, <4>4
    <3> HIDE DEF p
    <3>3. QED
      BY <1>4, <2>2, <3>2
  <2>3. CASE d.bit # 0 /\ ~Skips(tree, next(d), d.remaining)
    <3>1. p[d] = SearchAt(d.bit \div 2, d.idx, d.remaining)
      BY <2>3
    <3>2. p[d] \in D /\ p[d].bit = d.bit \div 2
      BY <1>3, <1>4, <1>5, <2>3, <3>1
    <3> HIDE DEF p
    <3>3. QED
      BY <1>4, <2>3, <3>2
  <2>4. QED
    BY <2>1, <2>2, <2>3
<1>7. \E f \in [D -> Nat] : Unfolds(f, D, B, e, p, h)
  <2>1. B \in SUBSET D /\ e \in [D -> Nat] /\ rank \in [D -> Nat]
    BY <1>3
  <2>2. p \in [D -> D]
    <3>1. p = [d \in D |-> p[d]]
      OBVIOUS
    <3> HIDE DEF p
    <3>2. QED
      BY <1>6, <3>1
  <2>3. h \in [D \X Nat -> Nat]
    OBVIOUS
  <2> HIDE DEF D, B, e, p, h, rank
  <2>4. QED
    BY <1>6, <2>1, <2>2, <2>3, RecursionExists
<1>8. PICK f \in [D -> Nat] : Unfolds(f, D, B, e, p, h)
  BY <1>7
<1>9. \A d \in D : f[d] = IF d.bit = 0 THEN d.idx ELSE f[p[d]]
  <2>1. \A d \in D : f[d] = IF d \in B THEN e[d] ELSE h[<<d, f[p[d]]>>]
    BY <1>8 DEF Unfolds
  <2>2. \A d \in D : f[p[d]] \in Nat
    BY <1>6
  <2>3. \A d \in D : h[<<d, f[p[d]]>>] = f[p[d]]
    BY <2>2
  <2> HIDE DEF p, h
  <2>4. QED
    BY <2>1, <2>3
<1>10. \A d \in D : f[d] = IF d.bit = 0 THEN d.idx
                         ELSE IF Skips(tree, next(d), d.remaining)
                              THEN f[SearchAt(d.bit \div 2, next(d), d.remaining - tree[next(d)])]
                              ELSE f[SearchAt(d.bit \div 2, d.idx, d.remaining)]
  <2>1. \A d \in D : d.bit # 0 =>
          p[d] = IF Skips(tree, next(d), d.remaining)
                 THEN SearchAt(d.bit \div 2, next(d), d.remaining - tree[next(d)])
                 ELSE SearchAt(d.bit \div 2, d.idx, d.remaining)
    OBVIOUS
  <2> HIDE DEF p, D
  <2>2. QED
    BY <1>9, <2>1
<1>11. Finds(f)
  <2>1. f = [d \in D |-> f[d]]
    OBVIOUS
  <2>2. \A d \in D : f[d] = IF d.bit = 0 THEN d.idx
                          ELSE IF Skips(tree, next(d), d.remaining)
                               THEN f[[bit |-> d.bit \div 2, idx |-> next(d),
                                       remaining |-> d.remaining - tree[next(d)]]]
                               ELSE f[[d EXCEPT !.bit = @ \div 2]]
    BY <1>3, <1>10, Zenon DEF SearchAt
  <2> HIDE DEF D, next
  <2>3. QED
    BY <2>1, <2>2, Zenon
<1>12. Finds(found)
  BY <1>11, Zenon
<1> HIDE DEF found
<1>13. Searches(found, tree)
  <2> SUFFICES ASSUME NEW b \in Nat, NEW i \in Nat, NEW r \in Int
               PROVE  found[SearchAt(b, i, r)] =
                        IF b = 0 THEN i
                        ELSE IF Skips(tree, i + b, r)
                             THEN found[SearchAt(b \div 2, i + b, r - tree[i + b])]
                             ELSE found[SearchAt(b \div 2, i, r)]
    BY DEF Searches
  <2>1. PICK d \in D : d = SearchAt(b, i, r)
    BY <1>5
  <2>2. d.bit = b /\ d.idx = i /\ d.remaining = r
    BY SMTT(30), <1>5, <2>1
  <2> HIDE DEF D
  <2>3. found[d] = IF d.bit = 0 THEN d.idx
                   ELSE IF Skips(tree, next(d), d.remaining)
                        THEN found[[bit |-> d.bit \div 2, idx |-> next(d),
                                    remaining |-> d.remaining - tree[next(d)]]]
                        ELSE found[[d EXCEPT !.bit = @ \div 2]]
    BY <1>12
  <2>4. [d EXCEPT !.bit = @ \div 2] = SearchAt(b \div 2, i, r)
    BY <1>3, <2>2
  <2>5. QED
    BY <2>1, <2>2, <2>3, <2>4 DEF SearchAt
<1>14. QED
  BY <1>2, <1>13 DEF tree

\* findByOrder() finds the marked index of a rank.
LEMMA FindsRank ==
  ASSUME NEW n \in Nat \ {0}, NEW A \in SUBSET (0 .. n - 1), NEW order \in 1 .. Cardinality(A)
  PROVE  /\ FindByOrder(TreeOf(n, A), order) \in A
         /\ Below(A, FindByOrder(TreeOf(n, A), order)) = order - 1
<1> DEFINE tree == TreeOf(n, A)
           Exact(x) == x \in A /\ Below(A, x) = order - 1
           \* The order lies in the next 2 * b indices from i, i being a multiple of 2 * b.
           Between(b, i) == /\ i = 0 \/ LowBit[i] > b
                            /\ Below(A, i) < order
                            /\ order <= Below(A, i + 2 * b)
<1>0. n \in Nat /\ Cardinality(A) \in Nat /\ order \in Nat
  BY BelowFacts
<1>1. PICK f : /\ Searches(f, tree)
               /\ FindByOrder(tree, order) = f[SearchAt(TopBit(n), 0, order)]
  BY SearchExists
<1>2. \A x \in Nat : Below(A, x) \in Nat
  BY BelowFacts
<1>3. Len(tree) = n /\ \A j \in 1 .. n : tree[j] \in Nat /\ Below(A, j) = tree[j] + Below(A, j - LowBit[j])
  BY TreeShape, TreeNode
<1> HIDE DEF tree
\* One step of the search goes on to half the range.
<1>4. ASSUME NEW b, PowerOfTwo(b), NEW i \in Nat, Between(b, i)
      PROVE  \E k \in Nat : /\ k = i \/ k = i + b
                            /\ Below(A, k) < order /\ order <= Below(A, k + b)
                            /\ k = 0 \/ LowBit[k] >= b
                            /\ f[SearchAt(b, i, order - Below(A, i))] =
                                 f[SearchAt(b \div 2, k, order - Below(A, k))]
  <2>1. b \in Nat \ {0} /\ b \div 2 \in Nat /\ LowBit[b] = b
    BY <1>4 DEF PowerOfTwo
  <2>2. LowBit[i + b] = b
    BY <1>4, LowBitOfSum
  <2>3. PICK r \in Int : r = order - Below(A, i)
    BY <1>0, <1>2
  <2>4. f[SearchAt(b, i, r)] = IF Skips(tree, i + b, r)
                               THEN f[SearchAt(b \div 2, i + b, r - tree[i + b])]
                               ELSE f[SearchAt(b \div 2, i, r)]
    BY <1>1, <2>1 DEF Searches
  <2>5. i + b \in Nat /\ i + 2 * b \in Nat /\ (i + b) - LowBit[i + b] = i
        /\ i + 2 * b = (i + b) + b
    BY <2>1, <2>2
  <2>6. i + b <= n => /\ Below(A, i + b) = tree[i + b] + Below(A, i)
                      /\ tree[i + b] \in Nat
    BY <1>3, <2>1, <2>5
  <2>7. i + b > n => Below(A, i + b) = Cardinality(A)
    BY <2>5, BelowFacts
  <2>8. CASE Skips(tree, i + b, r)
    <3>1. i + b <= n /\ tree[i + b] < r
      BY <1>3, <2>8 DEF Skips
    <3>2. /\ Below(A, i + b) < order
          /\ r - tree[i + b] = order - Below(A, i + b)
      BY <1>0, <1>2, <2>3, <2>6, <3>1
    <3>3. order <= Below(A, (i + b) + b)
      BY <1>4, <2>5
    <3>4. LowBit[i + b] >= b
      BY <2>1, <2>2
    <3>5. f[SearchAt(b, i, r)] = f[SearchAt(b \div 2, i + b, order - Below(A, i + b))]
      BY <2>4, <2>8, <3>2
    <3>6. QED
      BY <2>3, <2>5, <3>2, <3>3, <3>4, <3>5
  <2>9. CASE ~Skips(tree, i + b, r)
    <3>1. order <= Below(A, i + b)
      <4>1. CASE i + b <= n
        <5>1. ~(tree[i + b] < r)
          BY <1>3, <2>9, <4>1 DEF Skips
        <5>2. QED
          BY <1>0, <1>2, <2>3, <2>6, <4>1, <5>1
      <4>2. CASE ~(i + b <= n)
        BY <1>0, <2>5, <2>7, <4>2
      <4>3. QED
        BY <4>1, <4>2
    <3>2. i = 0 \/ LowBit[i] >= b
      <4>1. CASE i # 0
        BY <1>4, <2>1, <4>1, LowBitRange
      <4>2. QED
        BY <4>1
    <3>3. f[SearchAt(b, i, r)] = f[SearchAt(b \div 2, i, order - Below(A, i))]
      BY <2>3, <2>4, <2>9
    <3>4. QED
      BY <1>4, <2>3, <3>1, <3>2, <3>3
  <2>10. QED
    BY <2>8, <2>9
<1> DEFINE T == {b \in Nat : /\ PowerOfTwo(b)
                             /\ \E i \in Nat : /\ Between(b, i)
                                               /\ ~Exact(f[SearchAt(b, i, order - Below(A, i))])}
<1>5. T = {}
  <2> SUFFICES ASSUME T # {} PROVE FALSE
    OBVIOUS
  <2>1. PICK b \in T : \A c \in T : b <= c
    BY SmallestNat
  <2>2. PowerOfTwo(b) /\ b \in Nat \ {0}
    BY DEF PowerOfTwo
  <2>3. PICK i \in Nat : Between(b, i) /\ ~Exact(f[SearchAt(b, i, order - Below(A, i))])
    OBVIOUS
  <2>4. \A c \in Nat, k \in Nat : c < b /\ PowerOfTwo(c) /\ Between(c, k)
                                => Exact(f[SearchAt(c, k, order - Below(A, k))])
    BY <2>1
  <2> HIDE DEF T, Exact
  <2>5. PICK k \in Nat : /\ Below(A, k) < order /\ order <= Below(A, k + b)
                         /\ k = 0 \/ LowBit[k] >= b
                         /\ f[SearchAt(b, i, order - Below(A, i))] =
                              f[SearchAt(b \div 2, k, order - Below(A, k))]
    BY <1>4, <2>2, <2>3
  <2>6. CASE b = 1 /\ b \div 2 = 0
    <3>1. f[SearchAt(0, k, order - Below(A, k))] = k
      <4>1. PICK r \in Int : r = order - Below(A, k)
        BY <1>0, <1>2
      <4>2. QED
        BY <1>1, <4>1 DEF Searches
    <3>2. Below(A, k + 1) = Below(A, k) + (IF k \in A THEN 1 ELSE 0)
      BY <1>0, BelowFacts
    <3>3. k \in A /\ Below(A, k) = order - 1
      BY <1>0, <1>2, <2>5, <2>6, <3>2
    <3>4. QED
      BY <2>3, <2>5, <2>6, <3>1, <3>3 DEF Exact
  <2>7. CASE PowerOfTwo(b \div 2) /\ b = 2 * (b \div 2)
    <3>1. PICK c \in Nat \ {0} : c = b \div 2 /\ PowerOfTwo(c) /\ b = 2 * c /\ c < b
      BY <2>7 DEF PowerOfTwo
    <3>2. k = 0 \/ LowBit[k] > c
      <4>1. CASE k # 0
        BY <2>5, <3>1, <4>1, LowBitRange
      <4>2. QED
        BY <4>1
    <3>3. Between(c, k)
      BY <2>5, <3>1, <3>2
    <3>4. QED
      BY <2>3, <2>4, <2>5, <3>1, <3>3
  <2>8. QED
    BY <2>2, <2>6, <2>7, PowerOfTwoHalf
<1>6. PowerOfTwo(TopBit(n)) /\ TopBit(n) \in Nat /\ n < 2 * TopBit(n)
  BY TopBitIs DEF PowerOfTwo
<1>7. Between(TopBit(n), 0)
  <2>1. Below(A, 0) = 0 /\ Below(A, 0 + 2 * TopBit(n)) = Cardinality(A)
    BY <1>6, BelowFacts
  <2>2. QED
    BY <1>0, <2>1
<1>8. order - Below(A, 0) = order
  BY <1>0, BelowFacts
<1>9. Exact(f[SearchAt(TopBit(n), 0, order)])
  BY <1>5, <1>6, <1>7, <1>8
<1>10. QED
  BY <1>1, <1>9 DEF tree

\* The last marked index is the one of the highest rank, the first of rank one.
LEMMA FindsEnds ==
  ASSUME NEW n \in Nat \ {0}, NEW A \in SUBSET (0 .. n - 1), A # {}
  PROVE  /\ FindByOrder(TreeOf(n, A), Cardinality(A)) \in A
         /\ \A i \in A : i <= FindByOrder(TreeOf(n, A), Cardinality(A))
         /\ FindByOrder(TreeOf(n, A), 1) \in A
         /\ \A i \in A : FindByOrder(TreeOf(n, A), 1) <= i
<1>1. IsFiniteSet(A) /\ Cardinality(A) \in Nat \ {0} /\ \A i \in A : i \in Nat
  BY BelowFacts, FS_EmptySet
<1>2. Cardinality(A) \in 1 .. Cardinality(A) /\ 1 \in 1 .. Cardinality(A)
  BY <1>1
<1>3. PICK x \in A : x = FindByOrder(TreeOf(n, A), Cardinality(A)) /\ Below(A, x) = Cardinality(A) - 1
  BY <1>2, FindsRank
<1>4. PICK y \in A : y = FindByOrder(TreeOf(n, A), 1) /\ Below(A, y) = 0
  <2>1. PICK one \in 1 .. Cardinality(A) : one = 1
    BY <1>2
  <2>2. FindByOrder(TreeOf(n, A), one) \in A /\ Below(A, FindByOrder(TreeOf(n, A), one)) = one - 1
    BY FindsRank
  <2>3. one - 1 = 0
    BY <2>1
  <2>4. QED
    BY <2>1, <2>2, <2>3
<1>5. \A i \in A : i <= x
  <2> DEFINE U == {i \in A : i < x}
  <2>1. U \in SUBSET (A \ {x}) /\ Cardinality(U) = Cardinality(A) - 1
    BY <1>1, <1>3 DEF Below
  <2>2. IsFiniteSet(A \ {x}) /\ Cardinality(A \ {x}) = Cardinality(A) - 1
    BY <1>1, FS_RemoveElement
  <2>3. U = A \ {x}
    <3> HIDE DEF U
    <3>1. QED
      BY <2>1, <2>2, FS_Subset
  <2>4. QED
    BY <1>1, <2>3
<1>6. \A i \in A : y <= i
  <2> DEFINE U == {i \in A : i < y}
  <2>1. IsFiniteSet(U) /\ Cardinality(U) = 0
    BY <1>1, <1>4, FS_Subset DEF Below
  <2>2. U = {}
    <3> HIDE DEF U
    <3>1. QED
      BY <2>1, FS_EmptySet
  <2>3. QED
    BY <1>1, <2>2
<1>7. QED
  BY <1>3, <1>4, <1>5, <1>6
-----------------------------------------------------------------------------
(* Sums over finite sets. *)


\* The element a fold over a set takes first.
Picked(s) == CHOOSE x \in s : TRUE

\* The values of f over S, added up.
SumOf(f, S) == MapThenSumSet(LAMBDA x : f[x], S)

\* A sum is what any function that adds up one element at a time says it is.
LEMMA SumIs ==
  ASSUME NEW S, IsFiniteSet(S), NEW f, NEW g \in [SUBSET S -> Nat], g[{}] = 0,
         \A s \in SUBSET S : s # {} => g[s] = f[Picked(s)] + g[s \ {Picked(s)}]
  PROVE  SumOf(f, S) = g[S]
<1> DEFINE pick(s) == CHOOSE x \in s : TRUE
           Iter(h) == h = [s \in SUBSET S |-> IF s = {} THEN 0
                                              ELSE f[pick(s)] + h[s \ {pick(s)}]]
           iter == CHOOSE h : Iter(h)
<1>1. SumOf(f, S) = iter[S]
  BY DEF SumOf, MapThenSumSet, MapThenFoldSet
<1> USE DEF Picked
<1>2. \A s \in SUBSET S : s # {} => pick(s) \in s /\ s \ {pick(s)} \in SUBSET S
  OBVIOUS
<1>3. \A s \in SUBSET S : g[s] = IF s = {} THEN 0 ELSE f[pick(s)] + g[s \ {pick(s)}]
  OBVIOUS
<1> HIDE DEF pick
<1>4. Iter(g)
  BY <1>3
<1>5. Iter(iter)
  BY <1>4
<1> HIDE DEF iter
<1>6. \A s \in SUBSET S : iter[s] = IF s = {} THEN 0 ELSE f[pick(s)] + iter[s \ {pick(s)}]
  BY <1>5
<1> DEFINE T == {Cardinality(s) : s \in {r \in SUBSET S : iter[r] # g[r]}}
<1>7. \A s \in SUBSET S : IsFiniteSet(s) /\ Cardinality(s) \in Nat
  BY FS_Subset, FS_CardinalityType
<1>8. T = {}
  <2> SUFFICES ASSUME T # {} PROVE FALSE
    OBVIOUS
  <2>1. T \in SUBSET Nat
    BY <1>7
  <2>2. PICK n \in T : \A m \in T : n <= m
    BY <2>1, SmallestNat
  <2>3. PICK s \in SUBSET S : n = Cardinality(s) /\ iter[s] # g[s]
    BY <2>2
  <2>4. s # {}
    BY <1>3, <1>6, <2>3
  <2>5. PICK r \in SUBSET S : r = s \ {pick(s)} /\ pick(s) \in s
    BY <1>2, <2>4
  <2>6. Cardinality(r) = n - 1 /\ n \in Nat
    BY <1>7, <2>3, <2>5, FS_RemoveElement
  <2>7. iter[r] # g[r]
    <3>1. g[s] = f[pick(s)] + g[r]
      BY <1>3, <2>4, <2>5
    <3>2. iter[s] = f[pick(s)] + iter[r]
      BY <1>6, <2>4, <2>5
    <3>3. QED
      BY <2>3, <3>1, <3>2
  <2>8. n - 1 \in T
    BY <2>6, <2>7
  <2>9. QED
    BY <2>2, <2>6, <2>8
<1>9. QED
  BY <1>1, <1>8

\* Sums of natural numbers: of nothing, and of one element more.
LEMMA SumFacts ==
  ASSUME NEW S, IsFiniteSet(S), NEW f \in [S -> Nat]
  PROVE  /\ SumOf(f, {}) = 0
         /\ \A s \in SUBSET S : SumOf(f, s) \in Nat
         /\ \A s \in SUBSET S : \A x \in s : SumOf(f, s) = f[x] + SumOf(f, s \ {x})
<1> DEFINE D == SUBSET S
           pick(s) == CHOOSE x \in s : TRUE
           B == {{}}
           e == [s \in D |-> 0]
           p == [s \in D |-> s \ {pick(s)}]
           h == [x \in D \X Nat |-> IF x[1] = {} THEN 0 ELSE f[pick(x[1])] + x[2]]
           rank == [s \in D |-> Cardinality(s)]
<1>1. \A s \in D : IsFiniteSet(s) /\ Cardinality(s) \in Nat
  BY FS_Subset, FS_CardinalityType
<1>2. \A s \in D : s # {} => pick(s) \in s /\ s \ {pick(s)} \in D /\ f[pick(s)] \in Nat
  OBVIOUS
<1>3. \A s \in D : \A x \in s : /\ s \ {x} \in D /\ x \in S /\ f[x] \in Nat
                               /\ Cardinality(s \ {x}) = Cardinality(s) - 1
                               /\ Cardinality(s \ {x}) < Cardinality(s)
  <2> SUFFICES ASSUME NEW s \in D, NEW x \in s
               PROVE  /\ s \ {x} \in D /\ x \in S /\ f[x] \in Nat
                      /\ Cardinality(s \ {x}) = Cardinality(s) - 1
                      /\ Cardinality(s \ {x}) < Cardinality(s)
    OBVIOUS
  <2>1. Cardinality(s \ {x}) = Cardinality(s) - 1
    BY <1>1, FS_RemoveElement
  <2>2. Cardinality(s) \in Nat
    BY <1>1
  <2>3. s \ {x} \in D /\ x \in S /\ f[x] \in Nat
    OBVIOUS
  <2>4. QED
    BY <2>1, <2>2, <2>3
<1> HIDE DEF pick
<1>4. \E g \in [D -> Nat] : Unfolds(g, D, B, e, p, h)
  <2>1. B \in SUBSET D /\ e \in [D -> Nat]
    OBVIOUS
  <2>2. p \in [D -> D]
    OBVIOUS
  <2>3. h \in [D \X Nat -> Nat]
    BY <1>2
  <2>4. rank \in [D -> Nat]
    BY <1>1
  <2>5. \A d \in D \ B : rank[p[d]] < rank[d]
    BY <1>2, <1>3
  <2> HIDE DEF D, B, e, p, h, rank
  <2>6. QED
    BY <2>1, <2>2, <2>3, <2>4, <2>5, RecursionExists
<1>5. PICK g \in [D -> Nat] : Unfolds(g, D, B, e, p, h)
  BY <1>4
<1>6. g[{}] = 0 /\ \A s \in D : s # {} => g[s] = f[pick(s)] + g[s \ {pick(s)}]
  <2>1. \A s \in D : g[s] = IF s \in B THEN e[s] ELSE h[<<s, g[p[s]]>>]
    BY <1>5 DEF Unfolds
  <2>2. \A s \in D : s # {} => h[<<s, g[s \ {pick(s)}]>>] = f[pick(s)] + g[s \ {pick(s)}]
    BY <1>2
  <2>3. \A s \in D : p[s] = s \ {pick(s)}
    OBVIOUS
  <2>4. {} \in D /\ e[{}] = 0
    OBVIOUS
  <2> HIDE DEF h, p
  <2>5. QED
    BY <2>1, <2>2, <2>3, <2>4
<1>7. \A s \in D : g[s] \in Nat
  OBVIOUS
<1>8. ASSUME NEW s \in D PROVE SumOf(f, s) = g[s]
  <2> DEFINE gs == [r \in SUBSET s |-> g[r]]
  <2>1. \A r \in SUBSET s : r \in D /\ gs[r] = g[r]
    OBVIOUS
  <2>2. gs \in [SUBSET s -> Nat] /\ gs[{}] = 0
    BY <1>6, <1>7, <2>1
  <2>3. \A r \in SUBSET s : r # {} => r \ {pick(r)} \in SUBSET s
    OBVIOUS
  <2> HIDE DEF gs, D
  <2>4. \A r \in SUBSET s : r # {} => gs[r] = f[pick(r)] + gs[r \ {pick(r)}]
    BY <1>6, <2>1, <2>3
  <2>5. \A r \in SUBSET s : r # {} => gs[r] = f[Picked(r)] + gs[r \ {Picked(r)}]
    BY <2>4 DEF pick, Picked
  <2>6. IsFiniteSet(s)
    BY <1>1
  <2>7. SumOf(f, s) = gs[s]
    BY <2>2, <2>5, <2>6, SumIs
  <2>8. QED
    BY <2>1, <2>7
<1> DEFINE Adds(s) == \A x \in s : g[s] = f[x] + g[s \ {x}]
           T == {Cardinality(s) : s \in {r \in D : ~Adds(r)}}
<1>9. T = {}
  <2> SUFFICES ASSUME T # {} PROVE FALSE
    OBVIOUS
  <2>1. T \in SUBSET Nat
    BY <1>1
  <2>2. PICK n \in T : \A m \in T : n <= m
    BY <2>1, SmallestNat
  <2>3. PICK s \in D : n = Cardinality(s) /\ ~Adds(s)
    BY <2>2
  <2>4. ASSUME NEW r \in D, Cardinality(r) < Cardinality(s)
        PROVE  Adds(r)
    <3> SUFFICES ASSUME ~Adds(r) PROVE FALSE
      OBVIOUS
    <3>1. Cardinality(r) \in T
      OBVIOUS
    <3>2. n <= Cardinality(r)
      BY <2>2, <3>1
    <3>3. Cardinality(r) \in Nat /\ Cardinality(s) \in Nat
      BY <1>1
    <3>4. QED
      BY <2>3, <2>4, <3>2, <3>3
  <2> HIDE DEF T
  <2>5. PICK x \in s : g[s] # f[x] + g[s \ {x}]
    BY <2>3
  <2> DEFINE y == pick(s)
             r == (s \ {x}) \ {y}
  <2>6. y \in s /\ g[s] = f[y] + g[s \ {y}]
    BY <1>2, <1>6, <2>5
  <2>7. x # y
    BY <2>5, <2>6
  <2> HIDE DEF y
  <2>8. g[s \ {y}] = f[x] + g[(s \ {y}) \ {x}]
    <3>1. x \in s \ {y}
      BY <2>7
    <3>2. Adds(s \ {y})
      BY <1>3, <2>4, <2>6
    <3>3. QED
      BY <3>1, <3>2
  <2>9. g[s \ {x}] = f[y] + g[r]
    <3>1. y \in s \ {x}
      BY <2>6, <2>7
    <3>2. Adds(s \ {x})
      BY <1>3, <2>4, <2>5
    <3>3. QED
      BY <3>1, <3>2
  <2>10. (s \ {y}) \ {x} = r /\ r \in D
    OBVIOUS
  <2>11. f[x] \in Nat /\ f[y] \in Nat /\ g[r] \in Nat
    BY <1>3, <1>7, <2>5, <2>6, <2>10
  <2> HIDE DEF r
  <2>12. g[s] = f[y] + (f[x] + g[r]) /\ g[s] # f[x] + (f[y] + g[r])
    BY <2>5, <2>6, <2>8, <2>9, <2>10
  <2>13. PICK u \in Nat, v \in Nat, w \in Nat : u = f[x] /\ v = f[y] /\ w = g[r]
    BY <2>11
  <2>14. u + (v + w) = v + (u + w)
    OBVIOUS
  <2>15. QED
    BY <2>12, <2>13, <2>14
<1>10. \A s \in D : \A x \in s : g[s] = f[x] + g[s \ {x}]
  BY <1>9
<1>11. {} \in D
  OBVIOUS
<1>12. QED
  BY <1>3, <1>6, <1>7, <1>8, <1>10, <1>11

\* Counting one more at x adds one to every sum that x is part of.
LEMMA SumCounted ==
  ASSUME NEW S, IsFiniteSet(S), NEW f \in [S -> Nat], NEW x \in S, NEW U \in SUBSET S,
         NEW c \in [S -> Nat], c[x] = f[x] + 1, \A y \in S \ {x} : c[y] = f[y]
  PROVE  /\ x \in U => SumOf(c, U) = SumOf(f, U) + 1
         /\ x \notin U => SumOf(c, U) = SumOf(f, U)
         /\ SumOf(f, U) \in Nat
<1> DEFINE Good(s) == SumOf(c, s) = SumOf(f, s) + (IF x \in s THEN 1 ELSE 0)
           T == {Cardinality(s) : s \in {r \in SUBSET S : ~Good(r)}}
<1>1. c \in [S -> Nat] /\ \A y \in S : c[y] = f[y] + (IF y = x THEN 1 ELSE 0)
  OBVIOUS
<1>2. \A s \in SUBSET S : IsFiniteSet(s) /\ Cardinality(s) \in Nat
  BY FS_Subset, FS_CardinalityType
<1>3. /\ SumOf(f, {}) = 0
      /\ \A s \in SUBSET S : SumOf(f, s) \in Nat
      /\ \A s \in SUBSET S : \A y \in s : SumOf(f, s) = f[y] + SumOf(f, s \ {y})
  BY SumFacts
<1>4. /\ SumOf(c, {}) = 0
      /\ \A s \in SUBSET S : SumOf(c, s) \in Nat
      /\ \A s \in SUBSET S : \A y \in s : SumOf(c, s) = c[y] + SumOf(c, s \ {y})
  BY <1>1, SumFacts
<1>5. T = {}
  <2> SUFFICES ASSUME T # {} PROVE FALSE
    OBVIOUS
  <2>1. T \in SUBSET Nat
    BY <1>2
  <2>2. PICK n \in T : \A m \in T : n <= m
    BY <2>1, SmallestNat
  <2>3. PICK s \in SUBSET S : n = Cardinality(s) /\ ~Good(s)
    BY <2>2
  <2>4. ASSUME NEW r \in SUBSET S, Cardinality(r) < Cardinality(s)
        PROVE  Good(r)
    <3> SUFFICES ASSUME ~Good(r) PROVE FALSE
      OBVIOUS
    <3>1. Cardinality(r) \in T
      OBVIOUS
    <3>2. n <= Cardinality(r)
      BY <2>2, <3>1
    <3>3. Cardinality(r) \in Nat /\ Cardinality(s) \in Nat
      BY <1>2
    <3>4. QED
      BY <2>3, <2>4, <3>2, <3>3
  <2> HIDE DEF T
  <2>5. s # {}
    <3>1. Good({})
      BY <1>3, <1>4
    <3>2. QED
      BY <2>3, <3>1
  <2>6. PICK y \in s : TRUE
    BY <2>5
  <2>7. PICK r \in SUBSET S : r = s \ {y} /\ Good(r)
    <3>1. Cardinality(s \ {y}) < Cardinality(s)
      BY <1>2, <2>6, FS_RemoveElement
    <3>2. QED
      BY <2>4, <3>1
  <2>8. SumOf(c, s) = c[y] + SumOf(c, r) /\ SumOf(f, s) = f[y] + SumOf(f, r)
    BY <1>3, <1>4, <2>6, <2>7
  <2>9. y \in S /\ f[y] \in Nat /\ SumOf(f, r) \in Nat
    BY <1>3, <2>6, <2>7
  <2>10. CASE y = x
    <3>1. c[y] = f[y] + 1 /\ x \in s /\ x \notin r
      BY <1>1, <2>7, <2>9, <2>10
    <3>2. SumOf(c, r) = SumOf(f, r)
      BY <2>7, <2>9, <3>1
    <3>3. QED
      BY <2>3, <2>8, <2>9, <3>1, <3>2
  <2>11. CASE y # x
    <3>1. c[y] = f[y] /\ (x \in s <=> x \in r)
      BY <1>1, <2>7, <2>9, <2>11
    <3>2. PICK one \in Nat : one = IF x \in r THEN 1 ELSE 0
      OBVIOUS
    <3>3. SumOf(c, r) = SumOf(f, r) + one /\ SumOf(c, s) # SumOf(f, s) + one
      BY <2>3, <2>7, <3>1, <3>2
    <3>4. QED
      BY <2>8, <2>9, <3>1, <3>3
  <2>12. QED
    BY <2>10, <2>11
<1>6. Good(U)
  BY <1>5
<1>7. QED
  BY <1>3, <1>6

\* A sum of zeros.
LEMMA SumOfZeros ==
  ASSUME NEW S, IsFiniteSet(S), NEW f, \A x \in S : f[x] = 0
  PROVE  SumOf(f, S) = 0
<1> DEFINE g == [s \in SUBSET S |-> 0]
<1>1. g \in [SUBSET S -> Nat] /\ g[{}] = 0 /\ g[S] = 0
  OBVIOUS
<1>2. \A s \in SUBSET S : s # {} => Picked(s) \in S /\ s \ {Picked(s)} \in SUBSET S
  BY DEF Picked
<1>3. \A s \in SUBSET S : s # {} => g[s] = f[Picked(s)] + g[s \ {Picked(s)}]
  BY <1>2
<1> HIDE DEF g
<1>4. QED
  BY <1>1, <1>3, SumIs, ZenonT(30)

\* A finite set of naturals has an element of each rank.
LEMMA RankExists ==
  ASSUME NEW n \in Nat, NEW A \in SUBSET (0 .. n - 1), NEW k \in 1 .. Cardinality(A)
  PROVE  \E x \in A : Below(A, x) = k - 1
<1> DEFINE T == {x \in Nat : Below(A, x) >= k}
<1>1. /\ Cardinality(A) \in Nat /\ Below(A, 0) = 0 /\ Below(A, n) = Cardinality(A)
      /\ \A x \in Nat : Below(A, x) \in Nat
      /\ \A x \in Nat : Below(A, x + 1) = Below(A, x) + (IF x \in A THEN 1 ELSE 0)
  <2>1. n >= n
    OBVIOUS
  <2>2. Below(A, n) = Cardinality(A)
    BY <2>1, BelowFacts
  <2>3. /\ Cardinality(A) \in Nat /\ Below(A, 0) = 0
        /\ \A x \in Nat : Below(A, x) \in Nat
    BY BelowFacts
  <2>4. \A x \in Nat : Below(A, x + 1) = Below(A, x) + (IF x \in A THEN 1 ELSE 0)
    BY BelowFacts
  <2>5. QED
    BY <2>2, <2>3, <2>4
<1>2. T \in SUBSET Nat /\ n \in T /\ T # {}
  BY <1>1
<1>3. PICK m \in T : \A y \in T : m <= y
  BY <1>2, SmallestNat
<1>4. m \in Nat /\ m # 0 /\ Below(A, m) >= k
  BY <1>1, <1>3
<1>5. PICK x \in Nat : m = x + 1
  <2>1. m - 1 \in Nat /\ m = (m - 1) + 1
    BY <1>4
  <2>2. QED
    BY <2>1
<1>6. Below(A, x) < k
  BY <1>1, <1>3, <1>5
<1>7. PICK a \in Nat, b \in Nat : a = Below(A, x) /\ b = Below(A, m)
  BY <1>1, <1>4
<1>8. x \in A /\ b = a + 1
  BY <1>1, <1>4, <1>5, <1>6, <1>7
<1>9. QED
  BY <1>4, <1>6, <1>7, <1>8

\* A greater element has a greater rank.
LEMMA RankOrders ==
  ASSUME NEW n \in Nat, NEW A \in SUBSET (0 .. n - 1), NEW x \in A, NEW y \in Nat, x < y
  PROVE  Below(A, x) < Below(A, y) /\ Below(A, y) <= Cardinality(A)
<1>1. x \in Nat /\ n \in Nat /\ y \in Nat
  OBVIOUS
<1>2. Below(A, x + 1) = Below(A, x) + 1 /\ Below(A, x) \in Nat /\ Below(A, y) \in Nat
      /\ Below(A, x + 1) \in Nat
  <2>1. \A z \in Nat : Below(A, z) \in Nat
    BY BelowFacts
  <2>2. x + 1 \in Nat
    BY <1>1
  <2>3. Below(A, x + 1) = Below(A, x) + (IF x \in A THEN 1 ELSE 0)
    BY <1>1, BelowFacts
  <2>4. QED
    BY <1>1, <2>1, <2>2, <2>3
<1>3. /\ \A u, v \in Nat : u <= v =>
           /\ Below(A, u) \in Nat /\ Below(A, v) \in Nat
           /\ Cardinality({i \in A : u <= i /\ i < v}) \in Nat
  <2>1. \A B \in SUBSET A : Cardinality(B) \in Nat
    BY BelowFacts, FS_Subset, FS_CardinalityType
  <2>2. \A u, v \in Nat : {i \in A : u <= i /\ i < v} \in SUBSET A
    OBVIOUS
  <2>3. QED
    BY <2>1, <2>2, BelowFacts
<1>4. ASSUME NEW u \in Nat, NEW v \in Nat, u <= v PROVE Below(A, u) <= Below(A, v)
  <2>1. PICK c \in Nat : c = Cardinality({i \in A : u <= i /\ i < v})
    BY <1>3, <1>4
  <2>2. Below(A, v) = c + Below(A, u)
    BY <1>4, <2>1, RangeCount
  <2>3. Below(A, u) \in Nat
    BY BelowFacts
  <2>4. QED
    BY <2>1, <2>2, <2>3
<1>5. Below(A, x + 1) <= Below(A, y)
  BY <1>1, <1>4
<1>6. Below(A, y) <= Cardinality(A)
  <2>1. PICK z \in Nat : y <= z /\ n <= z
    BY <1>1
  <2>2. Below(A, z) = Cardinality(A)
    BY <2>1, BelowFacts
  <2>3. QED
    BY <1>4, <2>1, <2>2
<1>7. QED
  BY <1>2, <1>5, <1>6

\* Sums over disjoint sets add up.
LEMMA SumSplit ==
  ASSUME NEW S, IsFiniteSet(S), NEW f \in [S -> Nat], NEW P \in SUBSET S, NEW Q \in SUBSET S,
         P \cap Q = {}
  PROVE  SumOf(f, P \cup Q) = SumOf(f, P) + SumOf(f, Q)
<1> DEFINE Good(s) == SumOf(f, P \cup s) = SumOf(f, P) + SumOf(f, s)
           T == {Cardinality(s) : s \in {r \in SUBSET Q : ~Good(r)}}
<1>1. /\ SumOf(f, {}) = 0
      /\ \A s \in SUBSET S : SumOf(f, s) \in Nat
      /\ \A s \in SUBSET S : \A x \in s : SumOf(f, s) = f[x] + SumOf(f, s \ {x})
  BY SumFacts
<1>2. \A s \in SUBSET Q : IsFiniteSet(s) /\ Cardinality(s) \in Nat
  BY FS_Subset, FS_CardinalityType
<1>3. ASSUME NEW s \in SUBSET Q, NEW x \in s, Good(s \ {x}) PROVE Good(s)
  <2>1. PICK u \in SUBSET S, v \in SUBSET S, w \in SUBSET S, t \in SUBSET S :
          u = P \cup s /\ v = P \cup (s \ {x}) /\ w = s /\ t = s \ {x}
    OBVIOUS
  <2>2. v = u \ {x} /\ t = w \ {x} /\ x \in u /\ x \in w
    BY <2>1
  <2>3. /\ SumOf(f, u) = f[x] + SumOf(f, v)
        /\ SumOf(f, w) = f[x] + SumOf(f, t)
    BY <1>1, <2>2
  <2>4. /\ SumOf(f, P) \in Nat /\ SumOf(f, v) \in Nat /\ SumOf(f, t) \in Nat /\ f[x] \in Nat
    BY <1>1
  <2>5. SumOf(f, v) = SumOf(f, P) + SumOf(f, t)
    BY <1>3, <2>1
  <2>6. SumOf(f, u) = SumOf(f, P) + SumOf(f, w)
    BY <2>3, <2>4, <2>5
  <2>7. QED
    BY <2>1, <2>6
<1>4. Good({})
  <2>1. P \cup {} = P /\ SumOf(f, P) \in Nat
    BY <1>1
  <2>2. QED
    BY <1>1, <2>1
<1> HIDE DEF Good
<1>5. T = {}
  <2> SUFFICES ASSUME T # {} PROVE FALSE
    OBVIOUS
  <2>1. T \in SUBSET Nat
    BY <1>2
  <2>2. PICK n \in T : \A m \in T : n <= m
    BY <2>1, SmallestNat
  <2>3. PICK s \in SUBSET Q : n = Cardinality(s) /\ ~Good(s)
    BY <2>2
  <2>4. PICK x : x \in s
    BY <1>4, <2>3
  <2>5. PICK r \in SUBSET Q : r = s \ {x}
    OBVIOUS
  <2>6. Cardinality(r) = n - 1 /\ n \in Nat
    BY <1>2, <2>3, <2>4, <2>5, FS_RemoveElement
  <2>7. ~Good(r)
    BY <1>3, <2>3, <2>4, <2>5
  <2>8. n - 1 \in T
    BY <2>6, <2>7
  <2>9. QED
    BY <2>2, <2>6, <2>8
<1>6. Good(Q)
  BY <1>5
<1>7. QED
  BY <1>6 DEF Good

\* A sum over a part is at most the sum over the whole.
LEMMA SumOfPart ==
  ASSUME NEW S, IsFiniteSet(S), NEW f \in [S -> Nat], NEW Q \in SUBSET S, NEW P \in SUBSET Q
  PROVE  SumOf(f, P) <= SumOf(f, Q)
<1>1. PICK R \in SUBSET S : R = Q \ P
  OBVIOUS
<1>2. P \cup R = Q /\ P \cap R = {} /\ P \in SUBSET S
  BY <1>1
<1>3. SumOf(f, Q) = SumOf(f, P) + SumOf(f, R)
  <2>1. SumOf(f, P \cup R) = SumOf(f, P) + SumOf(f, R)
    BY <1>2, SumSplit
  <2>2. QED
    BY <1>2, <2>1
<1>4. SumOf(f, P) \in Nat /\ SumOf(f, R) \in Nat
  BY <1>2, SumFacts
<1>5. QED
  BY <1>3, <1>4

\* The sum of two functions.
LEMMA SumOfBoth ==
  ASSUME NEW S, IsFiniteSet(S), NEW f \in [S -> Nat], NEW g \in [S -> Nat], NEW h \in [S -> Nat],
         \A x \in S : h[x] = f[x] + g[x], NEW P \in SUBSET S
  PROVE  SumOf(h, P) = SumOf(f, P) + SumOf(g, P)
<1> DEFINE Good(s) == SumOf(h, s) = SumOf(f, s) + SumOf(g, s)
           T == {Cardinality(s) : s \in {r \in SUBSET S : ~Good(r)}}
<1>1. /\ SumOf(f, {}) = 0 /\ SumOf(g, {}) = 0 /\ SumOf(h, {}) = 0
      /\ \A s \in SUBSET S : SumOf(f, s) \in Nat /\ SumOf(g, s) \in Nat /\ SumOf(h, s) \in Nat
      /\ \A s \in SUBSET S : \A x \in s : SumOf(f, s) = f[x] + SumOf(f, s \ {x})
      /\ \A s \in SUBSET S : \A x \in s : SumOf(g, s) = g[x] + SumOf(g, s \ {x})
      /\ \A s \in SUBSET S : \A x \in s : SumOf(h, s) = h[x] + SumOf(h, s \ {x})
  BY SumFacts
<1>2. \A s \in SUBSET S : IsFiniteSet(s) /\ Cardinality(s) \in Nat
  BY FS_Subset, FS_CardinalityType
<1>3. ASSUME NEW s \in SUBSET S, NEW x \in s, Good(s \ {x}) PROVE Good(s)
  <2>1. PICK t \in SUBSET S : t = s \ {x}
    OBVIOUS
  <2>2. PICK a \in Nat, b \in Nat, c \in Nat :
          a = SumOf(f, t) /\ b = SumOf(g, t) /\ c = SumOf(h, t)
    BY <1>1
  <2>3. SumOf(f, s) = f[x] + a /\ SumOf(g, s) = g[x] + b /\ SumOf(h, s) = h[x] + c
    BY <1>1, <2>1, <2>2
  <2>4. f[x] \in Nat /\ g[x] \in Nat /\ h[x] = f[x] + g[x] /\ c = a + b
    BY <1>3, <2>1, <2>2
  <2>5. h[x] + c = (f[x] + a) + (g[x] + b)
    BY <2>4
  <2>6. QED
    BY <2>3, <2>5
<1>4. Good({})
  BY <1>1
<1> HIDE DEF Good
<1>5. T = {}
  <2> SUFFICES ASSUME T # {} PROVE FALSE
    OBVIOUS
  <2>1. T \in SUBSET Nat
    BY <1>2
  <2>2. PICK n \in T : \A m \in T : n <= m
    BY <2>1, SmallestNat
  <2>3. PICK s \in SUBSET S : n = Cardinality(s) /\ ~Good(s)
    BY <2>2
  <2>4. PICK x : x \in s
    BY <1>4, <2>3
  <2>5. PICK r \in SUBSET S : r = s \ {x}
    OBVIOUS
  <2>6. Cardinality(r) = n - 1 /\ n \in Nat
    BY <1>2, <2>3, <2>4, <2>5, FS_RemoveElement
  <2>7. ~Good(r)
    BY <1>3, <2>3, <2>4, <2>5
  <2>8. n - 1 \in T
    BY <2>6, <2>7
  <2>9. QED
    BY <2>2, <2>6, <2>8
<1>6. Good(P)
  BY <1>5
<1>7. QED
  BY <1>6 DEF Good

\* g adds up the values of f one element at a time.
AddsUp(g, f, S) ==
  /\ g \in [SUBSET S -> Nat]
  /\ g[{}] = 0
  /\ \A s \in SUBSET S : s # {} => g[s] = f[Picked(s)] + g[s \ {Picked(s)}]

\* Such a function gives the sum.
LEMMA SumAdded ==
  ASSUME NEW S, IsFiniteSet(S), NEW f, NEW g, AddsUp(g, f, S)
  PROVE  SumOf(f, S) = g[S]
<1>1. g \in [SUBSET S -> Nat] /\ g[{}] = 0
  BY DEF AddsUp
<1>2. \A s \in SUBSET S : s # {} => g[s] = f[Picked(s)] + g[s \ {Picked(s)}]
  BY DEF AddsUp
<1>3. QED
  BY <1>1, <1>2, SumIs, ZenonT(30)

\* m takes D one to one onto P.
Onto(m, D, P) ==
  /\ \A i \in D : m[i] \in P
  /\ \A i, j \in D : m[i] = m[j] => i = j
  /\ \A x \in P : \E i \in D : m[i] = x

\* A sum may be taken along an injection.
LEMMA SumAlong ==
  ASSUME NEW S, IsFiniteSet(S), NEW f \in [S -> Nat], NEW D, IsFiniteSet(D), NEW m,
         NEW P \in SUBSET S, Onto(m, D, P), NEW h, \A i \in D : h[i] = f[m[i]]
  PROVE  SumOf(h, D) = SumOf(f, P)
<1> USE DEF Onto
<1> DEFINE At(s) == {m[i] : i \in s}
           g == [s \in SUBSET D |-> SumOf(f, At(s))]
<1>1. \A s \in SUBSET D : At(s) \in SUBSET S
  OBVIOUS
<1>2. /\ SumOf(f, {}) = 0
      /\ \A s \in SUBSET S : SumOf(f, s) \in Nat
      /\ \A s \in SUBSET S : \A x \in s : SumOf(f, s) = f[x] + SumOf(f, s \ {x})
  BY SumFacts
<1>3. /\ At({}) = {}
      /\ \A s \in SUBSET D : s # {} =>
           /\ Picked(s) \in s /\ s \ {Picked(s)} \in SUBSET D
           /\ m[Picked(s)] \in At(s)
           /\ At(s \ {Picked(s)}) = At(s) \ {m[Picked(s)]}
  <2> SUFFICES ASSUME NEW s \in SUBSET D, s # {}
               PROVE  /\ Picked(s) \in s /\ s \ {Picked(s)} \in SUBSET D
                      /\ m[Picked(s)] \in At(s)
                      /\ At(s \ {Picked(s)}) = At(s) \ {m[Picked(s)]}
    OBVIOUS
  <2>1. PICK x \in s : x = Picked(s)
    BY DEF Picked
  <2>2. s \ {x} \in SUBSET D /\ m[x] \in At(s) /\ At(s \ {x}) = At(s) \ {m[x]}
    OBVIOUS
  <2>3. QED
    BY <2>1, <2>2
<1>4. At(D) = P
  OBVIOUS
<1> HIDE DEF At
<1>5. g \in [SUBSET D -> Nat] /\ g[{}] = 0 /\ g[D] = SumOf(f, P)
  BY <1>1, <1>2, <1>3, <1>4
<1>6. ASSUME NEW s \in SUBSET D, s # {} PROVE g[s] = h[Picked(s)] + g[s \ {Picked(s)}]
  <2>1. PICK x \in D, r \in SUBSET D : x = Picked(s) /\ r = s \ {Picked(s)}
    BY <1>3, <1>6
  <2>2. m[x] \in At(s) /\ At(r) = At(s) \ {m[x]} /\ At(s) \in SUBSET S /\ h[x] = f[m[x]]
    BY <1>1, <1>3, <1>6, <2>1
  <2>3. SumOf(f, At(s)) = f[m[x]] + SumOf(f, At(r))
    BY <1>2, <2>2
  <2>4. g[s] = SumOf(f, At(s)) /\ g[r] = SumOf(f, At(r))
    OBVIOUS
  <2>5. QED
    BY <2>1, <2>2, <2>3, <2>4
<1> HIDE DEF g
<1>7. SumOf(h, D) = g[D]
  <2>1. g \in [SUBSET D -> Nat] /\ g[{}] = 0
    BY <1>5
  <2>2. \A s \in SUBSET D : s # {} => g[s] = h[Picked(s)] + g[s \ {Picked(s)}]
    BY <1>6
  <2>3. QED
    <3>1. AddsUp(g, h, D)
      BY <2>1, <2>2 DEF AddsUp
    <3>2. QED
      BY <3>1, SumAdded
<1>8. QED
  BY <1>5, <1>7

\* Of each w[i] at most fill[i] is taken; v is what is left where something is.
Taken(w, fill, D, P, v, E, m) ==
  /\ IsFiniteSet(D) /\ IsFiniteSet(E) /\ P \in SUBSET D
  /\ w \in [D -> Nat] /\ fill \in [D -> Nat] /\ Onto(m, E, P)
  /\ \A i \in D : fill[i] <= w[i] /\ (i \in P <=> fill[i] < w[i])
  /\ \A k \in E : v[k] = w[m[k]] - fill[m[k]]

\* What is left of each value, where something is left, adds up to the sum without what
\* was taken.
LEMMA SumLeft ==
  ASSUME NEW w, NEW fill, NEW D, NEW P, NEW v, NEW E, NEW m, Taken(w, fill, D, P, v, E, m)
  PROVE  SumOf(w, D) = SumOf(v, E) + SumOf(fill, D)
<1> USE DEF Taken
<1>1. /\ IsFiniteSet(D) /\ IsFiniteSet(E) /\ P \in SUBSET D
      /\ w \in [D -> Nat] /\ fill \in [D -> Nat] /\ Onto(m, E, P)
  OBVIOUS
<1>2. PICK left \in [D -> Nat] : \A i \in D : left[i] = w[i] - fill[i]
  <2>1. [i \in D |-> w[i] - fill[i]] \in [D -> Nat]
    OBVIOUS
  <2>2. QED
    BY <2>1
<1>3. PICK R \in SUBSET D : R = D \ P
  OBVIOUS
<1>4. SumOf(v, E) = SumOf(left, P)
  <2>1. \A k \in E : v[k] = left[m[k]]
    BY <1>2 DEF Onto
  <2>2. QED
    BY <2>1, SumAlong
<1>5. SumOf(left, D) = SumOf(left, P) + SumOf(left, R)
  <2>1. P \cap R = {}
    BY <1>3
  <2>2. SumOf(left, P \cup R) = SumOf(left, P) + SumOf(left, R)
    BY <2>1, SumSplit
  <2>3. P \cup R = D
    BY <1>3
  <2>4. QED
    BY <2>2, <2>3, Zenon
<1>6. SumOf(left, R) = 0
  <2>1. IsFiniteSet(R) /\ \A i \in R : left[i] = 0
    BY <1>2, <1>3, FS_Subset
  <2>2. QED
    BY <2>1, SumOfZeros
<1>7. SumOf(w, D) = SumOf(left, D) + SumOf(fill, D)
  <2>1. D \in SUBSET D /\ \A i \in D : w[i] = left[i] + fill[i]
    BY <1>2
  <2>2. QED
    BY <2>1, SumOfBoth
<1>8. SumOf(left, P) \in Nat
  BY SumFacts
<1>9. QED
  BY <1>4, <1>5, <1>6, <1>7, <1>8

\* The sum of the first values.
LEMMA SumPrefix ==
  ASSUME NEW n \in Nat, NEW f \in [1 .. n -> Nat], NEW i \in 1 .. n
  PROVE  /\ SumOf(f, 1 .. i - 1) \in Nat
         /\ SumOf(f, 1 .. i) = f[i] + SumOf(f, 1 .. i - 1)
<1>1. PICK D, P, R : D = 1 .. n /\ P = 1 .. i /\ R = 1 .. i - 1
  OBVIOUS
<1>2. IsFiniteSet(D)
  BY <1>1, FS_Interval
<1>3. f \in [D -> Nat] /\ P \in SUBSET D /\ R \in SUBSET D /\ i \in P /\ P \ {i} = R
  BY <1>1
<1>4. SumOf(f, P) = f[i] + SumOf(f, P \ {i}) /\ SumOf(f, R) \in Nat
  <2>1. PICK g \in [D -> Nat] : g = f
    BY <1>3
  <2>2. /\ \A x \in SUBSET D : SumOf(g, x) \in Nat
        /\ \A x \in SUBSET D : \A y \in x : SumOf(g, x) = g[y] + SumOf(g, x \ {y})
    BY <1>2, SumFacts
  <2>3. QED
    BY <1>3, <2>1, <2>2
<1>5. QED
  BY <1>1, <1>3, <1>4

\* A set of naturals below a bound has a greatest element.
LEMMA MaxFacts ==
  ASSUME NEW n \in Nat, NEW r \in SUBSET (1 .. n), r # {}
  PROVE  Max(r) \in r /\ \A x \in r : x <= Max(r)
<1> DEFINE T == {n - x : x \in r}
<1>1. T \in SUBSET Nat /\ T # {}
  <2>1. \A x \in r : n - x \in Nat
    OBVIOUS
  <2>2. QED
    BY <2>1
<1>2. PICK t \in T : \A u \in T : t <= u
  BY <1>1, SmallestNat
<1>3. PICK y \in r : t = n - y
  BY <1>2
<1>4. \A x \in r : y >= x
  <2> SUFFICES ASSUME NEW x \in r PROVE y >= x
    OBVIOUS
  <2>1. n - x \in T /\ x \in Nat /\ y \in Nat
    OBVIOUS
  <2>2. n - y <= n - x
    BY <1>2, <1>3, <2>1
  <2> HIDE DEF T
  <2>3. QED
    BY <2>1, <2>2
<1>5. Max(r) \in r /\ \A x \in r : Max(r) >= x
  BY <1>4 DEF Max
<1>6. \A x \in r : x \in Nat
  OBVIOUS
<1>7. QED
  BY <1>5, <1>6

\* The greatest number of 1 .. k.
LEMMA MaxOfFirst ==
  ASSUME NEW k \in Nat \ {0}
  PROVE  Max(1 .. k) = k /\ (1 .. k) \ {k} = 1 .. k - 1
<1>1. Max(1 .. k) \in 1 .. k /\ \A x \in 1 .. k : x <= Max(1 .. k)
  <2>1. PICK r : r = 1 .. k
    OBVIOUS
  <2>2. r \in SUBSET (1 .. k) /\ r # {} /\ k \in Nat
    BY <2>1
  <2>3. Max(r) \in r /\ \A x \in r : x <= Max(r)
    BY <2>2, MaxFacts
  <2>4. QED
    BY <2>1, <2>3
<1>2. k \in 1 .. k
  OBVIOUS
<1>3. QED
  BY <1>1, <1>2

\* A fold from left to right, as a function of the sets of places left to fold.
FoldsBy(f, n, b, h) ==
  \A r \in SUBSET (1 .. n) : f[r] = IF r = {} THEN b ELSE h[<<Max(r), f[r \ {Max(r)}]>>]

\* Folding a step that stays in S is defined.
LEMMA FoldExists ==
  ASSUME NEW n \in Nat, NEW S, NEW b \in S, NEW h \in [(1 .. n) \X S -> S]
  PROVE  \E f \in [SUBSET (1 .. n) -> S] : FoldsBy(f, n, b, h)
<1> DEFINE N == 1 .. n
           D == SUBSET N
           B == {{}}
           e == [s \in D |-> b]
           p == [s \in D |-> s \ {Max(s)}]
           g == [x \in D \X S |-> IF x[1] = {} THEN b ELSE h[<<Max(x[1]), x[2]>>]]
           rank == [s \in D |-> Cardinality(s)]
<1>1. \A s \in D : s # {} => Max(s) \in s
  BY MaxFacts
<1>2. \A s \in D : IsFiniteSet(s) /\ Cardinality(s) \in Nat
  <2>1. IsFiniteSet(N)
    BY FS_Interval
  <2> HIDE DEF N
  <2>2. QED
    BY <2>1, FS_Subset, FS_CardinalityType
<1>3. ASSUME NEW s \in D, s # {} PROVE Cardinality(s \ {Max(s)}) < Cardinality(s)
  <2>1. Cardinality(s \ {Max(s)}) = Cardinality(s) - 1
    BY <1>1, <1>2, <1>3, FS_RemoveElement
  <2>2. Cardinality(s) \in Nat
    BY <1>2
  <2>3. QED
    BY <2>1, <2>2
<1>4. \E f \in [D -> S] : Unfolds(f, D, B, e, p, g)
  <2>1. B \in SUBSET D /\ e \in [D -> S]
    OBVIOUS
  <2>2. p \in [D -> D]
    OBVIOUS
  <2>3. g \in [D \X S -> S]
    <3> SUFFICES ASSUME NEW s \in D, NEW v \in S, s # {} PROVE h[<<Max(s), v>>] \in S
      OBVIOUS
    <3>1. Max(s) \in 1 .. n
      BY <1>1
    <3>2. QED
      BY <3>1
  <2>4. rank \in [D -> Nat]
    BY <1>2
  <2>5. \A d \in D \ B : rank[p[d]] < rank[d]
    BY <1>3
  <2> HIDE DEF D, B, e, p, g, rank
  <2>6. QED
    BY <2>1, <2>2, <2>3, <2>4, <2>5, RecursionExists
<1>5. PICK f \in [D -> S] : Unfolds(f, D, B, e, p, g)
  BY <1>4
<1>6. ASSUME NEW s \in D
      PROVE  f[s] = IF s = {} THEN b ELSE h[<<Max(s), f[s \ {Max(s)}]>>]
  <2>1. f[s] = IF s \in B THEN e[s] ELSE g[<<s, f[p[s]]>>]
    BY <1>5 DEF Unfolds
  <2>2. p[s] = s \ {Max(s)} /\ p[s] \in D /\ e[s] = b
    OBVIOUS
  <2>3. f[p[s]] \in S
    BY <2>2
  <2>4. g[<<s, f[p[s]]>>] = IF s = {} THEN b ELSE h[<<Max(s), f[p[s]]>>]
    BY <2>3
  <2> HIDE DEF g, e, p
  <2>5. QED
    BY <2>1, <2>2, <2>4
<1>7. QED
  BY <1>5, <1>6 DEF FoldsBy
=============================================================================
