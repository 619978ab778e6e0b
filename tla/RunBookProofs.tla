----------------------------- MODULE RunBookProofs -----------------------------
(***************************************************************************)
(* The histogram, and the times and counts that runBook() reports, for any *)
(* word size, any bounds of the buckets, any numbers of messages and any   *)
(* time between two readings of the clock.                                 *)
(***************************************************************************)
EXTENDS RunBook, NatFacts

-----------------------------------------------------------------------------
(* What FixedHistogram computes, for any bounds that its constructor         *)
(* accepts, any latency and any percentile.                                 *)

\* The bounds increase from each bucket to the next and end at kInfinity.
LEMMA BoundsFacts ==
  /\ WordSize \in Nat \ {0} /\ kInfinity \in Word
  /\ Len(Bounds) \in Nat \ {0} /\ Bucket = DOMAIN Bounds
  /\ \A b \in Bucket : b \in Nat /\ 1 <= b /\ b <= Len(Bounds) /\ Bounds[b] \in Word
  /\ Bounds[Len(Bounds)] = kInfinity
  /\ \A b \in Bucket : b > 1 => b - 1 \in Bucket /\ Bounds[b - 1] < Bounds[b]
<1>1. Bounds \in Seq(Word) /\ Bounds # <<>> /\ WordSize \in Nat \ {0}
  BY HistogramAssumption DEF ValidBounds
<1>2. Len(Bounds) \in Nat \ {0} /\ Bucket = DOMAIN Bounds
  BY <1>1 DEF Bucket
<1>3. /\ \A b \in DOMAIN Bounds : b > 1 => Bounds[b - 1] < Bounds[b]
      /\ Bounds[Len(Bounds)] = kInfinity
  BY HistogramAssumption DEF ValidBounds
<1>4. \A b \in Bucket : b \in Nat /\ 1 <= b /\ b <= Len(Bounds) /\ Bounds[b] \in Word
  BY <1>1, <1>2 DEF Bucket
<1>5. kInfinity \in Word
  BY <1>1 DEF kInfinity, Word
<1>6. \A b \in Bucket : b > 1 => b - 1 \in Bucket
  BY <1>2 DEF Bucket
<1>7. QED
  BY <1>1, <1>2, <1>3, <1>4, <1>5, <1>6

\* The bounds increase between any two buckets, not only between neighbours.
LEMMA BoundsIncrease ==
  ASSUME NEW b \in Bucket, NEW c \in Bucket, b < c
  PROVE  Bounds[b] < Bounds[c]
<1> DEFINE T == {d \in Bucket : b < d /\ ~(Bounds[b] < Bounds[d])}
<1>1. SUFFICES ASSUME T # {} PROVE FALSE
  BY <1>1
<1>2. T \in SUBSET Nat
  BY BoundsFacts
<1>3. PICK d \in T : \A e \in T : d <= e
  BY <1>1, <1>2, SmallestNat
<1>4. d - 1 \in Bucket /\ Bounds[d - 1] < Bounds[d] /\ b <= d - 1
  BY <1>3, BoundsFacts
<1>5. /\ Bounds[b] \in Int /\ Bounds[d - 1] \in Int /\ Bounds[d] \in Int
      /\ b \in Nat /\ d \in Nat
  BY <1>3, <1>4, BoundsFacts DEF Word
<1>6. b = d - 1 \/ d - 1 \in T
  BY <1>3, <1>4, <1>5
<1>7. CASE b = d - 1
  BY <1>3, <1>4, <1>7
<1>8. CASE d - 1 \in T
  <2>1. d <= d - 1
    BY <1>3, <1>8
  <2>2. QED
    BY <2>1, <1>2, <1>3
<1>9. QED
  BY <1>6, <1>7, <1>8

\* The search for a bucket always finds one, whose bound is the first that is
\* not less than the latency: record() never counts beyond the array.
LEMMA BucketIndexFacts ==
  ASSUME NEW latency \in Word
  PROVE  /\ BucketIndex(latency) \in Bucket
         /\ Bounds[BucketIndex(latency)] >= latency
         /\ \A c \in 1 .. BucketIndex(latency) - 1 : Bounds[c] < latency
<1> DEFINE T == {b \in Bucket : Bounds[b] >= latency}
<1>1. T \in SUBSET Nat
  BY BoundsFacts
<1>2. Len(Bounds) \in T
  BY BoundsFacts DEF Bucket, Word, kInfinity
<1>3. PICK b \in T : \A c \in T : b <= c
  BY <1>1, <1>2, SmallestNat
<1>4. \A c \in 1 .. b - 1 : Bounds[c] < latency
  <2> SUFFICES ASSUME NEW c \in 1 .. b - 1 PROVE Bounds[c] < latency
    OBVIOUS
  <2>1. c \in Bucket /\ ~(b <= c)
    BY <1>3, BoundsFacts DEF Bucket
  <2>2. ~(Bounds[c] >= latency)
    BY <1>3, <2>1
  <2>3. QED
    BY <2>1, <2>2, BoundsFacts DEF Word
<1>5. b \in Bucket /\ Bounds[b] >= latency
  BY <1>3
<1>6. QED
  BY <1>4, <1>5, Zenon DEF BucketIndex

\* bucketIndex() puts a latency into the bucket whose label covers it, and no
\* other label does: the buckets partition the latencies.
THEOREM EachInItsBucket ==
  \A latency \in Word, b \in Bucket : InBucket(latency, b) <=> b = BucketIndex(latency)
<1> SUFFICES ASSUME NEW latency \in Word, NEW b \in Bucket
             PROVE  InBucket(latency, b) <=> b = BucketIndex(latency)
  OBVIOUS
<1> DEFINE a == BucketIndex(latency)
<1>1. /\ a \in Bucket /\ Bounds[a] >= latency
      /\ \A c \in 1 .. a - 1 : Bounds[c] < latency
  BY BucketIndexFacts
<1> HIDE DEF a
<1>2. InBucket(latency, a)
  <2>1. latency \in Int /\ a \in Nat /\ Bounds[a] \in Int
    BY <1>1, BoundsFacts DEF Word
  <2>2. a = 1 \/ a - 1 \in 1 .. a - 1
    BY <1>1, <2>1, BoundsFacts
  <2>3. QED
    BY <1>1, <2>1, <2>2 DEF InBucket, LowerBound
<1>3. ASSUME InBucket(latency, b), b # a
      PROVE  FALSE
  <2>1. /\ latency \in Int /\ a \in Nat /\ b \in Nat /\ 1 <= a /\ 1 <= b
        /\ Bounds[a] \in Int /\ Bounds[b] \in Int
    BY <1>1, BoundsFacts DEF Word
  <2>2. CASE b < a
    BY <1>1, <1>3, <2>1, <2>2 DEF InBucket
  <2>3. CASE a < b
    <3>1. b - 1 \in Bucket /\ Bounds[b - 1] < latency /\ Bounds[b - 1] \in Int
      BY <1>3, <2>1, <2>3, BoundsFacts DEF InBucket, LowerBound, Word
    <3>2. a = b - 1 \/ Bounds[a] < Bounds[b - 1]
      BY <1>1, <2>1, <2>3, <3>1, BoundsIncrease
    <3>3. QED
      BY <1>1, <2>1, <3>1, <3>2
  <2>4. QED
    BY <1>3, <2>1, <2>2, <2>3
<1>4. QED
  BY <1>2, <1>3 DEF a

\* The threshold of percentileBucketIndex() is the rank that covers the
\* percentile: adding 0.999999 before truncating rounds up, never too far.
THEOREM ThresholdIsRank == \A p, n \in Nat : Threshold(p, n) = Rank(p, n)
<1> SUFFICES ASSUME NEW p \in Nat, NEW n \in Nat
             PROVE  Threshold(p, n) = Rank(p, n)
  OBVIOUS
<1>1. PICK m \in Nat : m = p * n
  OBVIOUS
<1>2. 10000 * p * n = 10000 * m
  BY <1>1
<1>3. (10000 * m + 999999) \div 1000000 = (m + 99) \div 100
  OBVIOUS
<1>4. QED
  BY <1>1, <1>2, <1>3 DEF Threshold, Rank

\* Recording a latency keeps a histogram a histogram.
LEMMA RecordedFacts ==
  ASSUME NEW h \in Histogram, NEW latency \in Word
  PROVE  /\ Recorded(h, latency) \in Histogram
         /\ Recorded(h, latency).total_count = h.total_count + 1
<1>1. BucketIndex(latency) \in Bucket
  BY BucketIndexFacts
<1>2. h.buckets \in [Bucket -> Nat] /\ h.total_count \in Nat
  BY DEF Histogram
<1>3. [h.buckets EXCEPT ![BucketIndex(latency)] = @ + 1] \in [Bucket -> Nat]
  BY <1>1, <1>2
<1>4. QED
  BY <1>2, <1>3 DEF Recorded, Histogram
-----------------------------------------------------------------------------
(* The run.  What holds between any two messages. *)


\* Messages are counted from the end of the warm-up on.
CountSound ==
  /\ i <= total_messages
  /\ \A part \in Part :
       hist[part].total_count + invalid = IF i < warmup THEN 0 ELSE i - warmup

\* Nothing is measured before the wall clock is started, the end of the interval
\* is the end of the last message that parsed, and the sums lie within it.
TimeSound ==
  /\ wall_start <= clock
  /\ wall_start = 0 => hist["total"].total_count = 0 /\ invalid = 0
  /\ hist["total"].total_count = 0
       => wall_end = 0 /\ \A part \in Part : sum[part] = 0
  /\ hist["total"].total_count > 0
       => /\ wall_start <= wall_end /\ wall_end <= clock
          /\ sum["parse"] + sum["update"] + sum["best"] <= sum["total"]
          /\ sum["total"] <= wall_end - wall_start

\* The buckets have the latencies in them that were measured, and all of them.
SumSound(part) ==
  /\ \A b \in Bucket : Running(hist[part], b) = AtMost(part, Bounds[b])
  /\ Running(hist[part], Len(Bounds)) = hist[part].total_count

SumsSound == \A part \in Part : SumSound(part)

IInv == TypeOK /\ CountSound /\ TimeSound /\ SumsSound
-----------------------------------------------------------------------------
\* Words are the naturals below WordSize; sums and differences that fit do not wrap.
LEMMA WordFacts ==
  /\ WordSize \in Nat \ {0}
  /\ \A x \in Word : x \in Nat /\ x < WordSize
  /\ \A x \in Nat : x < WordSize => x \in Word
  /\ \A a, b \in Word : Plus(a, b) \in Word /\ Minus(a, b) \in Word
  /\ \A a, b \in Word : a + b < WordSize => Plus(a, b) = a + b
  /\ \A a, b \in Word : b <= a => Minus(a, b) = a - b
  /\ \A b \in Word : b > 0 => Minus(0, b) = WordSize - b
<1>1. WordSize \in Nat \ {0}
  BY HistogramAssumption
<1>2. /\ \A x \in 0 .. WordSize - 1 : x % WordSize = x
      /\ \A x \in 1 .. WordSize - 1 : (0 - x) % WordSize = WordSize - x
      /\ \A x \in Int : x % WordSize \in 0 .. WordSize - 1
  BY <1>1, WrapFacts
<1>3. /\ \A x \in Word : x \in Nat /\ x < WordSize
      /\ \A x \in Nat : x < WordSize => x \in Word
  BY <1>1 DEF Word
<1>4. \A a, b \in Word : a \in Int /\ b \in Int /\ a + b \in Int /\ a - b \in Int
  BY <1>1, <1>3
<1>5. \A a, b \in Word : Plus(a, b) \in Word /\ Minus(a, b) \in Word
  BY <1>2, <1>4 DEF Plus, Minus, Word
<1>6. \A a, b \in Word : a + b < WordSize => Plus(a, b) = a + b
  <2> SUFFICES ASSUME NEW a \in Word, NEW b \in Word, a + b < WordSize
               PROVE  Plus(a, b) = a + b
    OBVIOUS
  <2>1. a + b \in 0 .. WordSize - 1
    BY <1>1, <1>3
  <2>2. QED
    BY <2>1, <1>2 DEF Plus
<1>7. \A a, b \in Word : b <= a => Minus(a, b) = a - b
  <2> SUFFICES ASSUME NEW a \in Word, NEW b \in Word, b <= a
               PROVE  Minus(a, b) = a - b
    OBVIOUS
  <2>1. a - b \in 0 .. WordSize - 1
    BY <1>1, <1>3
  <2>2. QED
    BY <2>1, <1>2 DEF Minus
<1>8. \A b \in Word : b > 0 => Minus(0, b) = WordSize - b
  BY <1>1, <1>2, <1>3 DEF Minus
<1>9. QED
  BY <1>1, <1>3, <1>5, <1>6, <1>7, <1>8

\* The four latencies of a message whose readings are in order.
LEMMA LatencyFacts ==
  ASSUME NEW ps \in Word, NEW pd \in Word, NEW us \in Word, NEW ud \in Word, NEW bd \in Word,
         ps <= pd, pd <= us, us <= ud, ud <= bd,
         pd <= ps + MaxGap, us <= pd + MaxGap, ud <= us + MaxGap, bd <= ud + MaxGap,
         NEW lat, lat = Latencies(ps, pd, us, ud, bd)
  PROVE  /\ \A part \in Part : lat[part] \in Word /\ lat[part] \in Latency
         /\ lat["parse"] + lat["update"] + lat["best"] <= lat["total"]
         /\ lat["total"] = bd - ps
<1>1. /\ ps \in Nat /\ pd \in Nat /\ us \in Nat /\ ud \in Nat /\ bd \in Nat
  BY WordFacts
<1>2. /\ lat["parse"] = Minus(pd, ps) /\ lat["update"] = Minus(ud, us)
      /\ lat["best"] = Minus(bd, ud) /\ lat["total"] = Minus(bd, ps)
  BY DEF Latencies, Part
<1>3. /\ lat["parse"] = pd - ps /\ lat["update"] = ud - us
      /\ lat["best"] = bd - ud /\ lat["total"] = bd - ps
  BY <1>1, <1>2, WordFacts
<1>4. \A part \in Part : lat[part] \in Word
  BY <1>2, WordFacts DEF Part
<1>5. \A part \in Part : lat[part] \in Latency
  BY <1>1, <1>3, RunAssumption DEF Part, Latency
<1>6. QED
  BY <1>1, <1>3, <1>4, <1>5

\* Counting one more keeps counters counters, whatever is counted.
LEMMA CountedFacts ==
  ASSUME NEW S, NEW f \in [S -> Nat], NEW x
  PROVE  [f EXCEPT ![x] = @ + 1] \in [S -> Nat]
<1>1. CASE x \in S
  BY <1>1
<1>2. CASE x \notin S
  <2>1. [f EXCEPT ![x] = @ + 1] = f
    BY <1>2
  <2>2. QED
    BY <2>1
<1>3. QED
  BY <1>1, <1>2

\* What recording a message does to the histograms, sums and samples.
LEMMA RecordFacts ==
  ASSUME TypeOK, NEW lat, \A part \in Part : lat[part] \in Word, Record(lat)
  PROVE  /\ hist' \in [Part -> Histogram]
         /\ sum' \in [Part -> Word]
         /\ samples' \in [Part -> [Latency -> Nat]]
         /\ \A part \in Part : hist'[part].total_count = hist[part].total_count + 1
         /\ \A part \in Part : sum'[part] = Plus(sum[part], lat[part])
<1>1. \A part \in Part : /\ Recorded(hist[part], lat[part]) \in Histogram
                         /\ Recorded(hist[part], lat[part]).total_count
                              = hist[part].total_count + 1
  BY RecordedFacts DEF TypeOK
<1>2. \A part \in Part : Plus(sum[part], lat[part]) \in Word
  BY WordFacts DEF TypeOK
<1>3. \A part \in Part : [samples[part] EXCEPT ![lat[part]] = @ + 1] \in [Latency -> Nat]
  <2> SUFFICES ASSUME NEW part \in Part
               PROVE  [samples[part] EXCEPT ![lat[part]] = @ + 1] \in [Latency -> Nat]
    OBVIOUS
  <2>1. samples[part] \in [Latency -> Nat]
    BY DEF TypeOK
  <2>2. QED
    BY <2>1, CountedFacts, Zenon
<1>4. QED
  BY <1>1, <1>2, <1>3 DEF Record

\* A message is read: the position moves on and stays within the stream.
LEMMA NextMessageFacts ==
  ASSUME TypeOK, CountSound, NextMessage, UNCHANGED <<messages, warmup>>
  PROVE  /\ i' \in Word /\ i' = i + 1 /\ i' <= total_messages'
         /\ messages \in Word /\ warmup \in Word
<1>1. messages \in Word /\ warmup \in Word
  BY RunAssumption DEF TypeOK
<1>2. total_messages \in Word /\ total_messages' = total_messages
  BY <1>1, WordFacts DEF total_messages
<1>3. /\ i \in Nat /\ total_messages \in Nat /\ WordSize \in Nat /\ total_messages < WordSize
      /\ i <= total_messages /\ i # total_messages /\ i' = i + 1
  BY <1>2, WordFacts DEF TypeOK, CountSound, NextMessage
<1>4. i' \in Nat /\ i' < WordSize /\ i' <= total_messages
  BY <1>3
<1>5. QED
  BY <1>1, <1>2, <1>3, <1>4, WordFacts
-----------------------------------------------------------------------------
(* The buckets against the latencies they count. *)

\* The two sums, of buckets and of latencies, as sums of the same kind.
LEMMA SumForms ==
  /\ \A h, b : Running(h, b) = SumOf(h.buckets, 1 .. b)
  /\ \A part, latency : AtMost(part, latency)
                        = SumOf(samples[part], {l \in Latency : l <= latency})
  /\ \A part, latency : AtMost(part, latency)'
                        = SumOf(samples'[part], {l \in Latency : l <= latency})
  /\ IsFiniteSet(Latency) /\ IsFiniteSet(Bucket)
  /\ \A b \in Bucket : IsFiniteSet(1 .. b) /\ 1 .. b \in SUBSET Bucket
<1>1. \A h, b : Running(h, b) = SumOf(h.buckets, 1 .. b)
  BY Zenon DEF Running, SumOf
<1>2. \A part, latency : AtMost(part, latency)
                         = SumOf(samples[part], {l \in Latency : l <= latency})
  BY Zenon DEF AtMost, SumOf
<1>3. \A part, latency : AtMost(part, latency)'
                         = SumOf(samples'[part], {l \in Latency : l <= latency})
  BY Zenon DEF AtMost, SumOf, MapThenSumSet, MapThenFoldSet
<1>4. IsFiniteSet(Latency)
  BY FS_Interval, RunAssumption DEF Latency
<1>5. \A b \in Bucket : IsFiniteSet(1 .. b) /\ 1 .. b \in SUBSET Bucket
  BY FS_Interval, BoundsFacts DEF Bucket
<1>6. IsFiniteSet(Bucket)
  <2>1. Len(Bounds) \in Int /\ 1 \in Int
    BY BoundsFacts
  <2>2. QED
    BY <2>1, FS_Interval DEF Bucket
<1>7. QED
  BY <1>1, <1>2, <1>3, <1>4, <1>5, <1>6

\* A latency is in one of the first b buckets if it is at most the b-th bound.
LEMMA BucketBelow ==
  ASSUME NEW latency \in Word, NEW b \in Bucket
  PROVE  BucketIndex(latency) \in 1 .. b <=> latency <= Bounds[b]
<1> DEFINE a == BucketIndex(latency)
<1>1. /\ a \in Bucket /\ Bounds[a] >= latency
      /\ \A c \in 1 .. a - 1 : Bounds[c] < latency
  BY BucketIndexFacts
<1>2. /\ latency \in Int /\ a \in Nat /\ b \in Nat /\ 1 <= a /\ 1 <= b
      /\ Bounds[a] \in Int /\ Bounds[b] \in Int
  BY <1>1, BoundsFacts DEF Word
<1> HIDE DEF a
<1>3. a \in 1 .. b <=> a <= b
  BY <1>2
<1>4. a <= b <=> latency <= Bounds[b]
  <2>1. CASE b < a
    <3>1. b \in 1 .. a - 1
      BY <1>2, <2>1
    <3>2. Bounds[b] < latency
      BY <1>1, <3>1
    <3>3. QED
      BY <1>2, <2>1, <3>2
  <2>2. CASE a = b
    BY <1>1, <1>2, <2>2
  <2>3. CASE a < b
    <3>1. Bounds[a] < Bounds[b]
      BY <1>1, <2>3, BoundsIncrease
    <3>2. QED
      BY <1>1, <1>2, <2>3, <3>1
  <2>4. QED
    BY <1>2, <2>1, <2>2, <2>3
<1>5. QED
  BY <1>3, <1>4 DEF a

\* Nothing is counted and nothing was measured.
LEMMA SumsStartSound == Init => SumsSound
<1> SUFFICES ASSUME Init, NEW part \in Part PROVE SumSound(part)
  BY DEF SumsSound
<1> DEFINE h == hist[part]
           s == samples[part]
<1>1. h.total_count = 0 /\ (\A b \in Bucket : h.buckets[b] = 0) /\ \A l \in Latency : s[l] = 0
  BY DEF Init, EmptyHistogram
<1> HIDE DEF h, s
<1>2. \A b \in Bucket : SumOf(h.buckets, 1 .. b) = 0
  BY <1>1, SumForms, SumOfZeros
<1>3. \A latency : SumOf(s, {l \in Latency : l <= latency}) = 0
  <2> SUFFICES ASSUME NEW latency PROVE SumOf(s, {l \in Latency : l <= latency}) = 0
    OBVIOUS
  <2> DEFINE U == {l \in Latency : l <= latency}
  <2>1. IsFiniteSet(U) /\ \A l \in U : s[l] = 0
    BY <1>1, SumForms, FS_Subset
  <2> HIDE DEF U
  <2>2. SumOf(s, U) = 0
    BY <2>1, SumOfZeros
  <2>3. QED
    BY <2>2 DEF U
<1>4. Len(Bounds) \in Bucket
  BY BoundsFacts DEF Bucket
<1>5. \A b \in Bucket : Running(hist[part], b) = 0
  BY <1>2, SumForms DEF h
<1>6. \A b \in Bucket : AtMost(part, Bounds[b]) = 0
  BY <1>3, SumForms DEF s
<1>7. QED
  BY <1>1, <1>4, <1>5, <1>6 DEF SumSound, h

\* A message that is not measured leaves them as they are.
LEMMA SumsUnchanged ==
  SumsSound /\ UNCHANGED <<hist, samples>> => SumsSound'
<1> SUFFICES ASSUME SumsSound, UNCHANGED <<hist, samples>>, NEW part \in Part
             PROVE  SumSound(part)'
  BY DEF SumsSound
<1>1. SumSound(part)
  BY DEF SumsSound
<1>2. \A latency : AtMost(part, latency)' = AtMost(part, latency)
  BY SumForms
<1>3. QED
  BY <1>1, <1>2 DEF SumSound

\* A latency adds one to its bucket and to those who were at most its bound.
LEMMA SumsKept ==
  ASSUME TypeOK, SumsSound,
         NEW lat, \A part \in Part : lat[part] \in Word /\ lat[part] \in Latency,
         Record(lat)
  PROVE  SumsSound'
<1> SUFFICES ASSUME NEW part \in Part PROVE SumSound(part)'
  BY DEF SumsSound
<1> DEFINE f == hist[part].buckets
           k == BucketIndex(lat[part])
           s == samples[part]
           l == lat[part]
<1>1. f \in [Bucket -> Nat] /\ s \in [Latency -> Nat] /\ l \in Latency /\ l \in Word
      /\ hist[part].total_count \in Nat
  BY DEF TypeOK, Histogram
<1>2. k \in Bucket
  BY BucketIndexFacts
<1>3. /\ hist'[part].buckets = [f EXCEPT ![k] = @ + 1]
      /\ hist'[part].total_count = hist[part].total_count + 1
      /\ samples'[part] = [s EXCEPT ![l] = @ + 1]
  BY DEF Record, Recorded
<1>4. SumSound(part)
  BY DEF SumsSound
<1>5. /\ IsFiniteSet(Bucket) /\ IsFiniteSet(Latency)
  BY SumForms, BoundsFacts, FS_Interval DEF Bucket
<1>6. \A b \in Bucket : (k \in 1 .. b) <=> (l <= Bounds[b])
  BY <1>1, BucketBelow
<1> HIDE DEF f, k, s, l
<1> DEFINE f2 == hist'[part].buckets
           s2 == samples'[part]
<1>7. /\ f2 \in [Bucket -> Nat] /\ f2[k] = f[k] + 1 /\ \A b \in Bucket \ {k} : f2[b] = f[b]
      /\ s2 \in [Latency -> Nat] /\ s2[l] = s[l] + 1 /\ \A m \in Latency \ {l} : s2[m] = s[m]
  BY <1>1, <1>2, <1>3
<1> HIDE DEF f2, s2
<1>8. ASSUME NEW b \in Bucket
      PROVE  /\ k \in 1 .. b => SumOf(f2, 1 .. b) = SumOf(f, 1 .. b) + 1
             /\ k \notin 1 .. b => SumOf(f2, 1 .. b) = SumOf(f, 1 .. b)
  <2> DEFINE U == 1 .. b
  <2>1. U \in SUBSET Bucket
    BY SumForms
  <2> HIDE DEF U
  <2>2. /\ k \in U => SumOf(f2, U) = SumOf(f, U) + 1
        /\ k \notin U => SumOf(f2, U) = SumOf(f, U)
    BY <1>1, <1>2, <1>5, <1>7, <2>1, SumCounted
  <2>3. QED
    BY <2>2 DEF U
<1>9. ASSUME NEW b \in Bucket
      PROVE  LET U == {m \in Latency : m <= Bounds[b]}
             IN  /\ l <= Bounds[b] => SumOf(s2, U) = SumOf(s, U) + 1
                 /\ ~(l <= Bounds[b]) => SumOf(s2, U) = SumOf(s, U)
  <2> DEFINE U == {m \in Latency : m <= Bounds[b]}
  <2>1. U \in SUBSET Latency /\ (l \in U <=> l <= Bounds[b])
    BY <1>1
  <2> HIDE DEF U
  <2>2. /\ l \in U => SumOf(s2, U) = SumOf(s, U) + 1
        /\ l \notin U => SumOf(s2, U) = SumOf(s, U)
    BY <1>1, <1>5, <1>7, <2>1, SumCounted
  <2>3. QED
    BY <2>1, <2>2 DEF U
<1>10. ASSUME NEW b \in Bucket
       PROVE  /\ k \in 1 .. b => Running(hist'[part], b) = Running(hist[part], b) + 1
              /\ Running(hist'[part], b) = AtMost(part, Bounds[b])'
  <2>1. Running(hist'[part], b) = SumOf(f2, 1 .. b) /\ Running(hist[part], b) = SumOf(f, 1 .. b)
    BY SumForms DEF f, f2
  <2>2. AtMost(part, Bounds[b])' = SumOf(s2, {m \in Latency : m <= Bounds[b]})
    BY SumForms DEF s2
  <2>3. AtMost(part, Bounds[b]) = SumOf(s, {m \in Latency : m <= Bounds[b]})
    BY SumForms DEF s
  <2>4. Running(hist[part], b) = AtMost(part, Bounds[b])
    BY <1>4 DEF SumSound
  <2>5. CASE k \in 1 .. b
    BY <1>6, <1>8, <1>9, <2>1, <2>2, <2>3, <2>4, <2>5
  <2>6. CASE k \notin 1 .. b
    BY <1>6, <1>8, <1>9, <2>1, <2>2, <2>3, <2>4, <2>6
  <2>7. QED
    BY <2>5, <2>6
<1>11. Running(hist'[part], Len(Bounds)) = hist'[part].total_count
  <2>1. Len(Bounds) \in Bucket /\ k \in 1 .. Len(Bounds)
    BY <1>2, BoundsFacts DEF Bucket
  <2>2. QED
    BY <1>3, <1>4, <1>10, <2>1 DEF SumSound
<1>12. QED
  BY <1>10, <1>11 DEF SumSound
-----------------------------------------------------------------------------
\* The invariant holds before the first message.
LEMMA InitIInv == Init => IInv
<1> SUFFICES ASSUME Init PROVE IInv
  OBVIOUS
<1>1. messages \in Word \ {0} /\ warmup \in Word \ {0} /\ 0 \in Word /\ 1 \in Word
  BY RunAssumption, WordFacts DEF Init
<1>2. EmptyHistogram \in Histogram /\ EmptyHistogram.total_count = 0
  BY DEF EmptyHistogram, Histogram
<1>3. TypeOK
  BY <1>1, <1>2 DEF Init, TypeOK
<1>4. CountSound
  <2>1. total_messages \in Nat /\ warmup \in Nat /\ warmup > 0
    BY <1>1, WordFacts DEF total_messages
  <2>2. QED
    BY <2>1, <1>2 DEF Init, CountSound
<1>5. TimeSound
  BY <1>2 DEF Init, TimeSound, Part
<1>6. SumsSound
  BY SumsStartSound
<1>7. QED
  BY <1>3, <1>4, <1>5, <1>6 DEF IInv

\* A message of the warm-up keeps the invariant.
LEMMA WarmIInv == IInv /\ Warm => IInv'
<1> SUFFICES ASSUME IInv, Warm PROVE IInv'
  OBVIOUS
<1>1. TypeOK /\ CountSound /\ TimeSound
  BY DEF IInv
<1>2. i' \in Word /\ i' = i + 1 /\ i' <= total_messages' /\ warmup \in Nat /\ i \in Nat
  BY <1>1, NextMessageFacts, WordFacts DEF Warm, TypeOK
<1>3. TypeOK'
  BY <1>1, <1>2 DEF TypeOK, Warm
<1>4. CountSound'
  <2>1. i < warmup
    BY <1>2 DEF Warm, Measured
  <2>2. QED
    BY <1>1, <1>2, <2>1 DEF CountSound, Warm
<1>5. TimeSound'
  BY <1>1 DEF TimeSound, Warm
<1>6. SumsSound'
  BY SumsUnchanged DEF IInv, Warm
<1>7. QED
  BY <1>3, <1>4, <1>5, <1>6 DEF IInv

\* A message that parseOne() refuses keeps the invariant.
LEMMA SkipIInv == IInv /\ Skip => IInv'
<1> SUFFICES ASSUME IInv, Skip PROVE IInv'
  OBVIOUS
<1>1. TypeOK /\ CountSound /\ TimeSound
  BY DEF IInv
<1>2. i' \in Word /\ i' = i + 1 /\ i' <= total_messages' /\ warmup \in Nat /\ i \in Nat /\ i' \in Nat
  BY <1>1, NextMessageFacts, WordFacts DEF Skip, TypeOK
<1>3. /\ clock \in Nat /\ clock > 0 /\ wall_start \in Nat /\ wall_end \in Nat /\ invalid \in Nat
      /\ \A part \in Part : hist[part].total_count \in Nat
  BY <1>1, WordFacts DEF TypeOK, Histogram
<1>4. clock' \in Word \ {0} /\ clock <= clock'
  <2>1. PICK gap \in 0 .. 2 * MaxGap : clock + gap \in Word /\ clock' = clock + gap
    BY DEF Skip
  <2>2. QED
    BY <2>1, <1>3, RunAssumption, WordFacts
<1>5. wall_start' \in Word /\ wall_start' > 0 /\ wall_start' <= clock'
  <2>1. clock' \in Nat
    BY <1>4, WordFacts
  <2>2. CASE wall_start = 0
    BY <1>1, <1>3, <1>4, <2>1, <2>2 DEF Skip, StartWall, TypeOK
  <2>3. CASE wall_start # 0
    BY <1>1, <1>3, <1>4, <2>1, <2>3 DEF Skip, StartWall, TypeOK, TimeSound
  <2>4. QED
    BY <2>2, <2>3
<1>6. CountSound'
  <2>1. ~(i < warmup)
    BY <1>2 DEF Skip, Measured
  <2>2. \A part \in Part : hist[part].total_count + invalid = i - warmup
    BY <1>1, <2>1 DEF CountSound
  <2>3. \A part \in Part : hist[part].total_count + invalid' = i' - warmup
    BY <1>2, <1>3, <2>2 DEF Skip
  <2>4. QED
    BY <1>2, <2>1, <2>3 DEF CountSound, Skip
<1>7. invalid' \in Word
  <2>1. invalid' = invalid + 1
    BY DEF Skip
  <2>2. hist["total"].total_count + invalid' = i' - warmup
    BY <1>2, <1>6 DEF CountSound, Skip, Measured, Part
  <2>3. i' < WordSize /\ hist["total"].total_count \in Nat
    BY <1>2, <1>3, WordFacts DEF Part
  <2>4. QED
    BY <1>2, <1>3, <2>1, <2>2, <2>3, WordFacts
<1>8. TypeOK'
  BY <1>1, <1>2, <1>4, <1>5, <1>7 DEF TypeOK, Skip
<1>9. TimeSound'
  <2>1. wall_start' > 0 /\ wall_start' <= clock' /\ clock' \in Nat
    BY <1>4, <1>5, WordFacts
  <2>2. hist["total"].total_count > 0 => wall_start' = wall_start
    BY <1>1, <1>3 DEF TimeSound, Skip, StartWall, Part
  <2>3. wall_start' # 0
    BY <1>5, WordFacts
  <2>4. QED
    BY <1>1, <1>3, <1>4, <2>1, <2>2, <2>3 DEF TimeSound, Skip
<1>10. SumsSound'
  BY SumsUnchanged DEF IInv, Skip
<1>11. QED
  BY <1>6, <1>8, <1>9, <1>10 DEF IInv
-----------------------------------------------------------------------------
\* A measured message keeps the invariant.
LEMMA MeasureIInv == IInv /\ Measure => IInv'
<1> SUFFICES ASSUME IInv, Measure PROVE IInv'
  OBVIOUS
<1>1. TypeOK /\ CountSound /\ TimeSound
  BY DEF IInv
<1>2. i' \in Word /\ i' = i + 1 /\ i' <= total_messages' /\ warmup \in Nat /\ i \in Nat /\ i' \in Nat
  BY <1>1, NextMessageFacts, WordFacts DEF Measure, TypeOK
<1>3. /\ clock \in Nat /\ clock > 0 /\ wall_start \in Nat /\ wall_end \in Nat /\ invalid \in Nat
      /\ \A part \in Part : hist[part].total_count \in Nat
      /\ \A part \in Part : sum[part] \in Word /\ sum[part] \in Nat
  BY <1>1, WordFacts DEF TypeOK, Histogram
<1>4. PICK ps \in clock .. clock + MaxGap : \E pd \in ps .. ps + MaxGap :
           \E us \in pd .. pd + MaxGap : \E ud \in us .. us + MaxGap :
           \E bd \in ud .. ud + MaxGap :
             /\ bd \in Word
             /\ Record(Latencies(ps, pd, us, ud, bd))
             /\ clock' = bd /\ wall_end' = bd
  BY DEF Measure
<1>5. PICK pd \in ps .. ps + MaxGap :
           \E us \in pd .. pd + MaxGap : \E ud \in us .. us + MaxGap :
           \E bd \in ud .. ud + MaxGap :
             /\ bd \in Word
             /\ Record(Latencies(ps, pd, us, ud, bd))
             /\ clock' = bd /\ wall_end' = bd
  BY <1>4
<1>6. PICK us \in pd .. pd + MaxGap :
           \E ud \in us .. us + MaxGap : \E bd \in ud .. ud + MaxGap :
             /\ bd \in Word
             /\ Record(Latencies(ps, pd, us, ud, bd))
             /\ clock' = bd /\ wall_end' = bd
  BY <1>5
<1>7. PICK ud \in us .. us + MaxGap :
           \E bd \in ud .. ud + MaxGap :
             /\ bd \in Word
             /\ Record(Latencies(ps, pd, us, ud, bd))
             /\ clock' = bd /\ wall_end' = bd
  BY <1>6
<1>8. PICK bd \in ud .. ud + MaxGap :
             /\ bd \in Word
             /\ Record(Latencies(ps, pd, us, ud, bd))
             /\ clock' = bd /\ wall_end' = bd
  BY <1>7
<1>9. /\ ps \in Nat /\ pd \in Nat /\ us \in Nat /\ ud \in Nat /\ bd \in Nat
      /\ clock <= ps /\ ps <= pd /\ pd <= us /\ us <= ud /\ ud <= bd
  BY <1>3, <1>4, <1>5, <1>6, <1>7, <1>8, RunAssumption
<1>10. ps \in Word /\ pd \in Word /\ us \in Word /\ ud \in Word /\ bd \in Word
  BY <1>8, <1>9, WordFacts
<1> DEFINE lat == Latencies(ps, pd, us, ud, bd)
<1>11. /\ \A part \in Part : lat[part] \in Word /\ lat[part] \in Latency
       /\ lat["parse"] + lat["update"] + lat["best"] <= lat["total"]
       /\ lat["total"] = bd - ps
  <2>1. ps <= pd /\ pd <= ps + MaxGap /\ us <= pd + MaxGap /\ ud <= us + MaxGap /\ bd <= ud + MaxGap
    BY <1>3, <1>4, <1>5, <1>6, <1>7, <1>8, RunAssumption
  <2>2. QED
    BY <1>9, <1>10, <2>1, LatencyFacts
<1>12. /\ hist' \in [Part -> Histogram] /\ sum' \in [Part -> Word]
       /\ samples' \in [Part -> [Latency -> Nat]]
       /\ \A part \in Part : hist'[part].total_count = hist[part].total_count + 1
       /\ \A part \in Part : sum'[part] = Plus(sum[part], lat[part])
  BY <1>1, <1>8, <1>11, RecordFacts
<1> HIDE DEF lat
<1>13. wall_start' \in Word /\ wall_start' > 0 /\ wall_start' <= clock
  <2>1. CASE wall_start = 0
    BY <1>1, <1>3, <2>1 DEF Measure, StartWall, TypeOK
  <2>2. CASE wall_start # 0
    BY <1>1, <1>3, <2>2 DEF Measure, StartWall, TypeOK, TimeSound
  <2>3. QED
    BY <2>1, <2>2
<1>14. TypeOK'
  <2>1. clock' \in Word \ {0} /\ wall_end' \in Word
    BY <1>3, <1>8, <1>9
  <2>2. QED
    BY <1>1, <1>2, <1>12, <1>13, <2>1 DEF TypeOK, Measure
<1>15. CountSound'
  <2>1. ~(i < warmup)
    BY <1>2 DEF Measure, Measured
  <2>2. \A part \in Part : hist[part].total_count + invalid = i - warmup
    BY <1>1, <2>1 DEF CountSound
  <2>3. ASSUME NEW part \in Part
        PROVE  hist'[part].total_count + invalid = i' - warmup
    <3>1. /\ hist'[part].total_count = hist[part].total_count + 1
          /\ hist[part].total_count + invalid = i - warmup
          /\ hist[part].total_count \in Nat
      BY <1>3, <1>12, <2>2
    <3>2. QED
      BY <1>2, <1>3, <3>1
  <2>4. QED
    BY <1>2, <2>1, <2>3 DEF CountSound, Measure
<1>16. TimeSound'
  <2>1. /\ wall_start' \in Nat /\ wall_start' # 0
        /\ wall_start' <= clock' /\ wall_start' <= wall_end' /\ wall_end' <= clock'
    BY <1>3, <1>8, <1>9, <1>13, WordFacts
  <2>2. hist'["total"].total_count > 0
    BY <1>3, <1>12 DEF Part
  <2>3. /\ sum["parse"] + sum["update"] + sum["best"] <= sum["total"]
        /\ sum["total"] + (bd - ps) <= bd - wall_start'
    <3>1. CASE hist["total"].total_count = 0
      <4>1. sum["parse"] = 0 /\ sum["update"] = 0 /\ sum["best"] = 0 /\ sum["total"] = 0
        BY <1>1, <3>1 DEF TimeSound, Part
      <4>2. wall_start' <= ps
        BY <1>3, <1>9, <1>13, <2>1
      <4>3. bd - ps <= bd - wall_start'
        <5>1. \A a, b, c \in Nat : c <= b => a - b <= a - c
          OBVIOUS
        <5>2. bd \in Nat /\ ps \in Nat /\ wall_start' \in Nat
          BY <1>9, <2>1
        <5>3. QED
          BY <4>2, <5>1, <5>2, Zenon
      <4>4. sum["total"] + (bd - ps) = bd - ps
        BY <1>9, <4>1
      <4>5. QED
        BY <4>1, <4>3, <4>4
    <3>2. CASE hist["total"].total_count > 0
      <4>1. /\ wall_start <= wall_end /\ wall_end <= clock
            /\ sum["parse"] + sum["update"] + sum["best"] <= sum["total"]
            /\ sum["total"] <= wall_end - wall_start
        BY <1>1, <3>2 DEF TimeSound
      <4>2. wall_start' = wall_start
        BY <1>1, <1>3, <3>2 DEF TimeSound, Measure, StartWall, Part
      <4>3. QED
        BY <1>3, <1>9, <4>1, <4>2 DEF Part
    <3>3. QED
      BY <1>3, <3>1, <3>2 DEF Part
  <2>4. \A part \in Part : lat[part] \in Nat
    BY <1>11, WordFacts
  <2>5. sum["total"] + lat["total"] < WordSize
    <3>1. sum["total"] \in Nat /\ bd < WordSize /\ WordSize \in Nat
      BY <1>3, <1>8, WordFacts DEF Part
    <3>2. QED
      BY <1>9, <1>11, <2>1, <2>3, <3>1
  <2>6. \A part \in Part : sum[part] + lat[part] < WordSize
    <3>1. /\ sum["parse"] \in Nat /\ sum["update"] \in Nat /\ sum["best"] \in Nat /\ sum["total"] \in Nat
          /\ lat["parse"] \in Nat /\ lat["update"] \in Nat /\ lat["best"] \in Nat /\ lat["total"] \in Nat
      BY <1>3, <2>4 DEF Part
    <3>2. WordSize \in Nat
      BY WordFacts
    <3>3. QED
      BY <1>11, <2>3, <2>5, <3>1, <3>2 DEF Part
  <2>7. \A part \in Part : sum'[part] = sum[part] + lat[part]
    BY <1>3, <1>11, <1>12, <2>6, WordFacts
  <2>8. /\ sum'["parse"] + sum'["update"] + sum'["best"] <= sum'["total"]
        /\ sum'["total"] <= wall_end' - wall_start'
    <3>1. /\ sum["parse"] \in Nat /\ sum["update"] \in Nat /\ sum["best"] \in Nat /\ sum["total"] \in Nat
          /\ lat["parse"] \in Nat /\ lat["update"] \in Nat /\ lat["best"] \in Nat /\ lat["total"] \in Nat
      BY <1>3, <2>4 DEF Part
    <3>2. /\ sum'["parse"] = sum["parse"] + lat["parse"] /\ sum'["update"] = sum["update"] + lat["update"]
          /\ sum'["best"] = sum["best"] + lat["best"] /\ sum'["total"] = sum["total"] + lat["total"]
      BY <2>7 DEF Part
    <3>3. QED
      BY <1>8, <1>9, <1>11, <2>1, <2>3, <3>1, <3>2
  <2>9. hist'["total"].total_count # 0
    BY <1>3, <1>12 DEF Part
  <2>10. QED
    BY <2>1, <2>2, <2>8, <2>9 DEF TimeSound
<1>17. SumsSound'
  BY <1>1, <1>8, <1>11, SumsKept DEF IInv, lat
<1>18. QED
  BY <1>14, <1>15, <1>16, <1>17 DEF IInv
-----------------------------------------------------------------------------
\* The inductive invariant holds whatever the messages and the clock do.
THEOREM Invariance == Spec => []IInv
<1>1. IInv /\ [Next]_vars => IInv'
  <2> SUFFICES ASSUME IInv, [Next]_vars PROVE IInv'
    OBVIOUS
  <2>1. CASE Next
    BY <2>1, WarmIInv, SkipIInv, MeasureIInv DEF Next
  <2>2. CASE UNCHANGED vars
    <3>1. total_messages' = total_messages
      BY <2>2 DEF vars, total_messages
    <3>2. SumsSound'
      BY <2>2, SumsUnchanged DEF vars, IInv
    <3>3. QED
      BY <2>2, <3>1, <3>2 DEF vars, IInv, TypeOK, CountSound, TimeSound
  <2>3. QED
    BY <2>1, <2>2
<1>2. QED
  BY InitIInv, <1>1, PTL DEF Spec

\* Positions, counters, sums and histograms keep their types: no count leaves
\* its word, and every latency has a bucket.
THEOREM TypeCorrect == Spec => []TypeOK
<1>1. IInv => TypeOK
  BY DEF IInv
<1>2. QED
  BY Invariance, <1>1, PTL

\* The tables count every message after the warm-up once, in each of the four
\* histograms or as invalid, and the buckets of a table add up to its total.
THEOREM EveryMessageAccounted == Spec => []AllAccounted
<1>1. IInv => AllMeasured
  <2> SUFFICES ASSUME IInv, Done, messages + warmup < WordSize, NEW part \in Part
               PROVE  hist[part].total_count + invalid = messages
    BY DEF AllMeasured
  <2>1. messages \in Word \ {0} /\ warmup \in Word /\ messages \in Nat /\ warmup \in Nat
    BY RunAssumption, WordFacts DEF IInv, TypeOK
  <2>2. total_messages = messages + warmup
    BY <2>1, WordFacts DEF total_messages
  <2>3. i = messages + warmup
    BY <2>2 DEF Done
  <2>4. QED
    BY <2>1, <2>3 DEF IInv, CountSound
<1>2. IInv => AllAccounted
  BY <1>1 DEF IInv, AllAccounted, SumsSound, SumSound
<1>3. QED
  BY Invariance, <1>2, PTL

\* The threshold of a percentile is the only rank that covers it, and there is
\* a latency of that rank.
LEMMA RankFacts ==
  ASSUME NEW n \in Nat \ {0}, NEW p \in {50, 90, 99}
  PROVE  /\ Threshold(p, n) \in 1 .. n
         /\ Threshold(p, n) = CHOOSE k \in 1 .. n : 100 * k >= p * n /\ 100 * (k - 1) < p * n
<1> DEFINE t == (p * n + 99) \div 100
           Covers(k) == 100 * k >= p * n /\ 100 * (k - 1) < p * n
<1>1. Threshold(p, n) = t
  BY ThresholdIsRank DEF Rank
<1>2. t \in 1 .. n
  OBVIOUS
<1>3. Covers(t)
  OBVIOUS
<1>4. \A k \in 1 .. n : Covers(k) => k = t
  OBVIOUS
<1> HIDE DEF t
<1>5. t = CHOOSE k \in 1 .. n : Covers(k)
  BY <1>2, <1>3, <1>4
<1>6. QED
  BY <1>1, <1>2, <1>5

\* The bucket printed as the 50th, 90th or 99th percentile holds the latency of
\* that rank among all that were measured.
THEOREM PercentilesHold == Spec => []PercentileHolds
<1>1. IInv => PercentileHolds
  <2> SUFFICES ASSUME IInv, NEW part \in Part, NEW p \in {50, 90, 99}, hist[part].total_count > 0
               PROVE  LET n    == hist[part].total_count
                          b    == PercentileBucketIndex(hist[part], p)
                          rank == CHOOSE k \in 1 .. n : 100 * k >= p * n /\ 100 * (k - 1) < p * n
                      IN  /\ rank <= AtMost(part, Bounds[b])
                          /\ b > 1 => AtMost(part, LowerBound(b)) < rank
    BY DEF PercentileHolds
  <2> DEFINE h == hist[part]
             n == h.total_count
             t == Threshold(p, n)
             reached == {b \in Bucket : Running(h, b) >= t}
  <2>1. SumSound(part) /\ h.buckets \in [Bucket -> Nat] /\ n \in Nat \ {0}
    <3>1. SumsSound /\ hist \in [Part -> Histogram]
      BY DEF IInv, TypeOK
    <3>2. QED
      BY <3>1 DEF SumsSound, Histogram
  <2>2. /\ t \in 1 .. n
        /\ t = CHOOSE k \in 1 .. n : 100 * k >= p * n /\ 100 * (k - 1) < p * n
    BY SMTT(30), <2>1, RankFacts
  <2> HIDE DEF h, n
  <2>3. \A b \in Bucket : Running(h, b) \in Nat /\ Running(h, b) = AtMost(part, Bounds[b])
    <3>1. IsFiniteSet(Bucket)
      BY SumForms
    <3>2. QED
      BY <2>1, <3>1, SumForms, SumFacts DEF SumSound, h
  <2>4. Len(Bounds) \in reached
    BY <2>1, <2>2, BoundsFacts DEF SumSound, h, n, Bucket
  <2>5. reached \in SUBSET Nat
    BY BoundsFacts
  <2>6. PICK b \in reached : \A c \in reached : b <= c
    BY <2>4, <2>5, SmallestNat
  <2>7. \A d \in reached : (\A c \in reached : d <= c) => d = b
    BY <2>5, <2>6
  <2> HIDE DEF reached
  <2>8. b = CHOOSE d \in reached : \A c \in reached : d <= c
    BY <2>6, <2>7
  <2>9. PercentileBucketIndex(h, p) = b
    BY <2>1, <2>4, <2>8 DEF PercentileBucketIndex, reached, n
  <2>10. t <= AtMost(part, Bounds[b])
    BY <2>2, <2>3, <2>6 DEF reached
  <2>11. ASSUME b > 1
         PROVE  AtMost(part, LowerBound(b)) < t
    <3>1. b \in Nat /\ b \in Bucket /\ b - 1 \in Bucket /\ b - 1 \notin reached
      <4>1. b \in Nat /\ b \in Bucket /\ b - 1 \in Bucket
        BY <2>5, <2>6, <2>11, BoundsFacts DEF reached
      <4>2. b - 1 \notin reached
        BY <2>6, <4>1
      <4>3. QED
        BY <4>1, <4>2
    <3>2. Running(h, b - 1) < t
      BY <2>2, <2>3, <3>1 DEF reached
    <3>3. LowerBound(b) = Bounds[b - 1]
      BY <2>11, <3>1 DEF LowerBound
    <3>4. QED
      BY <2>3, <3>1, <3>2, <3>3
  <2>12. QED
    BY <2>2, <2>9, <2>10, <2>11 DEF h, n
<1>2. QED
  BY Invariance, <1>1, PTL

\* The reported times nest, and when no measured message has parsed the reported
\* interval is longer than the clock has run: TimesNested for any word size.
THEOREM TimesAreNested == Spec => []TimesNested
<1>1. IInv => TimesNested
  <2> SUFFICES ASSUME IInv PROVE TimesNested
    OBVIOUS
  <2>1. TypeOK /\ TimeSound
    BY DEF IInv
  <2>2. /\ wall_start \in Word /\ wall_end \in Word /\ wall_start \in Nat /\ wall_end \in Nat
        /\ clock \in Nat /\ clock < WordSize /\ invalid \in Nat /\ WordSize \in Nat
        /\ hist["total"].total_count \in Nat
    BY <2>1, WordFacts DEF TypeOK, Histogram, Part
  <2>3. CASE hist["total"].total_count > 0
    <3>1. /\ wall_start <= wall_end /\ wall_end <= clock
          /\ sum["parse"] + sum["update"] + sum["best"] <= sum["total"]
          /\ sum["total"] <= wall_end - wall_start
      BY <2>1, <2>3 DEF TimeSound
    <3>2. Elapsed = wall_end - wall_start
      BY <2>2, <3>1, WordFacts DEF Elapsed
    <3>3. Elapsed <= clock - wall_start
      BY <2>2, <3>1, <3>2
    <3>4. QED
      BY <2>3, <3>1, <3>2, <3>3 DEF TimesNested
  <2>4. CASE ~(hist["total"].total_count > 0)
    <3>1. ASSUME invalid > 0
          PROVE  Elapsed > clock - wall_start
      <4>1. wall_end = 0 /\ wall_start > 0
        BY <2>1, <2>2, <2>4, <3>1 DEF TimeSound
      <4>2. Elapsed = WordSize - wall_start
        BY <2>2, <4>1, WordFacts DEF Elapsed
      <4>3. QED
        BY <2>2, <4>2
    <3>2. QED
      BY <2>4, <3>1 DEF TimesNested
  <2>5. QED
    BY <2>3, <2>4
<1>2. QED
  BY Invariance, <1>1, PTL
=============================================================================
