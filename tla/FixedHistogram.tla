----------------------------- MODULE FixedHistogram -----------------------------
(***************************************************************************)
(* FixedHistogram: counts of latencies in buckets with fixed upper bounds. *)
(* A histogram is a record of its buckets and its total; buckets are       *)
(* numbered from 1.  Numbers are unsigned words.                           *)
(***************************************************************************)
EXTENDS Integers, SequencesExt

CONSTANTS
  WordSize,   \* how many values a std::uint64_t has
  Bounds      \* bucket_upper_bounds_ns_

Word == 0 .. WordSize - 1

kInfinity == WordSize - 1

\* validateBucketBounds()
ValidBounds(bounds) ==
  /\ bounds # <<>>
  /\ \A i \in DOMAIN bounds : i > 1 => bounds[i - 1] < bounds[i]
  /\ bounds[Len(bounds)] = kInfinity

ASSUME HistogramAssumption ==
  /\ WordSize \in Nat \ {0}
  /\ Bounds \in Seq(Word)
  /\ ValidBounds(Bounds)

Bucket == 1 .. Len(Bounds)

Histogram == [buckets : [Bucket -> Nat], total_count : Nat]

\* Mutant of EmptyHistogram: no bucket for the last bound, the overflow bucket.
EmptyHistogramNoOverflow ==
  [buckets |-> [b \in 1 .. Len(Bounds) - 1 |-> 0], total_count |-> 0]

EmptyHistogram == [buckets |-> [b \in Bucket |-> 0], total_count |-> 0]

\* The latencies of a bucket, as its label gives them: above lower, up to upper;
\* the first bucket starts at 0.
LowerBound(b) == IF b = 1 THEN 0 ELSE Bounds[b - 1]
InBucket(latency, b) ==
  latency <= Bounds[b] /\ (b = 1 \/ LowerBound(b) < latency)

\* Mutant of BucketIndex: std::upper_bound, a latency at a bound counted above it.
BucketIndexAbove(latency) ==
  CHOOSE b \in Bucket : /\ latency < Bounds[b] \/ b = Len(Bounds)
                        /\ \A c \in 1 .. b - 1 : Bounds[c] <= latency

\* bucketIndex(): std::lower_bound, the first bound that is not less.
BucketIndex(latency) ==
  CHOOSE b \in Bucket : Bounds[b] >= latency /\ \A c \in 1 .. b - 1 : Bounds[c] < latency

\* record()
Recorded(h, latency) ==
  [buckets     |-> [h.buckets EXCEPT ![BucketIndex(latency)] = @ + 1],
   total_count |-> h.total_count + 1]

\* The rank that covers p percent of n latencies: p * n / 100, rounded up.
Rank(p, n) == (p * n + 99) \div 100

\* Mutant of Threshold: the product is truncated.
ThresholdTruncated(p, n) == (p * n) \div 100

\* (p / 100.0) * n + 0.999999, truncated, in millionths.
Threshold(p, n) == (10000 * p * n + 999999) \div 1000000

\* Latencies in buckets 1 .. b.
Running(h, b) == MapThenSumSet(LAMBDA c : h.buckets[c], 1 .. b)

\* percentileBucketIndex()
PercentileBucketIndex(h, p) ==
  LET t       == Threshold(p, h.total_count)
      reached == {b \in Bucket : Running(h, b) >= t}
  IN  IF h.total_count = 0 THEN 1
      ELSE IF reached = {} THEN Len(Bounds)
      ELSE CHOOSE b \in reached : \A c \in reached : b <= c

\* The bounds made by makeFixedWidthBounds(), whose loop adds in words.
FixedWidthBounds(width, max) ==
  LET From[bound \in Word] ==
        IF bound > max THEN <<>>
        ELSE IF max - bound < width THEN <<bound>>
        ELSE <<bound>> \o From[(bound + width) % WordSize]
  IN  Append(From[width], kInfinity)
=============================================================================
