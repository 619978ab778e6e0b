-------------------------------- MODULE RunBook --------------------------------
(***************************************************************************)
(* runBook(): the replay of the stream through one book, its warm-up, what *)
(* it measures of each later message and what it reports at the end.  The  *)
(* stream and the book are left open: a message parses or does not, and    *)
(* each part of the work takes some time on a steady clock.                *)
(***************************************************************************)
EXTENDS FixedHistogram

CONSTANTS
  Counts,   \* values of --messages and --warmup-messages
  MaxGap    \* longest time between two readings of the clock (bound)

ASSUME RunAssumption ==
  /\ Counts \subseteq Word \ {0}   \* parseArgs refuses 0
  /\ MaxGap \in Nat

VARIABLES
  messages,     \* cfg.messages
  warmup,       \* cfg.warmup_messages
  i,            \* messages of the stream read so far
  clock,        \* the last reading of the steady clock
  wall_start,   \* wall_start_ns, 0 until the first measured message
  wall_end,     \* wall_end_ns
  hist,         \* parse_hist, update_hist, best_hist, total_hist
  sum,          \* parse_sum_ns, update_sum_ns, best_sum_ns, total_sum_ns
  invalid,      \* BookResult::invalid
  samples       \* history: how often each latency of each part was measured

vars == <<messages, warmup, i, clock, wall_start, wall_end, hist, sum, invalid, samples>>
-----------------------------------------------------------------------------
Part == {"parse", "update", "best", "total"}

Latency == 0 .. 4 * MaxGap

TypeOK ==
  /\ messages \in Counts /\ warmup \in Counts
  /\ i \in Word /\ clock \in Word \ {0} /\ wall_start \in Word /\ wall_end \in Word
  /\ hist \in [Part -> Histogram]
  /\ sum \in [Part -> Word]
  /\ invalid \in Word
  /\ samples \in [Part -> [Latency -> Nat]]

\* Sums and differences of words wrap.
Plus(a, b) == (a + b) % WordSize
Minus(a, b) == (a - b) % WordSize

total_messages == Plus(messages, warmup)

Done == i = total_messages

\* Mutant of Measured: one message too many is warm-up.
MeasuredLate(k) == k > warmup

Measured(k) == k >= warmup

\* What total_ms and messages_per_second are computed from.
Elapsed == Minus(wall_end, wall_start)

Init ==
  /\ messages \in Counts /\ warmup \in Counts
  /\ i = 0
  /\ clock = 1   \* only differences matter, but 0 is taken for "not yet read"
  /\ wall_start = 0 /\ wall_end = 0
  /\ hist = [part \in Part |-> EmptyHistogram]
  /\ sum = [part \in Part |-> 0]
  /\ invalid = 0
  /\ samples = [part \in Part |-> [l \in Latency |-> 0]]

NextMessage == i # total_messages /\ i' = i + 1

StartWall == wall_start' = IF wall_start = 0 THEN clock ELSE wall_start

\* A message of the warm-up: nothing is measured, whether or not it parses.
Warm ==
  /\ NextMessage /\ ~Measured(i)
  /\ UNCHANGED <<messages, warmup, clock, wall_start, wall_end, hist, sum, invalid, samples>>

\* A measured message that parseOne() refuses is counted and left.
Skip ==
  /\ NextMessage /\ Measured(i)
  /\ StartWall
  /\ \E gap \in 0 .. 2 * MaxGap : clock + gap \in Word /\ clock' = clock + gap
  /\ invalid' = invalid + 1
  /\ UNCHANGED <<messages, warmup, wall_end, hist, sum, samples>>

\* Mutant of Latencies: the update is timed from the start of parsing.
LatenciesOverlapping(parse_start, parse_done, update_start, update_done, best_done) ==
  [part \in Part |->
     CASE part = "parse"  -> Minus(parse_done, parse_start)
       [] part = "update" -> Minus(update_done, parse_start)
       [] part = "best"   -> Minus(best_done, update_done)
       [] part = "total"  -> Minus(best_done, parse_start)]

\* The latencies of one message, from the readings around its parts.
Latencies(parse_start, parse_done, update_start, update_done, best_done) ==
  [part \in Part |->
     CASE part = "parse"  -> Minus(parse_done, parse_start)
       [] part = "update" -> Minus(update_done, update_start)
       [] part = "best"   -> Minus(best_done, update_done)
       [] part = "total"  -> Minus(best_done, parse_start)]

Record(latency) ==
  /\ hist' = [part \in Part |-> Recorded(hist[part], latency[part])]
  /\ sum' = [part \in Part |-> Plus(sum[part], latency[part])]
  /\ samples' = [part \in Part |-> [samples[part] EXCEPT ![latency[part]] = @ + 1]]

\* A measured message that parses is parsed, applied and followed by a look at
\* the best levels, with the clock read around each part.
Measure ==
  /\ NextMessage /\ Measured(i)
  /\ StartWall
  /\ \E parse_start \in clock .. clock + MaxGap :
     \E parse_done \in parse_start .. parse_start + MaxGap :
     \E update_start \in parse_done .. parse_done + MaxGap :
     \E update_done \in update_start .. update_start + MaxGap :
     \E best_done \in update_done .. update_done + MaxGap :
       /\ best_done \in Word
       /\ Record(Latencies(parse_start, parse_done, update_start, update_done, best_done))
       /\ clock' = best_done
       /\ wall_end' = best_done
  /\ UNCHANGED <<messages, warmup, invalid>>

Next == Warm \/ Skip \/ Measure

Spec == Init /\ [][Next]_vars
-----------------------------------------------------------------------------
(* Properties. *)

\* The measured messages are all in the four histograms or counted as invalid,
\* and they are cfg.messages in number, unless the number of messages has wrapped.
AllMeasured ==
  Done /\ messages + warmup < WordSize
    => \A part \in Part : hist[part].total_count + invalid = messages

\* The counts that the tables print belong to those same messages, and no bucket
\* has lost one.
AllAccounted ==
  /\ AllMeasured
  /\ \A part \in Part : Running(hist[part], Len(Bounds)) = hist[part].total_count

AtMost(part, latency) ==
  MapThenSumSet(LAMBDA l : samples[part][l], {l \in Latency : l <= latency})

\* The bucket that is printed as a percentile holds the latency of that rank
\* among all the latencies measured, which the histogram has not kept.
PercentileHolds ==
  \A part \in Part, p \in {50, 90, 99} :
    LET n    == hist[part].total_count
        b    == PercentileBucketIndex(hist[part], p)
        rank == CHOOSE k \in 1 .. n : 100 * k >= p * n /\ 100 * (k - 1) < p * n
    IN  n > 0 => /\ rank <= AtMost(part, Bounds[b])
                 /\ b > 1 => AtMost(part, LowerBound(b)) < rank

\* The times reported nest: the parts of the messages lie within their totals,
\* and those within the interval that the throughput is computed from.  When no
\* measured message has parsed, wall_end_ns is still 0 and that interval wraps to
\* more than the clock has ever run.
TimesNested ==
  IF hist["total"].total_count > 0
  THEN /\ sum["parse"] + sum["update"] + sum["best"] <= sum["total"]
       /\ sum["total"] <= Elapsed
       /\ Elapsed <= clock - wall_start
  ELSE invalid > 0 => Elapsed > clock - wall_start
=============================================================================
