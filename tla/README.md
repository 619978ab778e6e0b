# Verification of the L3 quote book

TLA+ models of the order books under `quote_book/`, of the feed generator that
drives them, of the wire format between the two and of the benchmark with its
histograms, the TLC runs that check them on small instances, and TLAPS proofs
about the contract of the books, the five books, the Fenwick tree, the benchmark
and the replay that hold for every instance. The reference is the code; where this text says "the code"
it means `quote_book/include/L3OrderBook.hpp` unless another file is named.

## The system

The program generates a deterministic stream of 64-byte order messages, then
replays the same stream through five order books and compares their speed and a
checksum of their best levels. Everything runs on one thread, nothing is
persisted, no message is lost on the way: what is hard is not concurrency but
the agreement of several data structures that describe one set of orders,
through long sequences of legal calls.

| component | state it keeps | operations | what makes it correct |
|---|---|---|---|
| `L3MapOrderBook` | two `std::map` of FIFO levels, `order_refs_` (id to side, price, list iterator), cached best bid and ask | `apply` of N, X, M, T; `bestBid`, `bestAsk`, `crossed`, `hasOrder`, `getOrder`, `stats` | price-time priority; the id index and the queues agree; the cache equals the best level, quantity included; never crossed |
| `L3LinkedListOrderBook` | two sorted `std::list` of levels, best-node iterators, `order_refs_` with level iterators | the same | the lists stay sorted and hold exactly the non-empty levels; no stored iterator dangles |
| `L3ArrayScanOrderBook` | two arrays indexed by price tick, best indices, `order_refs_` | the same | best indices exact; prices without a slot refused |
| `L3ArrayFenwickBook` | the same and two Fenwick trees of active levels | the same | each active level counted once; recovery finds the best |
| `L3ArrayBitsetBook` | the same and two vectors of 64-bit words | the same | each active level's bit set and no other |
| `FenwickTree` | partial sums | `add`, `sumAll`, `findByOrder` | sums exact after any sequence of updates; search by rank exact |
| feed generator (`L3FeedGenerator.hpp`) | a shadow map book, ids believed live, pending messages | `next` | messages in the order the shadow book saw them; prices in range |
| wire format (`L3MarketDataMessage.hpp`) | none | `serialize`, `parseOne` | what is generated parses to itself |
| benchmark (`l3_quote_book_benchmark.cpp`) | counters, sums, histograms, the wall clock interval | `runBook` | exactly the messages after the warm-up are counted, each once; the times it reports are consistent with each other |
| histogram (`FixedHistogram.hpp`) | buckets | `record`, `percentileBucketIndex` | each value in its bucket; the percentile's bucket holds the value of that rank |

The generator applies every message to its shadow book before it hands it out;
the harness stores all messages and replays them into each book through
`parseOne`, asking for the best levels after each.

The hard behaviours, each with its line, are the "hazards" of `PROJECT.json`: a
cache that lags behind partial fills, a replace or modify that empties the level
about to be traded with, an iterator that outlives its node, an index marked
twice, a modify whose second half is refused, loops that must end.

## Modules

| module | models |
|---|---|
| `L3Types` | sides, prices, quantities, orders, levels, the comparison of prices, the counters that all books must agree on |
| `L3BookOps` | what one message does to a price-time priority book, without loops: how much an order trades follows from how much quantity is *ahead* of it |
| `L3Book` | the contract: every message takes effect in one atomic step, then the call returns |
| `L3BookBase` | what the five classes share: queues, `total_qty`, `order_refs_`, and `apply` as a control state (`pc`, `call`), one loop iteration a step |
| `L3MapBook` | `L3MapOrderBook` |
| `L3LinkedListBook` | `L3LinkedListOrderBook` |
| `L3ArrayBook` | the code the three array classes repeat, with the index of active levels as a parameter |
| `L3ArrayScanBook`, `L3ArrayFenwickBook`, `L3ArrayBitsetBook` | that parameter: nothing, a Fenwick tree, a vector of words |
| `FenwickTree`, `FenwickCounts` | `l3detail::FenwickTree` as functions, and a machine that drives it through all its states |
| `L3BookRefines` | the refinement mapping from any class to `L3Book` |
| `L3Wire` | the field layout of a message and the checks of `parseOne` |
| `L3Feed` | `L3FeedGenerator`: shadow book, remembered ids, pending messages, the draws |
| `L3Replay` | generator and benchmark composed: `generateStream`, and what the loop of `runBook` does to the books |
| `FixedHistogram` | bounds, `record`, `percentileBucketIndex` and the fixed-width constructor as functions |
| `RunBook` | what the loop of `runBook` measures: warm-up, clock, histograms, sums, interval |
| `MC...` | instances for TLC |
| `NatFacts` | lemmas on naturals, on words that wrap, on recursive functions, on sums over finite sets, and on `FenwickTree` |
| `L3BookOpsProofs` | lemmas about the operators of `L3BookOps`: queues and what is kept of them, priority, what rests on a set of levels, what a match trades |
| `L3BookBaseProofs` | what the five classes share: `BaseInv`, and what each step does to it and to `L3Book` |
| `L3MapBookProofs`, `L3LinkedListBookProofs`, `L3ArrayBookProofs` | the proofs about each class; the last also that the three indices keep their contract, and the properties of `FenwickCounts` |
| `RunBookProofs` | what the histogram computes, and what `runBook` measures and reports |
| `L3ReplayProofs` | the properties of the contract, the round trip of a message, and the properties of the generator and the replay |

How the state corresponds to the code:

- `orders[side][price]` is `PriceLevel::orders`, oldest first; `total` is
  `total_qty`, kept apart so that the model can get it wrong.
- `refs[id]` is the entry of `order_refs_`. Its `order_it` is the node of the
  named level that holds the id (`NodeOf`); `RefsSound` says that the node
  exists, so that dereferencing or erasing it is defined.
- In the linked list an iterator to a level is the price of its node. That is
  faithful because no list has two nodes of a price (checked in `TypeOK`);
  `IteratorsValid` says the node is still there.
- `pc` and `call` are the position and the locals of the `apply` in progress:
  `applyNew` entered, the `while` test of `matchIncoming`, the `while` test of
  `consumeLevel`. One action is one branch or one iteration, with every call it
  makes: `LeaveLevel` includes the erasure of the level and the recovery of the
  best, `Rest` the update of the cache.
- `New`, `Cancel`, `Modify`, `Trade` and `UnknownOrder` are the cases of
  `apply`. `Cancel` also stands for a modify with no positive quantity, and
  `Modify` for the erasure that precedes its call of `applyNew`.
- `tally` is what the last call added to the counters of `L3BookStats` on which
  the classes must agree. The counters are only ever written, so an increment
  per call says as much as a total, and keeps the state space finite.
  The message counters (one increment at the top of `apply`) and
  `price_level_work_units` (different in each class by design) are left out.

Messages are enumerated as `apply` may receive them, not as the feed generator
happens to make them: any side, id, price and quantity; quantity 0 stands for
every quantity that is not positive, `ZeroId` for order id 0, and `PriceMargin`
adds prices outside the tick range. Ids may be reused.

### The contract and its refinement

`L3Book` handles a message in one step; a class needs many. A step of the class
that starts a call is mapped to the step of the contract, so the mapping in
`L3BookRefines` completes the call in progress: `FinalBook` is the book as it
will be when the call returns, computed by the contract's declarative operators
from the queues, the parameters and the quantity that remains. Every later step
of the loops must then be a stutter: each iteration must leave the predicted
result unchanged, which is what makes the check sharp. The return of the call is
the contract's `Return`. `FinalTally` does the same for the counters.

The classes differ in one promise: which prices they accept. The map and the
list accept any `int32`, the arrays those with a slot. That is the constant
`Accepted` of the contract, and each MC module asserts which one is meant.

Because all five classes implement one deterministic contract, on the prices
that every class accepts they give equal best levels after every message, which
is what the program's checksum compares.

### The generator and the replay

`L3Feed` uses the contract's operators for its shadow book (`Apply`), so the book
classes are not modelled a second time. One action is one branch of `next()`;
the attempts of `randomLiveOrderId` are steps of their own (`StartDraw`,
`DropStale`, then `makeCancel`, `makeModify` or `GiveUp`), because each of them
changes `live_order_ids_`. `makeCrossingNew` with nobody opposite is `CrossNobody`:
it calls `makeNew`, which rolls the side again, so the new order may be on either
side. A random number is any value of its distribution.
The branches behind `getOrder` returning nothing are left out: `hasOrder` has
just said that the order is there. `seedMessages` and the first books are built
in `FeedInit`, as the constructor does.

`stream` holds what `next()` has returned and the books have not read. The
program generates the whole stream before it replays any of it; the model
replays each message once it is there, which leads to the same books because
nothing flows back to the generator. Each message passes through `Serialize` and
`ParseOne`, which write and read the fields at their offsets.

Two books are replayed side by side, `any` for the map and the list and `tick`
for the arrays: the contract with its two values of `Accepted`, which the runs
of the five classes show to be what they implement.

`Valid` has the checks of `parseOne` on the fields it reads. Those of the buffer's
size and of an empty symbol are left out: `runBook` passes the size of a message,
and every message of the feed has the symbol `FOO`.

`invalid` and `crossed` count from the first message, the program from the first
measured one: a run in which they stay 0 shows it for every length of the
warm-up. Two spreads are replayed. With the wider one the tick range has no room
for the seeded level (`L3FeedGenerator.hpp:117` seeds one all the same), so the
books start without orders that the shadow book has, and what the generator
makes from then on is meant for another book: the books must still agree and
never be crossed. The generator's prices are kept within `Price` and its order ids within
`OrderId`; `MaxLive`, `MaxStream` and `MaxInvalid` bound the rest.

### The measurements

`RunBook` is the same loop seen from its other side: the book and the stream are
left open (a message parses or does not, each part of the work takes some time)
and what is kept is the position `i`, the clock, the four histograms and sums,
`invalid` and the interval. A message is one action: `Warm` during the warm-up,
`Skip` when `parseOne` refuses it, `Measure` otherwise, with all five readings
of the clock. `clock` is the last reading of `nowNs()`, a steady clock: it never
goes back. It starts at 1 and stays within a word, as `steady_clock` does for
centuries; only 0, which the code takes for "not yet read", matters as a value.
Words have `WordSize` values and sums and differences wrap as the code's do, so
`Elapsed` is what the program divides by, also when nothing has parsed: then it
wraps, which `TimesNested` records and no property forbids, as nothing in the
repository says what should be printed.

`samples` is a history variable: it counts every latency that was recorded,
which the histogram does not keep, and is read by the properties alone.

The percentile threshold is a `double` product in the code,
`(p / 100.0) * n + 0.999999`, truncated. `Threshold` is that formula over exact
numbers, in millionths. Floating point could differ from it only by crossing an
integer. When `p * n / 100` is whole the exact value is 0.000001 below the next
integer, otherwise it is 0.009999 or more away from any. A product of a `double`
next to `p / 100` with a total of up to 10^9 is off by less than 0.000001, so for
such totals, a thousand times the default, the result is the exact one. Beyond
them the printed rank can be one too high.

## Runs

| run | bounds | distinct states | what it shows |
|---|---|---|---|
| `book` | 3 ids, prices 1..3 and one outside on each side, quantities up to 3 | 109,398 | `RestsOnce`, `Uncrossed`, `PriorityRespected`, `QuantityConserved`, `PlacesKept`: the contract deserves its name |
| `map_book` | 3 ids, 3 prices, quantities up to 2 | 29,101 | `RefsSound`, `LevelsExact`, `CacheExact`, `Uncrossed` at every iteration, and `Implements` |
| `map_book_live` | 2 ids, 2 prices, quantities up to 2, no symmetry | 3,903 | `Termination` |
| `linked_list_book` | as `map_book` | 29,077 | `ListExact`, `IteratorsValid`, `BestIsFirst`, `StepsRunOut`, `Implements` |
| `array_scan_book` | as `map_book`, and one price beyond each end of the array | 43,797 | `BestExact`, no access outside the array (`TypeOK`), `Implements` |
| `array_fenwick_book` | 3 ids, 6 prices, quantity 1 | 32,896 | `IndexExact`, `RecoverExact`, `Implements` |
| `array_bitset_book` | the same, words of 4 bits | 32,896 | the same for the words |
| `replay` | 4 order ids, 5 ticks and one price beyond each end, quantities up to 2, at most 3 remembered ids, a spread of 2 or 4 | 97,100 | `BooksAgree`, `NoneCrossed`, `FollowsShadow`, `LiveRemembered`, `NamesRestingOrder` |
| `run_book` | words of 6 bits, counts of 1, 2, 4 and 63 messages, four buckets, at most one tick between two readings | 74,474 | `AllAccounted`, `PercentileHolds`, `TimesNested` |
| `replay_invalid` | the same as `replay`, spread 2 | violation | `NoneInvalid`: see Findings |
| `replay_trades` | the same | violation | `TradesReported`: see Findings |
| `fenwick_tree` | 11 indices | 2,048 | `TreeExact`, `FindsEachByOrder` for every set of indices |

Why the bounds are enough. Three orders make a front, a middle and a back of one
queue, or two levels and an incoming order that sweeps one and stops in the
other. Three prices make a best level, the next best and a worse one, on either
side of any spread. Quantity 2 allows a fill in part of either party; the
contract run has 3, so that an order can be filled in part twice. Six slots make
a tree whose size is no power of two and, with words of four bits, a last word
used in part; partial fills do not touch those indices, so quantity 1 suffices
there, and they are exercised by the scan run of the same module. Ids are only
compared for equality, so the safety runs treat them as symmetric; the liveness
run does not.

The replay starts with one seeded order on each side and has ids for two more,
enough for an order that sweeps a level, rests beyond the touch and is traded
with later. Three remembered ids make a stale, a repeated and a live entry at
once; two attempts let the first drop an entry and the second fail. The floor
of 100 live ids is 2, so that cancels and modifies happen.

The run of the benchmark has counts for which the messages wrap (63 and 1 make
none at all, 63 and 2 make one) and for which they do not; four measured messages
give each percentile a rank of its own, fill two buckets unevenly and leave one
empty. The buckets `0, 1, 3` tell a latency at a bound from the next one. A gap
of one tick between readings makes every latency from 0 to 4. With words of six
bits nothing wraps but what the code can wrap: at most 20 ticks pass.

Only the replay runs and `run_book` disable the deadlock check: the stream is
finite and the bounds end it. In the others a trade message can always arrive.

Every property has a mutant in `PROJECT.json`: a plausible slip in the code
(taking the wrong end of a queue, forgetting a refresh, `<=` for `<`) under
which the property fails in its own run.

### Findings

- `replay_invalid`. `quote_book/README.md:65` says "`invalid` should be `0` for
  every book." `makeCrossingNew` prices through the best level without a bound
  (`L3FeedGenerator.hpp:205`), so at the end of the tick range the price leaves
  it, and `parseOne` discards what the shadow book has accepted. From then on
  the replayed books and the shadow book differ, while the books agree with each
  other (`BooksAgree`), so the checksums do not show it. The program prints a
  non-zero count with `--levels-per-side 1 --min-spread-ticks 99996`. With the
  default options the best prices stay far from the ends, and the count is 0.
- `replay_trades`. The comment at `L3FeedGenerator.hpp:24` says that T messages
  are emitted after crossing messages, and the line above it that N and M can
  cross. Only `makeCrossingNew` emits one. A crossing order that is filled in
  part rests beyond the touch, and a later modify or ordinary new order can trade
  with it unreported. With the default options the program's message mix has
  98,051 trades for 98,058 crossing new orders and 4,546 crossing modifies. The
  books ignore T messages, so no book is affected.

### Fairness

`WF_vars(Step)`, where `Step` is the continuation of a call in progress. The
code is single-threaded and blocks on nothing inside `apply`, so a call that has
begun runs on. There is no fairness on messages: a caller need not send any.
`Termination` is therefore about the loops alone: it would fail if an iteration
could leave both the remaining quantity and the set of levels as they were.
`StepsRunOut` says the same of the linked list without fairness, as a measure
(`CallVariant`) that every step of a call decreases; it bounds the number of
steps a call can take, which `Termination` does not.

## Proofs

All theorems hold for every set of order ids, every price range and margin and
every quantity bound (and, where they occur, every word size, bounds of buckets,
counts and gap) that meet the named assumptions of `L3Types`, `FixedHistogram`,
`L3Feed` and `RunBook`; `None` is assumed to be no level, no reference, no price,
no message, no call and no request. Of the assumptions of `L3Feed`, two are about bounds of
the model and not about the program: every seeded order has an id (ids are 64 bits
in the code), and `Price` reaches at least one tick beyond the range, where
`seedInitialBook` puts an order when the spread leaves no room.

### The contract

`L3ReplayProofs` proves all six properties of `L3Book`. The invariant `BookInv` is
the conjunction of the three state properties: `BookTypeOK`, `RestsOnce` and
`Uncrossed` hold only together, because what a new order leaves behind is
uncrossed only if it has traded with everything it crosses, and rests once only
if its own id was erased first. The action properties follow from `BookInv` and
the operators alone.

`L3BookOps` has no loops. How much of an order is traded, `FillOf`, depends on
how much quantity is *ahead* of it, and what is left of a queue are the places in
a set, in their order (`Kept`, which is `SelectSeq` without its recursion). So the
proofs in `L3BookOpsProofs` are about sums over sets of levels and of places:

- `KeptSurvives`: `Kept` leaves a strictly increasing map `m` from the new places
  to the old. A queue is described by what survives, `Survivors(r, q, fill, m)`,
  and from this come all facts about ids, order and quantity;
- `AheadOrder`: if one order has priority over another then what is ahead of the
  second includes the first as a whole. `BookPriority` is this and arithmetic: an
  order that loses quantity has less ahead of it than the match trades, so all of
  what is ahead is traded;
- `ErasedKeeps`, `KeepsAlong`, `KeepsAppended`: an erasure, a match and a resting
  order each keep the order of the others; `BookPlaces` composes them, and with
  `ErasedRemain` says that a cancel or a refused order takes out no other order;
- `LevelFillIs`, `SweepFill`, `SweptIsFilled`: what a match takes from one level is
  what is wanted after the better levels or all there is, and these amounts add up
  over the levels to what the match trades, which is by definition the lesser of
  the order's quantity and the quantity it crosses. `SweepFill` goes by the least
  counterexample over sets of levels closed toward the better ones.
  `BookQuantity` follows, since a resting order adds its quantity (`RestedAdds`).

### What the five books share

The classes differ in how they find a level and agree on everything else, and so
do their proofs. `BaseInv`, in `L3BookBaseProofs`, is the conjunction of

- `BaseTypeOK`;
- `QueuesSound`: references and queues agree. It is `RefsSound` in the form the
  steps preserve;
- `TotalsExact`: `total_qty` is the sum of the queue;
- `StandingUncrossed`: no two *standing* levels cross. A level stands if it has
  orders or is being consumed, which is when every class keeps it although it
  may be empty. Preserving it when an order rests needs the exit condition of the
  loop of `matchIncoming`;
- `CallSound`: while matching, the incoming id has no order in the book, without
  which resting it could give an id a second order; the level being consumed is
  the best that stands opposite, so that leaving it recovers the right one; and
  no crossing has been counted before `wouldCross` is asked.

One lemma for each thing a class does to the queues (`BeginNewKeeps`,
`EraseKeeps`, `FillFrontKeeps`, `LeaveKeeps`, `RestKeeps` and so on) shows that
`BaseInv` is kept and says which levels stand afterwards. What is left to a class
is that its index is, before and after, a function of the standing levels. The
lemmas below them are about queues (unlinking, filling and appending keep the ids
distinct, lose only the order meant, and change `QueueQty` by its quantity) and
about the best of a set of prices.

| module | invariant beyond `BaseInv` | theorems about `Spec` |
|---|---|---|
| `L3MapBookProofs` | the maps hold the standing levels; the cache is the best of them, its quantity left open while the level is consumed | `TypeOK`, `RefsSound`, `Uncrossed`, `LevelsExact`, `CacheExact`, `Implements` |
| `L3LinkedListBookProofs` | the lists are sorted, hold the standing levels, and the best iterator is the first node | `TypeOK`, `ListExact`, `IteratorsValid`, `BestIsFirst`, `StepsRunOut`, `RefsSound`, `Uncrossed`, `Implements` |
| `L3ArrayBookProofs` | levels stand at ticks only, the index is that of the standing levels, `best_index` is the best of them | `TypeOK`, `BestExact`, `IndexExact`, `RecoverExact`, `RefsSound`, `Uncrossed`, `Implements` |

`StepsRunOut` is a theorem about steps: each step of a call ends it or lowers
`CallVariant`, so the loops are bounded for every book.

The array theorems have one hypothesis, `IndexSound`: the index that the class
passes for `EmptyIndex`, `Marked`, `IndexedBest` and `IndexOf` keeps
`IndexContract`. It says that marking a level takes the index of a set of levels
to that of the set with or without it, and that recovery finds the best of the
set. `ScanKeepsContract`, `BitsetKeepsContract` and `TreeKeepsContract` prove
it of the three indices, for any number of slots and any width of a word. The scan
keeps no index; `ScanFinds` is about its loop: with no active slot it ends at -1,
and otherwise no slot that it looks at before the best one is active. No
class is left with a hypothesis: `ClassesAreExact` states the invariants, and
`ClassesImplementContract` the refinement below, of a book built with the
operators of one of the three classes (`OneOfTheClasses`).

### The refinement

`ImplementsContract` proves `Implements` of the map book and the list book when
`Accepted = Price`, and of the array books, for any index that is `IndexSound`,
when `Accepted = TickPrice`. Those are the equations that the MC modules assert.
With the theorems about `L3Book`, the price-time priority, the conservation of
quantity and the kept places of the contract are thereby those of the classes'
queues, as they will be when the call in progress returns.

The invariant is that of the class and `CallExact`: `applyNew` has not traded
before it matches, and `consumeLevel` is only called on a level within the limit.
`L3BookBaseProofs` has one lemma for each kind of step: a call is `New`, `Cancel`,
`Modify` or `Ignore` of the contract (`NewRefines` and so on), its end is `Return`
(`RefuseRefines`, `DoneRefines`, `RestRefines`), and each step in between is
`ContractKept`, nothing to the contract (`ReplaceRefines`, `StartMatchRefines`,
`MatchLevelRefines`, `FillRefines`, `LeaveLevelRefines`). A class owes to each of
them one fact about its index: that erasing or leaving a level counts an
invalidation exactly if the level was the best, that its test for crossing is the
contract's, and that it turns to the best level opposite.

`FillRefines` is the core. The loop fills the order at the front of the best level;
the contract predicts the book from how much quantity is ahead of each order.
`Fills(bk, nb, s, at, rem, t)` says that `nb` is `bk` after such a fill of `t`, and
the lemmas compare the two predictions order by order:

- `FillsLiquidity`: `t` less is ahead of every order behind the filled one, and `t`
  less remains to be traded, so `FillsElsewhere` and `FillsAt` find the same fill
  for each order that is left;
- `SurvivorsTail` and `SurvivorsFront`: what survives the rest of the match is then
  the same, whether the front order was taken whole or in part, and
  `SurvivorsUnique` makes the queues equal. `FillsAfterMatch` is the conclusion;
- `FillsHits` and `FillsSwept`: what remains counts one fill less and, if the fill
  emptied the level, one swept level less. `FillsTally` adds up the counters, with
  the emptied level counted by `FinalTally` until `LeaveLevel` counts it.

`ReplaceRefines` needs that erasing an id twice is erasing it once, and `EraseAdds`
that the contract's `EraseTally` counts an invalidation when the class does. The
contract is an instance of `L3Book`, whose operators are `L3BookOps` once more;
`ContractOperators` and `ContractApplies` say that they are the same.

### The Fenwick tree

`TreeOf(n, A)` gives each node the number of members of `A` in its range.
`NatFacts` proves that `add` takes the tree of `A` to that of `A` with one more
or one fewer member, and that `findByOrder` finds the member of each rank.
`TreeIsExact` and `FindsByOrder`, in `L3ArrayBookProofs`, follow from these, and so
does `TreeKeepsContract` for the book.

The loops of the tree are recursive functions over the naturals. That such a
function satisfies its equation is `RecursionExists`: recursion along a map that
lowers a rank defines a function. It is proved from the well-ordering of the
naturals, as are all inductions here, by taking the least counterexample
(`SmallestNat`). The loops themselves go by the lowest bit of an index:
`LowBit[2 * k] = 2 * LowBit[k]` and `LowBit[2 * k + 1] = 1`, so a claim about an
index follows from the same claim about its half.

### The benchmark and the histogram

`RunBookProofs` proves all four properties of `run_book`.

- `EachInItsBucket`: `bucketIndex` gives the one bucket whose label covers the
  latency; `ThresholdIsRank`: `Threshold(p, n) = Rank(p, n)`, the product rounded
  up, for every `p` and `n`.
- `EveryMessageAccounted`, `PercentilesHold`, `TimesAreNested` and `TypeCorrect`
  from the invariant `TypeOK` with
  - `CountSound`: the position is within the stream, and a histogram and
    `invalid` together count the messages since the warm-up. Without it `TypeOK`
    is not inductive: `i` and `invalid` stay in their words only because the loop
    ends;
  - `TimeSound`: nothing is counted before `wall_start` is set, and the sums lie
    within `wall_end - wall_start`. Because the sum of the totals is bounded by
    the interval, none of the four sums wraps;
  - `SumsSound`: the buckets up to each one add up to the number of samples
    within its bound.

Preserving `SumsSound` is `EachInItsBucket`: a latency counts toward a bucket and
all later ones exactly if it is within the bucket's bound. `PercentilesHold` adds
that the scan of `percentileBucketIndex` stops at the first bucket where the
running sum reaches the threshold, so the sum before it is below the rank. Sums over finite sets
(`SumFacts`) come out of the library's definition through `RecursionExists`.

### The replay

`BooksStayEqual` proves `BooksAgree` for every spread, every bound and every
choice of the generator: the two kinds of book differ only in `Accepted`, and a
message that `parseOne` accepts has a tick price, which both accept. It needs
nothing of what the generator does: the equality would survive any stream.
The proof compares two instances of `L3BookOps` operator by operator. It requires
the cases of `Apply` to exclude each other: a `CASE` with overlapping guards may
choose differently in the two instances.

`RoundTrip` is about the format alone: the fields of `Layout` do not overlap, so
`parseOne` reads each value that `serialize` wrote.

The other properties of `L3Replay` come from `ReplayInv`, whose parts need each
other:

- `FeedInv`: typing; the shadow book is a `GoodBook` (typed, uncrossed, no id
  twice) and every id in it is remembered; and nothing is pending while an id is
  drawn. Without the last, `makeCancel` and `makeModify` would make messages that
  overtake pending ones;
- the replayed books are equal and good, so `crossed` is 0. That a message keeps a
  book good is `ApplyGood`, which rests on the lemmas of the contract. It holds of
  any message, so discarding some does no harm: `NeverCrossed` has no hypothesis;
- until a message is discarded, `OnTrack` and `Named`: the messages on their way
  take the replayed book to the shadow book, and each cancel and modify among them
  names an order of the book it will reach. `Named` is the strengthening that
  `NamesRestingOrder` needs: that property is about the head of the stream, but
  what makes it true was known when the message was made.

`OnTrack` folds `Apply` over a sequence. `Leads(g, bk, s)` says that `g` is the books
on the way; `FoldLeads` shows that there is such a `g` and that the fold is its last
book, `LeadsOnce` that it is unique, and `FoldAppend`, `FoldHead`, `NamedAppend` and
`NamedTail` are what a generated, a sent and a replayed message do to it. The
seeded books are the same fold with the ids remembered along the way
(`FoldRemembered`).

### Only model-checked

- `Termination`: liveness. `StepsRunOut`, which is proved for the list, is its
  finite counterpart; the loops of the five classes are the same.

## Not modelled

- `FixedHistogram::clear` and `addBucketCount`, which nothing calls; the labels,
  which are formatting (`InBucket` is what they say); the second list of bounds,
  which is not used either. The program never constructs fixed-width bounds; that
  they pass their own validation, short of a largest latency of `kInfinity`
  itself, is an assumption of `MCRunBook` that TLC evaluates over all six-bit
  words.
- The checksum: a function of the best levels after each message, so equal books
  (`BooksAgree`) have equal checksums. Whether unequal ones differ is a question
  about the mixing, not about the program's state.
- A spread that leaves one side no price at all: `uniform_int_distribution` is
  then undefined, and `FeedAssumption` excludes it, which `parseArgs` does not.
- `int32` overflow of `total_qty`, and of `2 * levels_per_side` above 2^30: both
  are undefined in C++, so there is no outcome to check. Listed as hazards.
- `getOrder`, `stats`, `name` and the other read-only members: their results are
  functions of state that the invariants constrain.
- Memory behaviour of the containers. The model has the validity of the stored
  iterators, not addresses.
- Command line parsing, printing, the build files. The clock is a reading that
  never goes back (`RunBook`).

## Plan

Done: the models, the runs, and the proofs about the contract, the five books and
their refinement of the contract, the tree, the benchmark, the wire format, the
generator and the replay. Every safety property of a passing run is stated by a
theorem. What is left is `Termination`, which is liveness and stays with TLC.
