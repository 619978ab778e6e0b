------------------------------- MODULE L3Replay --------------------------------
(***************************************************************************)
(* The benchmark: the generated stream is parsed and applied to the books. *)
(* Books of two kinds are replayed side by side, those that accept any     *)
(* price (map, linked list) and those with a slot per tick (the arrays);   *)
(* each is the atomic contract of L3Book.                                  *)
(***************************************************************************)
EXTENDS L3Feed

CONSTANT MaxInvalid   \* where the count of discarded messages stops (bound)

ASSUME ReplayAssumption == MaxInvalid \in Nat \ {0} /\ Accepted = Price

\* The contract of the array books.
Tick == INSTANCE L3BookOps WITH Accepted <- TickPrice

VARIABLES
  books,    \* the book of each kind
  invalid,  \* BookResult::invalid
  crossed   \* BookResult::crossed of each book

replayVars == <<books, invalid, crossed>>
vars == <<feedVars, replayVars>>
-----------------------------------------------------------------------------
Kind == {"any", "tick"}

TypeOK ==
  /\ FeedTypeOK
  /\ books \in [Kind -> [Side -> [Price -> Seq(Order)]]]
  /\ invalid \in 0 .. MaxInvalid
  /\ crossed \in [Kind -> Nat]

Init ==
  /\ FeedInit
  /\ books = [kind \in Kind |-> EmptyBook]
  /\ invalid = 0
  /\ crossed = [kind \in Kind |-> 0]

\* The books after a message that parsed.
Applied(msg) == [any |-> Apply(books.any, msg), tick |-> Tick!Apply(books.tick, msg)]

\* bid && ask && bid->price >= ask->price
ReportsCrossed(bk) ==
  LET bid == Best(bk, "Bid")
      ask == Best(bk, "Ask")
  IN  bid # None /\ ask # None /\ bid.price >= ask.price

\* runBook(): the next message is counted and skipped, or parsed and applied, and
\* the best levels are looked at.
Replay ==
  /\ stream # <<>>
  /\ LET msg == ParseOne(Serialize(Head(stream)))
     IN  IF msg = None
         THEN invalid' = MinOf(invalid + 1, MaxInvalid) /\ UNCHANGED <<books, crossed>>
         ELSE /\ books' = Applied(msg)
              /\ crossed' = [kind \in Kind |-> IF ReportsCrossed(books'[kind])
                                             THEN crossed[kind] + 1 ELSE crossed[kind]]
              /\ UNCHANGED invalid
  /\ stream' = Tail(stream)
  /\ UNCHANGED <<min_spread_ticks, shadow, live, pending, next_order_id, drawing>>

Next ==
  \/ SendPending     /\ UNCHANGED replayVars
  \/ NewOrder        /\ UNCHANGED replayVars
  \/ StartDraw       /\ UNCHANGED replayVars
  \/ DropStale       /\ UNCHANGED replayVars
  \/ makeCancel      /\ UNCHANGED replayVars
  \/ makeModify      /\ UNCHANGED replayVars
  \/ GiveUp          /\ UNCHANGED replayVars
  \/ CrossNobody     /\ UNCHANGED replayVars
  \/ makeCrossingNew /\ UNCHANGED replayVars
  \/ Replay

Spec == Init /\ [][Next]_vars
-----------------------------------------------------------------------------
(* Properties. *)

\* Every kind of book is in the same state after every message, which is what
\* makes the program's checksums comparable (quote_book/README.md:66): parseOne
\* lets no order through that only some books would accept.
BooksAgree == books.any = books.tick

\* "crossed should be 0 for every book" (quote_book/README.md:64), whatever the
\* replayed books have missed: the crossing orders of the generator are matched,
\* and a book that lacks a discarded order is no more crossed than one that has it.
NoneCrossed == \A kind \in Kind : crossed[kind] = 0

\* The replayed book is where the shadow book was when it made the messages that
\* are still on their way.
OnTrack == FoldLeft(Apply, books.any, stream \o pending) = shadow

\* The replay follows the shadow book, unless parseOne discards a message whose
\* price is outside the tick range: messages reach the books in the order in
\* which the shadow book saw them, with every field it saw.
FollowsShadow ==
  /\ OnTrack
  /\ [][OnTrack /\ (\A i \in DOMAIN stream : Valid(stream[i])) => OnTrack']_vars

\* Every order resting in the shadow book can still be drawn for a cancel or a
\* modify: discarding stale ids never loses a live one.
LiveRemembered ==
  \A side \in Side, p \in Price : IdsAt(shadow, side, p) \subseteq ToSet(live)

\* While nothing has been discarded, a cancel or a modify names an order that
\* rests in the book it reaches (README.md:261, "valid cancels and modifies").
NamesRestingOrder ==
  /\ invalid = 0
  /\ stream # <<>>
  /\ Head(stream).op_code \in {"X", "M"}
  => Has(books.any, Head(stream).order_id)

\* "invalid should be 0 for every book" (quote_book/README.md:65).
NoneInvalid == invalid = 0

\* "T messages are emitted after crossing messages" (L3FeedGenerator.hpp:24): an
\* order or modify that trades when it is made leaves a trade message pending.
TradesReported ==
  [][LET msg == stream'[Len(stream')]
     IN  /\ shadow' # shadow
         /\ Len(stream') > Len(stream)
         /\ msg.op_code \in {"N", "M"}
         /\ NewTally(shadow, msg.side, msg.order_id, msg.price_tick, msg.quantity,
                     msg.op_code = "N").match_events > 0
         => \E i \in DOMAIN pending' : pending'[i].op_code = "T"]_vars
=============================================================================
