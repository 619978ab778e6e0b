----------------------------- MODULE L3BookRefines -----------------------------
(***************************************************************************)
(* The refinement mapping from an order book class to L3Book.  The contract*)
(* handles a message in one step, a class in many; the step in which       *)
(* apply() is called is mapped to the step of the contract, so the state   *)
(* of the contract is the book and the counters as they will be when the   *)
(* call in progress returns.                                               *)
(***************************************************************************)
EXTENDS L3BookBase, L3BookOps

FinalBook ==
  CASE pc = "idle"     -> orders
    [] pc = "applyNew" -> AfterNew(orders, call.side, call.id, call.price, call.qty)
    [] OTHER           -> AfterMatch(orders, call.side, call.id, call.price, call.rem)

\* The level being consumed is empty but not yet erased.
EmptiedBest == pc = "consume" /\ orders[Opposite(call.side)][call.at] = <<>>

FinalTally ==
  CASE pc = "idle" -> tally
    [] pc = "applyNew" ->
         Plus(tally, NewTally(orders, call.side, call.id, call.price, call.qty, call.isNew))
    [] OTHER ->
         LET t == Plus(tally, MatchTally(orders, call.side, call.price, call.rem))
         IN  IF EmptiedBest THEN Invalidated(t, Opposite(call.side)) ELSE t

\* None is no call in progress, to the class or to the contract.
ASSUME RefinesAssumption ==
  /\ None \notin Call
  /\ None \notin [side : Side, id : OrderId \cup {ZeroId}, price : Price, qty : Qty,
                   isNew : BOOLEAN]

\* The call in progress, as the caller made it (a modify() once its order is erased).
InProgress ==
  IF call = None THEN None
  ELSE [side |-> call.side, id |-> call.id, price |-> call.price, qty |-> call.qty,
        isNew |-> call.isNew]

Contract == INSTANCE L3Book WITH
  book <- FinalBook, tally <- FinalTally, request <- InProgress

\* Every call of apply() has exactly the effect on the queues, and on the
\* counters, that the price-time priority contract gives its message.
Implements == Contract!BookSpec
=============================================================================
