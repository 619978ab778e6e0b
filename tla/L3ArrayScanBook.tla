---------------------------- MODULE L3ArrayScanBook ----------------------------
(***************************************************************************)
(* L3ArrayScanOrderBook keeps nothing about the active levels: recoverBest *)
(* scans the array of the side, from its best end, for an active level.    *)
(***************************************************************************)
EXTENDS L3ArrayBook

NoIndex == <<>>

NothingMarked(ix, i, active) == ix

\* The slot looked at with this many left: bids from the top of the array down, asks
\* from the bottom up.
SlotWith(side, left) == IF side = "Bid" THEN left - 1 ELSE MaxIndex + 1 - left

\* recoverBest(): slot after slot, until one is active or none is left.
ScannedBest(side, ix, active) ==
  LET scan[left \in Nat] ==
        IF left = 0 THEN -1
        ELSE IF SlotWith(side, left) \in active THEN SlotWith(side, left)
        ELSE scan[left - 1]
  IN  scan[MaxIndex + 1]

NoIndexOf(active) == NoIndex
=============================================================================
