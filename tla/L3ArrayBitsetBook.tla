---------------------------- MODULE L3ArrayBitsetBook ----------------------------
(***************************************************************************)
(* L3ArrayBitsetBook keeps one bit per level, set while it is active, in   *)
(* 64-bit words.  A word is the set of the positions of its set bits.      *)
(***************************************************************************)
EXTENDS L3ArrayBook

CONSTANT WordBits   \* 64

ASSUME WordBitsAssumption == WordBits \in Nat \ {0}

Word == 0 .. ((MaxIndex + 1 + WordBits - 1) \div WordBits) - 1

EmptyWords == [w \in Word |-> {}]

\* Mutant of WordsMarked: clearing one bit clears its whole word.
WordsMarkedClearingWord(ix, i, active) ==
  [ix EXCEPT ![i \div WordBits] = IF active THEN @ \cup {i % WordBits} ELSE {}]

\* setActive()
WordsMarked(ix, i, active) ==
  [ix EXCEPT ![i \div WordBits] =
     IF active THEN @ \cup {i % WordBits} ELSE @ \ {i % WordBits}]

\* Mutant of EndBit: countr_zero() is used on both sides.
EndBitLowest(side, word) == BestOf("Ask", word)

\* 63 - countl_zero() of a word for bids, countr_zero() for asks.
EndBit(side, word) == BestOf(side, word)

\* Mutant of WordsBest: words are scanned from the lowest one on both sides.
WordsBestUpwards(side, ix, active) ==
  LET LevelOf(w) == w * WordBits + EndBit(side, ix[w])
      found == {w \in Word : ix[w] # {} /\ LevelOf(w) \in Index}
  IN  IF found = {} THEN -1 ELSE LevelOf(BestOf("Ask", found))

\* recoverBest() takes the first word, from the best end, whose end bit is the
\* bit of a level.
WordsBest(side, ix, active) ==
  LET LevelOf(w) == w * WordBits + EndBit(side, ix[w])
      found == {w \in Word : ix[w] # {} /\ LevelOf(w) \in Index}
  IN  IF found = {} THEN -1 ELSE LevelOf(BestOf(side, found))

WordsOf(active) == [w \in Word |-> {i % WordBits : i \in {j \in active : j \div WordBits = w}}]
=============================================================================
