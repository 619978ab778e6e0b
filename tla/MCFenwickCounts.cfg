SPECIFICATION CountsSpec
CONSTANT
  Size = 11
INVARIANTS TreeExact FindsEachByOrder
