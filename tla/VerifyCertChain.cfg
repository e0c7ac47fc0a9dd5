SPECIFICATION Spec
CONSTANT MaxChain = 4
CHECK_DEADLOCK FALSE
INVARIANTS
  FreesAllOnce
  SuccessIsEarned
