SPECIFICATION Spec
CONSTANTS
  Mtus <- MCMtus
  BytesPerMs <- MCBytesPerMs
  Calls <- MCCalls
CHECK_DEADLOCK FALSE
INVARIANTS
  FirstOfTheBest
  MatchesRounds

