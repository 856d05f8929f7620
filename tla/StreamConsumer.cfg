SPECIFICATION Spec
CONSTANTS
  MaxTurns = 3
  MaxFetches = 3
  Refusals = {"quota", "token", "other"}
INVARIANTS TextFromOwnTurn NoDanglingBubble RetryOfOwnTurn
PROPERTIES GeneratingEnds
