SPECIFICATION Spec
CONSTANTS
  MaxTurns = 1
  MaxFetches = 2
  Refusals = {"quota"}
INVARIANT QuotaLeavesNoBubble
