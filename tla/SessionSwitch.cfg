SPECIFICATION Spec
CONSTANTS
  Initial = 2
  MaxSessions = 6
  MaxTurns = 2
  MaxClicks = 2
INVARIANTS ShownIsActive NotOnDeleted
PROPERTY LoadingEnds
