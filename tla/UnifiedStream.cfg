SPECIFICATION Spec
CONSTANTS
  MaxIterations = 3
  MaxCalls = 2
  MaxChunks = 3
  StoresMayFail = {"answer", "best_effort", "denial"}
  MayRefuse = TRUE
INVARIANTS LoopPaired TerminalMatchesStore StoredWasShown
PROPERTIES NothingAskedAfterNotice ImplementsFrames EveryResponseEnds
