SPECIFICATION Spec
CONSTANTS
  MaxIterations = 2
  LlmAttempts = 2
  MaxReflections = 1
  MaxCalls = 2
  MaxChunks = 1
INVARIANTS
  ConversationPaired
  TerminalBeforeClose
  NoRefusedTransition
  TerminalMatchesStore
PROPERTIES
  ImplementsFrames
  EveryRunEnds
