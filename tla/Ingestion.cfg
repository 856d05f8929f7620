SPECIFICATION Spec
CONSTANTS
  Users = {u1, u2}
  MaxRequests = 3
  Quota = 1
  LastDay = 2
  MaxChunks = 2
INVARIANTS ChunksCover CorpusWhole
PROPERTIES ImplementsLedger EveryRequestEnds
