SPECIFICATION FairSpec
CONSTANTS
  d1 = d1
  Dispatches = {d1}
  Order <- MCOrder
  ChunkOf <- MCChunkOf
  Orchestrators = {o1, o2}
  Audios = {a1}
  Responses = {r1, r2}
  MaxAttempts = 2
  MaxRetries = 1
  MaxCrashes = 1
  None = None
INVARIANTS TypeOK SuccessHasProvenance OutcomeIsVisible
PROPERTIES ResultsAreImmutable ResultsSurface DispatchesAreDecided
