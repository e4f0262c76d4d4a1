SPECIFICATION MCChunkingSpec
CONSTANTS
  PreferredMin = 2
  Target = 3
  PreferredMax = 4
  RelaxationStart = 4
  RelaxedCleanMax = 5
  HardMax = 6
  StrongGap = 5
  ShortGap = 3
  ChangeTolerance = 2
  OverlapMargin = 1
  MinimumChunk = 2
  QuartersPerTick = 2
  Cells = 6
  CellTicks = 2
  Speakers = {1, 2}
INVARIANT NearContiguousChangeIsCandidate
CHECK_DEADLOCK FALSE
