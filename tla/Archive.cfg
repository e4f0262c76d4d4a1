SPECIFICATION Spec
CONSTANTS
  PreferredMin = 2
  Target = 3
  PreferredMax = 4
  RelaxationStart = 4
  RelaxedCleanMax = 5
  HardMax = 6
  StrongGap = 4
  ShortGap = 2
  ChangeTolerance = 2
  OverlapMargin = 1
  MinimumChunk = 2
  QuartersPerTick = 2
  Cells = 6
  CellTicks = 2
  Speakers = {1, 2}
  WindowTicks = 3
  ContextTicks = 1
  MaxRunWords = 2
  MaxRunTicks = 5
  EpisodeTicks = 8
  MaxWordTicks = 4
  MinExcerpt = 2
  PreferredExcerpt = 3
  MaxExcerpt = 4
  Transition = 1
  ExcerptLimit = 1
  ExemplarTicks = 12
  Long = 2
  DirectCells = 4
  AlignedTokens = {1, 2}
  MaxTokens = 5
  MaxStream = 2
  TimedWordsRequired = 6
  Logs = {"annotation", "decision", "chunk"}
  KindOf <- MCKindOf
  Reviewers = {"v1", "v2"}
  MaxSaves = 2
  Artifacts = {"a", "b", "c"}
  EpisodeOf <- MCEpisodeOf
  ModelOf <- MCModelOf
  Excerpts <- MCExcerpts
  Builders = {"b1", "b2"}
  Searchers = {"q"}
  BatchSize = 1
  HitLimit = 1
  MaxBuilds = 2
  Indexers = {"i1", "i2"}
  Publishers = {"p"}
  Editions <- MCEditions
  ChunkCount <- MCChunkCount
  Episodes = {"ep1"}
  Generations <- MCGenerations
  MaxStarts = 3
  Requests = {"r1", "r2", "r3"}
  Budget = 3
  Amounts = {1, 2}
  Charges = {0, 1, 3}
  HeavyPercent = 50
  MusicPresence = 34
  MusicDominant = 80
  SpeechPresence = 57
  HalfTicks = 10
  Questions = {"q1"}
  Drafts = {"t1", "t2"}
  Clients = {"c1", "c2", "c3"}
  HelperOf <- MCHelperOf
  MaxAsks = 2
INVARIANTS
  SegmentationIsSound
  BadCutIsLastResort
  TranscriptIsSound
  ExemplarsAreSound
  ReuseIsExact
  SpeakerMapIsBest
  TextScoresAreExact
  HeldOutIsApart
  GatesAgree
  BudgetRespected
  NoReviewIsLost
  VoiceSearchIsCoherent
  SearchIsOneEdition
  ConditionsAreExact
  DraftsAgree
CHECK_DEADLOCK FALSE
