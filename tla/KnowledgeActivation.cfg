SPECIFICATION Spec
CONSTANTS
  Worlds <- MCWorlds
  MaxFragmentsPerStory = 2
  MaxCachedStories = 1
  MaxMatchesPerFragment = 2
  MaxTotalBytes = 3
  MaxPacks = 1
  MaxPackBytes = 2
CHECK_DEADLOCK FALSE
INVARIANTS
  DeliveriesAccounted
  TimedEffectsKept
  SnapshotConsistent
  CacheAccounted
  KnowledgeShown
PROPERTIES
  VerdictsFinal
  RunsEnd
