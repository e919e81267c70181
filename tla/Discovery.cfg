\* Overlapping calls of Discover, the monitor and its analyses.
SPECIFICATION FairSpec
CONSTANTS
  Set = {"s1"}
  Discoverer = {"d1", "d2"}
  StartDelay = 2
  MaxTime = 3
  MaxWorld = 2
  MaxSnapshot = 2
INVARIANTS TypeOK NeverAheadOfSnapshot AnalyzedAtMostTwice
PROPERTIES NoStaleOverwrite NewTopologyIsAnalyzed AnalysisIsTaken
CHECK_DEADLOCK FALSE
