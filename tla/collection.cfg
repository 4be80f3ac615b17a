SPECIFICATION Spec
CONSTANTS
  Sections <- TwoSections
  Required <- Sources
  MinEvidence <- One
  Budget <- Two
  Evidence <- AllEvidence
  Settings <- OfflineOrLive
  Tools = 1
  Strict = TRUE
  MinVerified = 3
  MaxRetries = 2
  MaxRounds = 3
  MaxToolCalls = 6
  MaxPerTool = 2
  MaxEvidence = 4
  StrategiesPerRound = 5
INVARIANTS
  CallsWithinBudget
  SourcesStayDiverse
  FollowedWhenDue
PROPERTIES
  EvidenceIsOutdone
