SPECIFICATION Spec
CONSTANTS
  Sections <- TwoSections
  Required <- Sources
  MinEvidence <- One
  Budget <- Two
  Evidence <- AllEvidence
  Settings <- OfflineOrLive
  Tools = 1
  Strict = TRUE
  MinVerified = 3
  MaxRetries = 1
  MaxRounds = 1
  MaxToolCalls = 8
  MaxPerTool = 2
  MaxEvidence = 4
  StrategiesPerRound = 5
INVARIANTS
  GapsAreFollowedUp
