SPECIFICATION FairSpec
CONSTANTS
  Pools <- Collected
  Verified = {"page", "repo"}
  Terms <- SnippetTerms
  SectionOf <- EvidenceSection
  Positioning <- PositioningScore
  Repository <- RepositoryScore
  Mentions <- OneProduct
  Plans <- NoneOrOne
  Analyses <- ModelAnalyses
  Drafts <- ModelDrafts
  Settings <- SomeSettings
  Models = 2
  Retries = 1
  Costs = {0, 2}
  MaxTokens = 3
  MaxPasses = 2
  MaxRetries = 1
  MinVerified = 2
  MaxWeak = 0
INVARIANTS
  CitationsResolve
  ConclusionsAreGrounded
  SupportedClaimsAreStated
  SectionsAreComplete
  TokensWithinBudget
PROPERTIES
  RunsEnd
CHECK_DEADLOCK FALSE
