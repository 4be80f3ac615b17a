SPECIFICATION Spec
CONSTANTS
  Worker = {w1, w2}
  w1 = w1
  w2 = w2
  Providers <- TwoProviders
  Keyed = {"serpapi", "duckduckgo"}
  PerRun <- TenEach
  Daily <- OnePerDay
  Answers <- ResultLists
  Listings <- OneListed
  Url <- Urls
  Canonical <- CanonicalUrl
  Folded <- FoldedUrl
  Allowed <- Urls
  Lands <- LandsAt
  Content = {"latin", "garbled", "long", "blank"}
  Serves <- ServedAt
  Scores <- ContentScores
  Cacheable = {"latin", "long"}
  Reread <- Utf8
  Settings <- CachedOrNot
  Limit = 3
  Fetches = 2
  Chunks = 2
  Retries = 1
  MaxCalls = 1
  MaxCrashes = 0
  MaxDays = 0
INVARIANTS
  LongPagesKeepTheirChunks
CHECK_DEADLOCK FALSE
