SPECIFICATION FairEventSpec
CONSTANTS
  Client = {c1, c2}
  c1 = c1
  c2 = c2
  Limit = 2
  MaxEvents = 3
  MaxCrashes = 1
INVARIANTS
  StreamsAreInOrder
  LiveEventsAreConsecutive
  CacheIsFreshest
  NoOrphanSubscription
PROPERTIES
  StreamsClose
CHECK_DEADLOCK FALSE
