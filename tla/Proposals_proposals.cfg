SPECIFICATION FairSpec
CONSTANTS
  Services = {"queue-worker", "checkout-api"}
  Environments = {"staging", "production"}
  Drafts <- SomeDrafts
  MaxDrafts = 5
  Backlogs = {0, 80, 120}
  Latencies = {0, 500}
  LocalCollectors = {"demo", "workload"}
  MaxChanges = 1
  StoreFaults = TRUE
INVARIANTS
  OfferedCanStart
  OffersBounded
  OffersFollowEvidence
  StateMatchesOffers
PROPERTIES
  Concludes
CHECK_DEADLOCK FALSE
