\* One tick at a time, on a ticket that is answered twice at once, held and merged at any time.
CONSTANTS
  Metrics = {"first_response", "resolution"}
  Target <- Short
  Thresholds = {100}
  Reassigning = {100}
  Tickers = {"poller", "worker"}
  Escalators = {"poller"}
  PageSize = 2
  Targets = {"pending_approval", "open"}
  Features = {"merge"}
  MaxInFlight = 1
  MaxComments = 2
  MaxTime = 5
SPECIFICATION SlaFairSpec
INVARIANTS ResponseIsTimed
PROPERTIES BreachIsDue ResponseIsNoticed
CHECK_DEADLOCK FALSE
