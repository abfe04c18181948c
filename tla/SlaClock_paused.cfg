\* A pause between two ticks, and nothing else that is hard.
CONSTANTS
  Metrics = {"resolution"}
  Target <- Long
  Thresholds = {50}
  Reassigning = {}
  Tickers = {"poller"}
  Escalators = {"poller"}
  PageSize = 1
  Targets = {"pending_approval", "open"}
  Features = {}
  MaxInFlight = 1
  MaxComments = 1
  MaxTime = 8
SPECIFICATION SlaSpec
PROPERTIES EscalationIsDue
CHECK_DEADLOCK FALSE
