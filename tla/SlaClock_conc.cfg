\* Poller and worker overlap with each other and restart, on a ticket that is held and merged at any time.
CONSTANTS
  Metrics = {"resolution"}
  Target <- Short
  Thresholds = {50, 100}
  Reassigning = {}
  Tickers = {"poller", "worker"}
  Escalators = {"poller"}
  PageSize = 1
  Targets = {"pending_approval", "open"}
  Features = {"merge", "crash"}
  MaxInFlight = 2
  MaxComments = 0
  MaxTime = 4
SPECIFICATION SlaSpec
INVARIANTS SlaTypeOK EscalatesOnce DueAgrees
CHECK_DEADLOCK FALSE
