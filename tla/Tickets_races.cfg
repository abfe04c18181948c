\* Edits, comments, CAB submissions, verdicts and the poller interleave on a change that is
\* resolved, answered, closed and opened again.
CONSTANTS
  t1 = t1
  t2 = t2
  alice = alice
  Tickets = {t1}
  Requests = {r1, r2}
  NoTicket = NoTicket
  TypeOf <- Changes
  RequesterOf <- SameUser
  CloseAfter = 1
  PageSize = 2
  Targets = {"open", "in_progress", "resolved"}
  Features = {"update", "comment", "cab", "verdict", "delete", "poll", "crash"}
  MaxInFlight = 3
  MaxVersion = 4
  MaxTime = 3
SPECIFICATION Spec
SYMMETRY RequestSymmetry
PROPERTIES LegalMoves AutoCloseJustified
CHECK_DEADLOCK FALSE
