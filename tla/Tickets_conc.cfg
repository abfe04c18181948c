\* Edits, merges, deletions and the poller interleave, and the process restarts,
\* on an incident and the problem raised for it.
CONSTANTS
  t1 = t1
  t2 = t2
  alice = alice
  Tickets = {t1, t2}
  Requests = {r1, r2}
  NoTicket = NoTicket
  TypeOf <- Promoted
  RequesterOf <- SameUser
  CloseAfter = 1
  PageSize = 2
  Targets = {"open", "in_progress", "resolved"}
  Features = {"update", "merge", "promote", "delete", "poll", "crash"}
  MaxInFlight = 3
  MaxVersion = 4
  MaxTime = 2
SPECIFICATION Spec
SYMMETRY RequestSymmetry
INVARIANTS TypeOK VersionGuards StatusStamped
PROPERTIES MergedIsFinal NoMergeCycle
CHECK_DEADLOCK FALSE
