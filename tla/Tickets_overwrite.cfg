\* Two edits of one incident overlap.
CONSTANTS
  t1 = t1
  t2 = t2
  alice = alice
  Tickets = {t1}
  Requests = {r1, r2}
  NoTicket = NoTicket
  TypeOf <- Incidents
  RequesterOf <- SameUser
  CloseAfter = 1
  PageSize = 2
  Targets = {"open", "in_progress"}
  Features = {"update"}
  MaxInFlight = 2
  MaxVersion = 3
  MaxTime = 1
SPECIFICATION Spec
PROPERTIES NoSilentOverwrite
CHECK_DEADLOCK FALSE
