\* Approvers, agents, CAB submissions, policy edits and restarts overlap.
CONSTANTS
  alice = alice
  bob = bob
  carol = carol
  Tickets = {t1}
  Requests = {r1, r2}
  NoTicket = NoTicket
  TypeOf <- Changes
  RequesterOf <- Alice
  CloseAfter = 1
  PageSize = 1
  Targets = {"in_progress"}
  Features = {"verdict", "update", "cab", "policy", "crash"}
  MaxInFlight = 2
  MaxVersion = 3
  MaxTime = 1
  Users <- Everyone
  Policies <- TwoEditions
  LegacyApprovers = {carol}
SPECIFICATION ApprovalsSpec
SYMMETRY RequestSymmetry
INVARIANTS ApprovalsTypeOK StepsInOrder
PROPERTIES ImplementsTickets
CHECK_DEADLOCK FALSE
