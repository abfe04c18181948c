\* Approvers decide at the same time: the wait for them always ends.
CONSTANTS
  alice = alice
  bob = bob
  carol = carol
  Tickets = {t1}
  Requests = {r1, r2}
  NoTicket = NoTicket
  TypeOf <- Changes
  RequesterOf <- Alice
  CloseAfter = 1
  PageSize = 1
  Targets = {}
  Features = {"verdict"}
  MaxInFlight = 2
  MaxVersion = 4
  MaxTime = 1
  Users <- Everyone
  Policies <- OnePolicy
  LegacyApprovers = {carol}
SPECIFICATION ApprovalsSpec
SYMMETRY RequestSymmetry
INVARIANTS NotStuck
CHECK_DEADLOCK FALSE
