\* One handler at a time and no moves by hand: the round the policy promises.
CONSTANTS
  alice = alice
  bob = bob
  carol = carol
  Tickets = {t1, t2}
  Requests = {r1}
  NoTicket = NoTicket
  TypeOf <- Accesses
  RequesterOf <- Alice
  CloseAfter = 1
  PageSize = 1
  Targets = {}
  Features = {"verdict"}
  MaxInFlight = 1
  MaxVersion = 4
  MaxTime = 1
  Users <- Everyone
  Policies <- AnyFirst
  LegacyApprovers = {carol}
SPECIFICATION ApprovalsSpec
INVARIANTS CurrentStepOnly
PROPERTIES ImplementsRound
CHECK_DEADLOCK FALSE
