\* An approver decides while the rows of the step are being inserted.
CONSTANTS
  alice = alice
  bob = bob
  carol = carol
  Tickets = {t1}
  Requests = {r1, r2}
  NoTicket = NoTicket
  TypeOf <- Accesses
  RequesterOf <- Alice
  CloseAfter = 1
  PageSize = 1
  Targets = {}
  Features = {"verdict"}
  MaxInFlight = 2
  MaxVersion = 4
  MaxTime = 1
  Users <- Everyone
  Policies <- SmallPolicy
  LegacyApprovers = {carol}
SPECIFICATION ApprovalsSpec
INVARIANTS EveryApproverSigned
CHECK_DEADLOCK FALSE
