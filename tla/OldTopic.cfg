\* A topic that already holds a record when the workers start for the first time.
SPECIFICATION RelaySpec
CONSTANTS
  Requests = {"p1"}
  Doc <- MCDoc
  Accounts = {"alice", "bob"}
  RoutingNumber <- MCRoutingNumber
  AccountCurrency <- MCCurrency
  Opening <- MCOpening
  MaxCents = 1000
  Reasons = {""}
  Suspendable = {}
  Manual = {}
  OldTopic <- MCDemo
  MaxFaults = 0
INVARIANTS
  OldMessagesIgnored
CHECK_DEADLOCK FALSE
