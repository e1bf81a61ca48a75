\* One payment that only the events drive, with two faults, a suspended account among them:
\* its story is in order and everything still ends.
SPECIFICATION FairRelaySpec
CONSTANTS
  Requests = {"p1"}
  Doc <- MCDoc
  Accounts = {"alice", "bob"}
  RoutingNumber <- MCRoutingNumber
  AccountCurrency <- MCCurrency
  Opening <- MCOpening
  MaxCents = 1000
  Reasons = {""}
  Suspendable = {"alice", "bob"}
  Manual = {}
  OldTopic <- NoTopic
  MaxFaults = 2
INVARIANTS
  StoryInOrder
PROPERTIES
  EveryPaymentEnds
  BacklogDrains
CHECK_DEADLOCK FALSE
