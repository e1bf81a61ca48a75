\* One payment that operators and the workers clear, answer and settle at the same time,
\* with two faults anywhere.
SPECIFICATION RelaySpec
CONSTANTS
  Requests = {"p1"}
  Doc <- MCDoc
  Accounts = {"alice", "bob"}
  RoutingNumber <- MCRoutingNumber
  AccountCurrency <- MCCurrency
  Opening <- MCOpening
  MaxCents = 1000
  Reasons = {""}
  Suspendable = {}
  Manual = {"p1"}
  OldTopic <- NoTopic
  MaxFaults = 2
INVARIANTS
  RelayTypeOK
  NoStrandedPayment
  NeverEarly
CHECK_DEADLOCK FALSE
