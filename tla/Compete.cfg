\* Two payments of which alice's money pays for either but not for both: one is driven by the
\* events alone, one by operators and workers at the same time; no faults.
SPECIFICATION FairRelaySpec
CONSTANTS
  Requests = {"p1", "p2"}
  Doc <- MCDoc
  Accounts = {"alice", "bob"}
  RoutingNumber <- MCRoutingNumber
  AccountCurrency <- MCCurrency
  Opening <- MCOpening
  MaxCents = 1000
  Reasons = {""}
  Suspendable = {}
  Manual = {"p2"}
  OldTopic <- NoTopic
  MaxFaults = 0
INVARIANTS
  NoStrandedPayment
  NeverEarly
PROPERTIES
  EveryPaymentEnds
CHECK_DEADLOCK FALSE
