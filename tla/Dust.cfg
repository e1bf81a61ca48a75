\* A body whose value is positive and less than half a cent.
SPECIFICATION Spec
CONSTANTS
  Requests = {"dust"}
  Doc <- MCEdges
  Accounts = {"alice", "bob"}
  RoutingNumber <- MCRoutingNumber
  AccountCurrency <- MCCurrency
  Opening <- MCEdgesOpening
  MaxCents = 170
  Reasons = {""}
  Suspendable = {}
INVARIANTS
  ValidatedAmountPositive
