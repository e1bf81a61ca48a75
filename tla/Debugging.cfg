\* Two bodies without a UETR.
SPECIFICATION Spec
CONSTANTS
  Requests = {"anon", "anon2"}
  Doc <- MCEdges
  Accounts = {"alice", "bob"}
  RoutingNumber <- MCRoutingNumber
  AccountCurrency <- MCCurrency
  Opening <- MCEdgesOpening
  MaxCents = 170
  Reasons = {""}
  Suspendable = {}
INVARIANTS
  RejectionRecorded
