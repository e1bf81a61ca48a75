\* Two connections and two payments in opposite directions, with an account suspended
\* and brought back: every call returns.
SPECIFICATION FairLocksSpec
CONSTANTS
  s1 = s1
  s2 = s2
  Sessions = {s1, s2}
  Requests = {"there", "back"}
  Doc <- MCDoc
  Accounts = {"alice", "bob"}
  RoutingNumber <- MCRoutingNumber
  AccountCurrency <- MCCurrency
  Opening <- MCOpening
  MaxCents = 1000
  Reasons = {""}
  Suspendable = {"bob"}
VIEW WithoutReply
PROPERTY
  EveryCallReturns
CHECK_DEADLOCK FALSE
