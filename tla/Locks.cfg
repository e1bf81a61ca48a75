\* Two connections and three payments: two in opposite directions and two that compete for
\* the money of one account, with the other account suspended and brought back.  MaxCents
\* lets "there" be credited at any time and "back" only after "there" was debited.
SPECIFICATION LocksSpec
CONSTANTS
  s1 = s1
  s2 = s2
  Sessions = {s1, s2}
  Requests = {"there", "back", "more"}
  Doc <- MCDoc
  Accounts = {"alice", "bob"}
  RoutingNumber <- MCRoutingNumber
  AccountCurrency <- MCCurrency
  Opening <- MCOpening
  MaxCents = 165
  Reasons = {""}
  Suspendable = {"bob"}
SYMMETRY Symmetry
VIEW WithoutReply
INVARIANTS
  LocksOK
  HeldMoneyIsFound
  OnlySettlementsDeadlock
PROPERTY
  ImplementsRail
CHECK_DEADLOCK FALSE
