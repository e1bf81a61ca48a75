\* One handler at a time on the page and three payments: whatever it asks for, whenever,
\* with anything the rail does between any two reads.
SPECIFICATION ConsoleSpec
CONSTANTS
  c1 = c1
  Clients = {c1}
  Requests = {"p1", "self", "euro"}
  Doc <- MCDoc
  Accounts = {"alice", "bob"}
  RoutingNumber <- MCRoutingNumber
  AccountCurrency <- MCCurrency
  Opening <- MCOpening
  MaxCents = 1000
  Reasons = {""}
  Suspendable = {}
  MaxAttempts = 2
VIEW WithoutReply
INVARIANTS
  NoFalseAlarm
  PassIsFinal
  InspectionAgrees
PROPERTY
  EveryTaskEnds
CHECK_DEADLOCK FALSE
