\* Two handlers on one page and two payments that anyone else may also move on.
SPECIFICATION ConsoleSpec
CONSTANTS
  c1 = c1
  c2 = c2
  Clients = {c1, c2}
  Requests = {"p1", "euro"}
  Doc <- MCDoc
  Accounts = {"alice", "bob"}
  RoutingNumber <- MCRoutingNumber
  AccountCurrency <- MCCurrency
  Opening <- MCOpening
  MaxCents = 1000
  Reasons = {""}
  Suspendable = {}
  MaxAttempts = 1
SYMMETRY Symmetry
VIEW WithoutReply
INVARIANTS
  PanelsTrue
  InspectionAgrees
  NoForeignPanel
CHECK_DEADLOCK FALSE
