\* Payments at the edges: to oneself, overflowing, rounded to nothing, rejected, refused;
\* POSTed any number of times, with answers lost.
SPECIFICATION Spec
CONSTANTS
  Requests = {"self", "full", "dust", "anon2", "long"}
  Doc <- MCEdges
  Accounts = {"alice", "bob"}
  RoutingNumber <- MCRoutingNumber
  AccountCurrency <- MCCurrency
  Opening <- MCEdgesOpening
  MaxCents = 170
  Reasons = {""}
  Suspendable = {}
INVARIANTS
  LedgerExplainsBalances
  AuditTrail
  OutboxTellsStates
  TrueAnswers
PROPERTY
  HistoryIsFinal
